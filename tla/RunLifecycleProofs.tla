------------------------- MODULE RunLifecycleProofs -------------------------
(* Theorems about RunLifecycle, for every set of runs, slots and workers   *)
(* and every bound.                                                        *)
EXTENDS RunLifecycle, TLAPS, SequenceTheorems, FiniteSetTheorems

---------------------------------------------------------------------------
(* Types.  A session that is not idle serves a run, and from CreateAttempt *)
(* on it has an attempt.                                                   *)

Trying == {"executing", "busy", "setup", "finally", "rethrow"}

Serving ==
  \A h \in Handlers :
    /\ session[h].step # "idle" => session[h].run \in Runs
    /\ session[h].step \in Trying => session[h].attempt \in 1..Len(attempts)

Typed == TypeOK /\ Serving

LEMMA UnleasedType ==
  ASSUME NEW row \in RunRow, NEW s \in Statuses
  PROVE  Unleased(row, s) \in RunRow
BY DEF Unleased, RunRow

\* Closing an attempt keeps the length of the table.
LEMMA CloseAttemptType ==
  ASSUME attempts \in Seq(Attempt), NEW h \in Handlers,
         session[h].attempt \in 1..Len(attempts),
         NEW status \in AttemptStatuses, CloseAttempt(h, status)
  PROVE  attempts' \in Seq(Attempt) /\ Len(attempts') = Len(attempts)
<1> DEFINE i == session[h].attempt
<1>1. attempts[i] \in Attempt
  OBVIOUS
<1>2. [attempts[i] EXCEPT !.status = status] \in Attempt
  BY <1>1 DEF Attempt
<1> QED
  BY <1>1, <1>2, ExceptSeq DEF CloseAttempt

LEMMA StatusType ==
  Statuses = {"none", "queued", "leased", "running", "waiting_input",
              "waiting_takeover", "completed", "failed", "cancelled"}
BY DEF Statuses, Active, Terminal

LEMMA RowType ==
  ASSUME NEW row \in RunRow, NEW s \in Statuses, NEW c \in Checkpoints
  PROVE  /\ [row EXCEPT !.status = s] \in RunRow
         /\ [row EXCEPT !.status = s, !.checkpoint = c] \in RunRow
         /\ Unleased(row, s) \in RunRow
         /\ [Unleased(row, s) EXCEPT !.checkpoint = c] \in RunRow
         /\ [row EXCEPT !.expired = TRUE] \in RunRow
         /\ [row EXCEPT !.expired = FALSE] \in RunRow
<1>1. Unleased(row, s) \in RunRow
  BY UnleasedType
<1> QED
  BY <1>1 DEF RunRow

LEMMA PutRun ==
  ASSUME run \in [Runs -> RunRow], NEW r \in Runs, NEW s \in Statuses,
         NEW c \in Checkpoints
  PROVE  /\ [run EXCEPT ![r].status = s] \in [Runs -> RunRow]
         /\ [run EXCEPT ![r].status = s, ![r].checkpoint = c] \in [Runs -> RunRow]
         /\ [run EXCEPT ![r] = Unleased(@, s)] \in [Runs -> RunRow]
         /\ [run EXCEPT ![r] = [Unleased(@, s) EXCEPT !.checkpoint = c]]
              \in [Runs -> RunRow]
         /\ [run EXCEPT ![r].expired = TRUE] \in [Runs -> RunRow]
         /\ [run EXCEPT ![r].expired = FALSE] \in [Runs -> RunRow]
BY RowType

LEMMA RequeueType ==
  ASSUME run \in [Runs -> RunRow], NEW r \in Runs, NEW c \in Checkpoints
  PROVE  [run EXCEPT ![r] = [Unleased(@, "queued") EXCEPT !.checkpoint = c]]
           \in [Runs -> RunRow]
BY PutRun, StatusType

\* A session that keeps its run and its attempt keeps being served.
LEMMA GoToType ==
  ASSUME Typed, NEW h \in Handlers, session[h].step # "idle",
         NEW step \in Steps, GoTo(h, step),
         step \in Trying => session[h].step \in Trying,
         attempts' \in Seq(Attempt), Len(attempts') >= Len(attempts)
  PROVE  session' \in [Handlers -> Session] /\ Serving'
<1>1. session' \in [Handlers -> Session]
  <2>1. session \in [Handlers -> Session] BY DEF Typed, TypeOK
  <2>2. [session[h] EXCEPT !.step = step] \in Session BY <2>1 DEF Session
  <2>3. session' = [session EXCEPT ![h] = [session[h] EXCEPT !.step = step]] BY DEF GoTo
  <2> QED BY <2>1, <2>2, <2>3
<1> SUFFICES ASSUME NEW g \in Handlers
             PROVE  /\ session'[g].step # "idle" => session'[g].run \in Runs
                    /\ session'[g].step \in Trying =>
                         session'[g].attempt \in 1..Len(attempts')
  BY <1>1 DEF Serving
<1>2. CASE g = h
  BY <1>2 DEF Serving, GoTo, Typed, TypeOK, Session
<1>3. CASE g # h
  BY <1>3 DEF Serving, GoTo, Typed, TypeOK, Session
<1> QED
  BY <1>2, <1>3

LEMMA ReturnType ==
  ASSUME Typed, NEW h \in Handlers, Return(h),
         attempts' \in Seq(Attempt), Len(attempts') >= Len(attempts)
  PROVE  session' \in [Handlers -> Session] /\ Serving'
<1>1. session' \in [Handlers -> Session]
  BY DEF Return, Session, Idle, Steps, Checkpoints, Typed, TypeOK
<1> SUFFICES ASSUME NEW g \in Handlers
             PROVE  /\ session'[g].step # "idle" => session'[g].run \in Runs
                    /\ session'[g].step \in Trying =>
                         session'[g].attempt \in 1..Len(attempts')
  BY <1>1 DEF Serving
<1>2. CASE g = h
  BY <1>2 DEF Return, Idle, Trying, Typed, TypeOK
<1>3. CASE g # h
  BY <1>3 DEF Serving, Return, Typed, TypeOK, Session
<1> QED
  BY <1>2, <1>3

LEMMA TypedStep == Typed /\ [Next]_vars => Typed'
<1> SUFFICES ASSUME Typed, [Next]_vars PROVE Typed'
  OBVIOUS
<1>1. ASSUME NEW h \in Handlers, NEW r \in Runs, ReadRun(h, r)
       PROVE  Typed'
  <2> USE <1>1 DEF ReadRun, dbVars, jobVars, pastVars, Typed, TypeOK
  <2>1. session' \in [Handlers -> Session]
    <3>1. run[r].fence + 1 \in Nat /\ run[r].checkpoint \in Checkpoints
      BY DEF RunRow
    <3> DEFINE new == [step |-> "read", run |-> r, fence |-> nextFence(run[r].fence),
                       resume |-> run[r].checkpoint, attempt |-> 0]
    <3>2. new \in Session
      BY <3>1 DEF Session, Steps, nextFence
    <3> QED
      BY <3>2
  <2>2. Serving'
    <3> SUFFICES ASSUME NEW g \in Handlers
                 PROVE  /\ session'[g].step # "idle" => session'[g].run \in Runs
                        /\ session'[g].step \in Trying =>
                             session'[g].attempt \in 1..Len(attempts')
      BY DEF Serving
    <3>1. CASE session' = session
      BY <3>1 DEF Serving
    <3>2. CASE session' # session
      BY <3>2 DEF Serving, Trying
    <3> QED
      BY <3>1, <3>2
  <2> QED
    BY <2>1, <2>2
<1>2. ASSUME NEW h \in Handlers, ClaimLease(h)
       PROVE  Typed'
  <2> USE <1>2 DEF ClaimLease, dbVars, jobVars, pastVars, Typed, TypeOK
  <2>1. run' \in [Runs -> RunRow]
    BY StatusType, ConstantsAssumption DEF RunRow, Session, Serving, At, Checkpoints
  <2>2. session' \in [Handlers -> Session] /\ Serving'
    BY GoToType, ReturnType DEF Steps, Throw, Trying, At
  <2> QED
    BY <2>1, <2>2 DEF Serving, Throw, Fail, At
<1>3. ASSUME NEW h \in Handlers, LoseClaim(h)
       PROVE  Typed'
  <2> USE <1>3 DEF LoseClaim, dbVars, jobVars, pastVars, Typed, TypeOK
  <2>1. session' \in [Handlers -> Session] /\ Serving'
    BY GoToType, ReturnType DEF Steps, Throw, Trying, At
  <2> QED
    BY <2>1 DEF Serving, Throw, Fail, At
<1>4. ASSUME NEW h \in Handlers, StartRun(h)
       PROVE  Typed'
  <2> USE <1>4 DEF StartRun, dbVars, jobVars, pastVars, Typed, TypeOK
  <2>1. run' \in [Runs -> RunRow]
    <3>1. session[h].run \in Runs /\ None \in Checkpoints
      BY DEF Serving, At, Checkpoints
    <3>2. [run EXCEPT ![session[h].run].status = "running"] \in [Runs -> RunRow]
      BY <3>1, PutRun, StatusType
    <3> QED
      BY <3>2
  <2>2. session' \in [Handlers -> Session] /\ Serving'
    BY GoToType, ReturnType DEF Steps, Throw, Trying, At
  <2>3. jobs' \subseteq Runs
    BY DEF Throw, Serving, At
  <2> QED
    BY <2>1, <2>2, <2>3
<1>5. ASSUME NEW h \in Handlers, AcquireComputer(h)
       PROVE  Typed'
  <2> USE <1>5 DEF AcquireComputer, dbVars, jobVars, pastVars, Typed, TypeOK
  <2>1. session' \in [Handlers -> Session] /\ Serving'
    BY GoToType, ReturnType DEF Steps, Throw, Trying, At
  <2> QED
    BY <2>1 DEF Serving, Throw, Fail, At
<1>6. ASSUME NEW h \in Handlers, RequeueComputerRun(h)
       PROVE  Typed'
  <2> USE <1>6 DEF RequeueComputerRun, dbVars, jobVars, pastVars, Typed, TypeOK
  <2>1. run' \in [Runs -> RunRow]
    <3>1. session[h].run \in Runs /\ session[h].resume \in Checkpoints
      BY DEF Serving, At, Session
    <3> QED
      BY <3>1, RequeueType
  <2>2. session' \in [Handlers -> Session] /\ Serving'
    BY GoToType, ReturnType DEF Steps, Throw, Trying, At
  <2> QED
    BY <2>1, <2>2 DEF Serving, Throw, Fail, At
<1>7. ASSUME NEW h \in Handlers, ThrowBeforeAttempt(h)
       PROVE  Typed'
  <2> USE <1>7 DEF ThrowBeforeAttempt, dbVars, jobVars, pastVars, Typed, TypeOK
  <2>1. session' \in [Handlers -> Session] /\ Serving'
    BY GoToType, ReturnType DEF Steps, Throw, Trying, At
  <2> QED
    BY <2>1 DEF Serving, Throw, Fail, At
<1>8. ASSUME NEW h \in Handlers, CreateAttempt(h)
       PROVE  Typed'
  <2> USE <1>8 DEF CreateAttempt, dbVars, jobVars, pastVars, Typed, TypeOK
  <2>1. /\ attempts' \in Seq(Attempt)
        /\ Len(attempts') = Len(attempts) + 1
    BY DEF Serving, At, AttemptStatuses, Attempt, Session
  <2>2. Len(attempts) + 1 \in Nat
    OBVIOUS
  <2>3. session' \in [Handlers -> Session] /\ Serving'
    <3>1. session' \in [Handlers -> Session]
      <4> DEFINE new == [session[h] EXCEPT !.step = "executing",
                                           !.attempt = Len(attempts) + 1]
      <4>1. session[h] \in Session
        OBVIOUS
      <4>2. new \in Session
        BY <2>2, <4>1 DEF Session, Steps
      <4>3. session' = [session EXCEPT ![h] = new]
        OBVIOUS
      <4> QED
        BY <4>2, <4>3
    <3> SUFFICES ASSUME NEW g \in Handlers
                 PROVE  /\ session'[g].step # "idle" => session'[g].run \in Runs
                        /\ session'[g].step \in Trying =>
                             session'[g].attempt \in 1..Len(attempts')
      BY <3>1 DEF Serving
    <3>2. CASE g = h
      BY <2>1, <2>2, <3>2 DEF Serving, At, Session
    <3>3. CASE g # h
      BY <2>1, <2>2, <3>3 DEF Serving, Session
    <3> QED
      BY <3>2, <3>3
  <2> QED
    BY <2>1, <2>2, <2>3
<1>9. ASSUME NEW h \in Handlers, RenewRunLease(h)
       PROVE  Typed'
  <2> USE <1>9 DEF RenewRunLease, dbVars, jobVars, pastVars, Typed, TypeOK
  <2>1. run' \in [Runs -> RunRow]
    BY PutRun, StatusType DEF Checkpoints, Session, Serving, At, Create
  <2> QED
    BY <2>1 DEF Serving, Throw, Fail, At
<1>10. ASSUME NEW h \in Handlers, PublishMessage(h)
       PROVE  Typed'
  BY <1>10 DEF PublishMessage, dbVars, jobVars, pastVars, Typed, TypeOK, Serving, Fail
<1>11. ASSUME NEW h \in Handlers, PauseRunForInput(h)
       PROVE  Typed'
  <2> USE <1>11 DEF PauseRunForInput, dbVars, jobVars, pastVars, Typed, TypeOK
  <2>1. run' \in [Runs -> RunRow]
    BY ZenonT(60), PutRun, StatusType DEF Checkpoints, Session, Serving, At, Create
  <2>2. attempts' \in Seq(Attempt) /\ Len(attempts') = Len(attempts)
    BY CloseAttemptType DEF Serving, Trying, At, AttemptStatuses
  <2>3. session' \in [Handlers -> Session] /\ Serving'
    BY <2>2, GoToType, ReturnType DEF Steps, Throw, Trying, At
  <2> QED
    BY <2>1, <2>2, <2>3 DEF Serving, Throw, Fail, At
<1>12. ASSUME NEW h \in Handlers, PauseRunForTakeover(h)
       PROVE  Typed'
  <2> USE <1>12 DEF PauseRunForTakeover, dbVars, jobVars, pastVars, Typed, TypeOK
  <2>1. run' \in [Runs -> RunRow]
    BY ZenonT(60), PutRun, StatusType DEF Checkpoints, Session, Serving, At, Create
  <2>2. attempts' \in Seq(Attempt) /\ Len(attempts') = Len(attempts)
    BY CloseAttemptType DEF Serving, Trying, At, AttemptStatuses
  <2>3. session' \in [Handlers -> Session] /\ Serving'
    BY <2>2, GoToType, ReturnType DEF Steps, Throw, Trying, At
  <2> QED
    BY <2>1, <2>2, <2>3 DEF Serving, Throw, Fail, At
<1>13. ASSUME NEW h \in Handlers, NEW outcome \in {"completed", "failed"}, FinalizeRun(h, outcome)
       PROVE  Typed'
  <2> USE <1>13 DEF FinalizeRun, dbVars, jobVars, pastVars, Typed, TypeOK
  <2>1. run' \in [Runs -> RunRow]
    BY ZenonT(60), PutRun, StatusType DEF Checkpoints, Session, Serving, At, Create
  <2>2. attempts' \in Seq(Attempt) /\ Len(attempts') = Len(attempts)
    BY CloseAttemptType DEF Serving, Trying, At, AttemptStatuses
  <2>3. session' \in [Handlers -> Session] /\ Serving'
    BY <2>2, GoToType, ReturnType DEF Steps, Throw, Trying, At
  <2> QED
    BY <2>1, <2>2, <2>3 DEF Serving, Throw, Fail, At
<1>14. ASSUME NEW h \in Handlers, NEW kind \in {"busy", "setup"}, SetupFailed(h, kind)
       PROVE  Typed'
  <2> USE <1>14 DEF SetupFailed, dbVars, jobVars, pastVars, Typed, TypeOK
  <2>1. run' \in [Runs -> RunRow]
    <3>1. session[h].run \in Runs /\ session[h].resume \in Checkpoints
      BY DEF Serving, At, Session
    <3> QED
      BY <3>1, RequeueType
  <2>2. session' \in [Handlers -> Session] /\ Serving'
    BY GoToType, ReturnType DEF Steps, Throw, Trying, At
  <2> QED
    BY <2>1, <2>2 DEF Serving, Throw, Fail, At
<1>15. ASSUME NEW h \in Handlers, RecordSetupFailure(h)
       PROVE  Typed'
  <2> USE <1>15 DEF RecordSetupFailure, dbVars, jobVars, pastVars, Typed, TypeOK
  <2>1. attempts' \in Seq(Attempt) /\ Len(attempts') = Len(attempts)
    BY CloseAttemptType DEF Serving, Trying, At, AttemptStatuses
  <2>2. session' \in [Handlers -> Session] /\ Serving'
    BY <2>1, GoToType, ReturnType DEF Steps, Throw, Trying, At
  <2> QED
    BY <2>1, <2>2 DEF Serving, Throw, Fail, At
<1>16. ASSUME NEW h \in Handlers, Abandon(h)
       PROVE  Typed'
  <2> USE <1>16 DEF Abandon, dbVars, jobVars, pastVars, Typed, TypeOK
  <2>1. session' \in [Handlers -> Session] /\ Serving'
    BY GoToType, ReturnType DEF Steps, Throw, Trying, At
  <2> QED
    BY <2>1 DEF Serving, Throw, Fail, At
<1>17. ASSUME NEW h \in Handlers, Finally(h)
       PROVE  Typed'
  <2> USE <1>17 DEF Finally, dbVars, jobVars, pastVars, Typed, TypeOK
  <2>1. attempts' \in Seq(Attempt) /\ Len(attempts') = Len(attempts)
    BY CloseAttemptType DEF Serving, Trying, At, AttemptStatuses
  <2>2. session' \in [Handlers -> Session] /\ Serving'
    BY <2>1, GoToType, ReturnType DEF Steps, Throw, Trying, At
  <2> QED
    BY <2>1, <2>2 DEF Serving, Throw, Fail, At
<1>18. ASSUME NEW r \in Runs, SendUserMessage(r)
       PROVE  Typed'
  <2> USE <1>18 DEF SendUserMessage, dbVars, jobVars, pastVars, Typed, TypeOK
  <2>1. run' \in [Runs -> RunRow]
    BY PutRun, StatusType DEF Checkpoints, Session, Serving, At, Create
  <2> QED
    BY <2>1 DEF Serving, Throw, Fail, At
<1>19. ASSUME NEW r \in Runs, AnswerRunInput(r)
       PROVE  Typed'
  <2> USE <1>19 DEF AnswerRunInput, dbVars, jobVars, pastVars, Typed, TypeOK
  <2>1. run' \in [Runs -> RunRow]
    BY PutRun, StatusType DEF Checkpoints, Session, Serving, At, Create
  <2> QED
    BY <2>1 DEF Serving, Throw, Fail, At
<1>20. ASSUME NEW r \in Runs, NEW reason \in {"takeover", "takeover-skipped"}, ReleaseTakeover(r, reason)
       PROVE  Typed'
  <2> USE <1>20 DEF ReleaseTakeover, dbVars, jobVars, pastVars, Typed, TypeOK
  <2>1. run' \in [Runs -> RunRow]
    BY PutRun, StatusType DEF Checkpoints, Session, Serving, At, Create
  <2> QED
    BY <2>1 DEF Serving, Throw, Fail, At
<1>21. CASE StopThreadRuns
  <2> USE <1>21 DEF StopThreadRuns, dbVars, jobVars, pastVars, Typed, TypeOK
  <2>1. \A r \in Runs : [run[r] EXCEPT !.status = "cancelled"] \in RunRow
    BY ZenonT(60), StatusType DEF RunRow
  <2> QED
    BY <2>1 DEF Serving
<1>22. CASE ClearThread
  <2> USE <1>22 DEF ClearThread, dbVars, jobVars, pastVars, Typed, TypeOK
  <2>1. run' \in [Runs -> RunRow]
    BY UnleasedType, StatusType
  <2>2. attempts' \in Seq(Attempt) /\ Len(attempts') = Len(attempts)
    <3>1. attempts \in [1..Len(attempts) -> Attempt] /\ Len(attempts) \in Nat
      OBVIOUS
    <3>2. \A a \in Attempt : [a EXCEPT !.status = "cancelled"] \in Attempt
      BY DEF Attempt, AttemptStatuses
    <3>3. attempts' \in [1..Len(attempts) -> Attempt]
      BY <3>1, <3>2
    <3> QED
      BY <3>1, <3>3, SeqDef
  <2>3. Serving'
    BY <2>2 DEF Serving
  <2> QED
    BY <2>1, <2>2, <2>3 DEF ActiveRuns
<1>23. ASSUME NEW kind \in {"supersede", "archive", "replace"}, ReadDoomed(kind)
       PROVE  Typed'
  <2> USE <1>23 DEF ReadDoomed, dbVars, jobVars, pastVars, Typed, TypeOK
  <2>1. doomed' \in [kind: CancelKinds \cup {"none"}, runs: SUBSET Runs]
    BY DEF ActiveRuns, CancelKinds
  <2> QED
    BY <2>1 DEF Serving
<1>24. CASE CancelRuns
  <2> USE <1>24 DEF CancelRuns, dbVars, jobVars, pastVars, Typed, TypeOK
  <2>1. \A q \in Runs : /\ [run[q] EXCEPT !.status = "cancelled"] \in RunRow
                         /\ [run[q] EXCEPT !.status = "queued"] \in RunRow
                         /\ Unleased(run[q], "cancelled") \in RunRow
    <3>1. None \in Checkpoints
      BY DEF Checkpoints
    <3> QED
      BY <3>1, RowType, StatusType
  <2>2. run' \in [Runs -> RunRow]
    BY <2>1 DEF CancelDoomed
  <2> QED
    BY <2>2 DEF Serving, NoRequest
<1>25. ASSUME NEW r \in Runs, SendSuperseding(r)
       PROVE  Typed'
  <2> USE <1>25 DEF SendSuperseding, dbVars, jobVars, pastVars, Typed, TypeOK
  <2>1. \A q \in Runs : /\ [run[q] EXCEPT !.status = "cancelled"] \in RunRow
                         /\ [run[q] EXCEPT !.status = "queued"] \in RunRow
                         /\ Unleased(run[q], "cancelled") \in RunRow
    <3>1. None \in Checkpoints
      BY DEF Checkpoints
    <3> QED
      BY <3>1, RowType, StatusType
  <2>2. run' \in [Runs -> RunRow]
    BY <2>1 DEF CancelDoomed
  <2> QED
    BY <2>2 DEF Serving, NoRequest
<1>26. ASSUME NEW r \in Runs, ScanRun(r)
       PROVE  Typed'
  BY <1>26 DEF ScanRun, dbVars, jobVars, pastVars, Typed, TypeOK, Serving, Fail
<1>27. ASSUME NEW r \in Runs, Post(r)
       PROVE  Typed'
  BY <1>27 DEF Post, dbVars, jobVars, pastVars, Typed, TypeOK, Serving, Fail
<1>28. ASSUME NEW r \in Runs, PostFails(r)
       PROVE  Typed'
  BY <1>28 DEF PostFails, dbVars, jobVars, pastVars, Typed, TypeOK, Serving, Fail
<1>29. ASSUME NEW r \in Runs, Redeliver(r)
       PROVE  Typed'
  BY <1>29 DEF Redeliver, dbVars, jobVars, pastVars, Typed, TypeOK, Serving, Fail
<1>30. ASSUME NEW w \in Workers, Crash(w)
       PROVE  Typed'
  <2> USE <1>30 DEF Crash, dbVars, jobVars, pastVars, Typed, TypeOK
  <2>1. session' \in [Handlers -> Session]
    BY DEF Session, Idle, Steps, Checkpoints
  <2>2. Serving'
    BY <2>1 DEF Serving, Idle, Trying
  <2>3. locked' \subseteq Runs
    BY DEF Serving, At
  <2> QED
    BY <2>1, <2>2, <2>3 DEF Fail
<1>31. ASSUME NEW r \in Runs, ExpireLease(r)
       PROVE  Typed'
  <2> USE <1>31 DEF ExpireLease, dbVars, jobVars, pastVars, Typed, TypeOK
  <2>1. run' \in [Runs -> RunRow]
    BY PutRun, StatusType DEF Checkpoints, Session, Serving, At, Create
  <2> QED
    BY <2>1 DEF Serving, Throw, Fail, At
<1>32. CASE UNCHANGED vars
  BY <1>32 DEF vars, dbVars, jobVars, pastVars, Typed, TypeOK, Serving
<1> QED
  BY <1>1, <1>2, <1>3, <1>4, <1>5, <1>6, <1>7, <1>8, <1>9, <1>10, <1>11, <1>12, <1>13,
     <1>14, <1>15, <1>16, <1>17, <1>18, <1>19, <1>20, <1>21, <1>22, <1>23, <1>24,
     <1>25, <1>26, <1>27, <1>28, <1>29, <1>30, <1>31, <1>32
     DEF Next, HandlerNext, UserNext, SystemNext, Proceed

LEMMA TypedInit == Init => Typed
BY ConstantsAssumption
   DEF Init, Typed, TypeOK, Serving, Idle, Session, Steps, Checkpoints, RunRow,
       Statuses, NoRequest, Trying

\* Type correctness: every reachable state has a run row, an attempt table
\* and sessions of the declared shape, and each session serves a run.
THEOREM TypeCorrect == Spec => []TypeOK
<1>1. Init => Typed
  BY TypedInit
<1>2. Typed /\ [Next]_vars => Typed'
  BY TypedStep
<1>3. Typed => TypeOK
  BY DEF Typed
<1> QED
  BY <1>1, <1>2, <1>3, PTL DEF Spec

---------------------------------------------------------------------------
(* The fence.  A session that has claimed its run may be overtaken; its    *)
(* fence is never ahead of the run's, and once the run can be claimed      *)
(* again, or another handler has claimed it, every claim to come raises    *)
(* the fence over the session's.  That needs the last conjunct: whoever    *)
(* read an expired lease has read the fence it still has.                  *)

Held(h) == session[h].step \in Claimed

Outrun(h) ==
  \A g \in Handlers : At(g, "read") /\ session[g].run = session[h].run
                        => session[h].fence < session[g].fence

Fenced(h) ==
  LET r == session[h].run IN
  /\ run[r].status # "none"
  /\ run[r].status \in {"queued"} \cup Waiting =>
       session[h].fence <= run[r].fence /\ Outrun(h)
  /\ run[r].status \in Leased /\ holder[r] # h =>
       session[h].fence < run[r].fence /\ Outrun(h)
  /\ run[r].status \in Leased /\ holder[r] = h =>
       session[h].fence = run[r].fence

FreshRead(g) ==
  LET r == session[g].run IN
  run[r].status \in Leased /\ run[r].expired => session[g].fence = run[r].fence + 1

Fencing ==
  \A h \in Handlers :
    /\ Held(h) => Fenced(h)
    /\ At(h, "read") => FreshRead(h)

LEMMA HeldServes ==
  ASSUME Typed, NEW h \in Handlers, Held(h) \/ At(h, "read")
  PROVE  /\ session[h].run \in Runs
         /\ session[h].fence \in Nat
         /\ run[session[h].run].fence \in Nat
<1>1. session[h].run \in Runs
  BY DEF Typed, Serving, Held, At, Claimed
<1> QED
  BY <1>1 DEF Typed, TypeOK, Session, RunRow

LEMMA FencingExcludes == Typed /\ Fencing => LeaseIsExclusive
<1> SUFFICES ASSUME Typed, Fencing, NEW h \in Handlers, Held(h),
                    Holds(h, "leased") \/ Holds(h, "running")
             PROVE  holder[session[h].run] = h
  BY DEF LeaseIsExclusive, Held
<1>1. Fenced(h) /\ session[h].fence \in Nat
  BY HeldServes DEF Fencing
<1> QED
  BY <1>1 DEF Fenced, Holds, Leased

\* All but two actions are quiet: no session is read or claimed, no fence
\* moves, no run is leased, and a run that is queued again is taken from
\* the session that holds it.
KeepsSessions ==
  \A g \in Handlers :
    /\ Held(g)' => Held(g) /\ session'[g].run = session[g].run
                           /\ session'[g].fence = session[g].fence
    /\ At(g, "read")' => session'[g] = session[g]

KeepsRuns ==
  \A r \in Runs :
    /\ run'[r].fence = run[r].fence
    /\ run'[r].status = "none" => run[r].status = "none"
    /\ run'[r].status \in Leased => run[r].status \in Leased
    /\ run'[r].status \in Leased /\ run'[r].expired =>
         \/ run[r].expired
         \/ \A g \in Handlers : ~(At(g, "read") /\ session[g].run = r)

RequeuesItsOwn ==
  \A h \in Handlers : LET r == session[h].run IN
    Held(h)' /\ run'[r].status \in {"queued"} \cup Waiting =>
      \/ run[r].status \in {"none", "queued"} \cup Waiting
      \/ run[r].status \in Leased /\ holder[r] # h

Quiet == KeepsSessions /\ KeepsRuns /\ RequeuesItsOwn /\ holder' = holder

LEMMA QuietFencing == Typed /\ Fencing /\ Quiet => Fencing'
<1> SUFFICES ASSUME Typed, Fencing, Quiet, NEW h \in Handlers
             PROVE  (Held(h) => Fenced(h))' /\ (At(h, "read") => FreshRead(h))'
  BY DEF Fencing
<1> DEFINE r == session[h].run
<1>1. ASSUME Held(h)' PROVE Fenced(h)'
  <2>1. /\ Held(h) /\ Fenced(h) /\ r \in Runs
        /\ session'[h].run = r /\ session'[h].fence = session[h].fence
        /\ run'[r].fence = run[r].fence
    <3>1. /\ Held(h) /\ Fenced(h)
          /\ session'[h].run = r /\ session'[h].fence = session[h].fence
      BY <1>1 DEF Quiet, KeepsSessions, Fencing
    <3> QED
      BY <3>1, HeldServes DEF Quiet, KeepsRuns
  <2>2. Outrun(h) => Outrun(h)'
    BY <2>1 DEF Quiet, KeepsSessions, Outrun, At
  <2>3. /\ session[h].fence \in Nat /\ run[r].fence \in Nat
    BY <2>1 DEF Typed, TypeOK, Session, RunRow
  <2>4. run'[r].status # "none"
    BY <2>1 DEF Quiet, KeepsRuns, Fenced
  <2>5. CASE run'[r].status \in {"queued"} \cup Waiting
    BY <1>1, <2>1, <2>2, <2>3, <2>4, <2>5 DEF Quiet, RequeuesItsOwn, Fenced, Leased,
       Waiting
  <2>6. CASE run'[r].status \in Leased
    BY <2>1, <2>2, <2>3, <2>4, <2>6 DEF Quiet, KeepsRuns, Fenced, Leased, Waiting
  <2> QED
    BY <2>1, <2>4, <2>5, <2>6 DEF Fenced
<1>2. ASSUME At(h, "read")' PROVE FreshRead(h)'
  <2>1. session'[h] = session[h] /\ At(h, "read")
    BY <1>2 DEF Quiet, KeepsSessions, At
  <2>2. r \in Runs /\ FreshRead(h)
    BY <2>1, HeldServes DEF Fencing
  <2> QED
    BY <2>1, <2>2 DEF Quiet, KeepsRuns, FreshRead
<1> QED
  BY <1>1, <1>2


\* Two ways to requeue only what is one's own: never take a run out of a
\* lease, or be its holder and let go of it.
LEMMA NeverUnleases ==
  ASSUME KeepsSessions, Typed,
         \A q \in Runs : run'[q].status \in {"queued"} \cup Waiting =>
                         run[q].status \in {"none", "queued"} \cup Waiting
  PROVE  RequeuesItsOwn
BY HeldServes DEF KeepsSessions, RequeuesItsOwn

LEMMA LetsGo ==
  ASSUME KeepsSessions, Typed, LeaseIsExclusive, NEW h \in Handlers, Held(h),
         ~Held(h)', Holds(h, "leased") \/ Holds(h, "running"),
         \A r \in Runs : r # session[h].run => run'[r] = run[r]
  PROVE  RequeuesItsOwn
<1> SUFFICES ASSUME NEW g \in Handlers, Held(g)',
                    run'[session[g].run].status \in {"queued"} \cup Waiting
             PROVE  LET r == session[g].run IN
                    \/ run[r].status \in {"none", "queued"} \cup Waiting
                    \/ run[r].status \in Leased /\ holder[r] # g
  BY DEF RequeuesItsOwn
<1>1. g # h /\ Held(g) /\ session[g].run \in Runs
  BY HeldServes DEF KeepsSessions
<1>2. CASE session[g].run = session[h].run
  BY <1>1, <1>2 DEF LeaseIsExclusive, Held, Holds, Leased
<1>3. CASE session[g].run # session[h].run
  BY <1>1, <1>3
<1> QED
  BY <1>2, <1>3

LEMMA FencingStep ==
  ASSUME PromptClaims
  PROVE  Typed /\ Typed' /\ Fencing /\ [Next]_vars => Fencing'
<1> SUFFICES ASSUME Typed, Typed', Fencing, [Next]_vars PROVE Fencing'
  OBVIOUS
<1>0. LeaseIsExclusive
  BY FencingExcludes
<1>1. ASSUME NEW h \in Handlers, NEW r \in Runs, ReadRun(h, r)
       PROVE  Fencing'
  <2> SUFFICES ASSUME NEW g \in Handlers
               PROVE  (Held(g) => Fenced(g))' /\ (At(g, "read") => FreshRead(g))'
    BY DEF Fencing
  <2> USE <1>1 DEF ReadRun, dbVars, pastVars
  <2>1. CASE session' = session
    BY <2>1 DEF Fencing, Held, Fenced, Outrun, At, FreshRead
  <2>2. CASE session' # session
    <3>1. /\ session'[h].step = "read" /\ session'[h].run = r
          /\ session'[h].fence = run[r].fence + 1
          /\ \A f \in Handlers : f # h => session'[f] = session[f]
      BY <2>2 DEF Typed, TypeOK, nextFence
    <3>2. ASSUME Held(g)' PROVE Fenced(g)'
      <4>1. g # h
        BY <3>1, <3>2 DEF Held, Claimed, Typed, TypeOK
      <4>2. Held(g) /\ Fenced(g) /\ session'[g] = session[g]
        <5>1. session'[g] = session[g]
          BY <3>1, <4>1
        <5>2. Held(g)
          BY <3>2, <5>1 DEF Held
        <5> QED
          BY <5>1, <5>2 DEF Fencing
      <4>3. /\ session[g].run \in Runs /\ session[g].fence \in Nat
            /\ run[session[g].run].fence \in Nat
        BY <4>2, HeldServes
      <4>4. Outrun(g) /\ session[g].fence <= run[session[g].run].fence => Outrun(g)'
        <5> SUFFICES ASSUME Outrun(g), session[g].fence <= run[session[g].run].fence,
                            NEW f \in Handlers, session'[f].step = "read",
                            session'[f].run = session[g].run
                     PROVE  session[g].fence < session'[f].fence
          BY <4>2 DEF Outrun, At
        <5>1. CASE f = h
          BY <3>1, <4>3, <5>1
        <5>2. CASE f # h
          BY <3>1, <5>2 DEF Outrun, At
        <5> QED
          BY <5>1, <5>2
      <4> QED
        BY <4>2, <4>3, <4>4 DEF Fenced
    <3>3. ASSUME At(g, "read")' PROVE FreshRead(g)'
      <4>1. CASE g = h
        BY <3>1, <4>1 DEF FreshRead
      <4>2. CASE g # h
        <5>1. session'[g] = session[g]
          BY <3>1, <4>2
        <5>2. At(g, "read")
          BY <3>3, <5>1 DEF At
        <5> QED
          BY <5>1, <5>2 DEF FreshRead, Fencing
      <4> QED
        BY <4>1, <4>2
    <3> QED
      BY <3>2, <3>3
  <2> QED
    BY <2>1, <2>2
<1>2. ASSUME NEW h \in Handlers, ClaimLease(h)
       PROVE  Fencing'
  <2> SUFFICES ASSUME NEW g \in Handlers
               PROVE  (Held(g) => Fenced(g))' /\ (At(g, "read") => FreshRead(g))'
    BY DEF Fencing
  <2> DEFINE r == session[h].run
  <2>1. /\ At(h, "read") /\ Claimable(r) /\ FreshRead(h)
        /\ r \in Runs /\ session[h].fence \in Nat /\ run[r].fence \in Nat
    BY <1>2, HeldServes DEF ClaimLease, Fencing
  <2>2. /\ session' = [session EXCEPT ![h].step = "leased"]
        /\ holder' = [holder EXCEPT ![r] = h]
        /\ run' = [run EXCEPT ![r] = run'[r]]
        /\ run'[r].status = "leased" /\ run'[r].fence = session[h].fence
        /\ run'[r].expired = FALSE
    BY <1>2, <2>1 DEF ClaimLease, GoTo, Typed, TypeOK
  <2>3. /\ session'[h].step = "leased" /\ session'[h].run = r
        /\ session'[h].fence = session[h].fence
        /\ \A f \in Handlers \ {h} : session'[f] = session[f]
    BY <2>2 DEF Typed, TypeOK, Session
  <2>4. /\ holder'[r] = h
        /\ \A q \in Runs \ {r} : run'[q] = run[q] /\ holder'[q] = holder[q]
    BY <2>1, <2>2 DEF Typed, TypeOK
  <2>5. ASSUME Held(g)' PROVE Fenced(g)'
    <3>1. CASE g = h
      BY <2>2, <2>3, <2>4, <3>1 DEF Fenced, Leased, Waiting
    <3>2. CASE g # h
      <4>1. Held(g) /\ Fenced(g) /\ session'[g] = session[g]
        BY <2>3, <2>5, <3>2 DEF Held, Fencing
      <4>2. /\ session[g].run \in Runs /\ session[g].fence \in Nat
            /\ run[session[g].run].fence \in Nat
        BY <4>1, HeldServes
      <4>3. Outrun(g) => Outrun(g)'
        BY <2>3, <4>1 DEF Outrun, At
      <4>4. CASE session[g].run # r
        BY <2>4, <4>1, <4>2, <4>3, <4>4 DEF Fenced
      <4>5. CASE session[g].run = r
        <5>1. /\ session[g].fence < session[h].fence
              /\ \A f \in Handlers : At(f, "read") /\ session[f].run = r
                                       => session[g].fence < session[f].fence
          <6>1. CASE run[r].status \in {"queued"} \cup Waiting
            BY <2>1, <4>1, <4>5, <6>1 DEF Fenced, Outrun
          <6>2. CASE run[r].status \in Leased /\ run[r].expired /\ holder[r] # g
            BY <2>1, <4>1, <4>5, <6>2 DEF Fenced, Outrun
          <6>3. CASE run[r].status \in Leased /\ run[r].expired /\ holder[r] = g
            BY <2>1, <4>1, <4>2, <4>5, <6>3 DEF Fenced, Fencing, FreshRead
          <6> QED
            BY <2>1, <6>1, <6>2, <6>3 DEF Claimable
        <5>2. Outrun(g)'
          BY <2>3, <4>1, <4>5, <5>1 DEF Outrun, At
        <5> QED
          BY <2>2, <2>4, <3>2, <4>1, <4>5, <5>1, <5>2 DEF Fenced, Leased, Waiting
      <4> QED
        BY <4>4, <4>5
    <3> QED
      BY <3>1, <3>2
  <2>6. ASSUME At(g, "read")' PROVE FreshRead(g)'
    <3>1. g # h /\ At(g, "read") /\ FreshRead(g) /\ session'[g] = session[g]
      BY <2>3, <2>6 DEF At, Fencing
    <3>2. session[g].run \in Runs
      BY <3>1, HeldServes
    <3> QED
      BY <2>2, <2>4, <3>1, <3>2 DEF FreshRead
  <2> QED
    BY <2>5, <2>6
<1>3. ASSUME NEW h \in Handlers, LoseClaim(h)
       PROVE  Fencing'
  <2> USE <1>3 DEF LoseClaim, dbVars, jobVars, pastVars
  <2>1. KeepsSessions
    BY DEF KeepsSessions, Held, Claimed, At, GoTo, Return, Throw, Idle, Typed, TypeOK,
       Session
  <2>2. KeepsRuns /\ RequeuesItsOwn
    BY <1>0 DEF KeepsRuns, RequeuesItsOwn, LeaseIsExclusive, Held, Claimed, At, Holds,
       Leased, Waiting, Unleased, GoTo, Return, Throw, Idle, Typed, TypeOK, RunRow,
       Serving
  <2> QED
    BY <2>1, <2>2, QuietFencing DEF Quiet
<1>4. ASSUME NEW h \in Handlers, StartRun(h)
       PROVE  Fencing'
  <2> USE <1>4 DEF StartRun, dbVars, jobVars, pastVars
  <2>1. KeepsSessions
    BY DEF KeepsSessions, Held, Claimed, At, GoTo, Return, Throw, Idle, Typed, TypeOK,
       Session
  <2>2. \A q \in Runs : /\ run[q] \in RunRow
                        /\ \/ run'[q] = run[q]
                           \/ /\ run[q].status = "leased"
                              /\ run'[q] = [run[q] EXCEPT !.status = "running"]
    BY DEF Holds, Typed, TypeOK
  <2>3. KeepsRuns
    BY <2>2 DEF KeepsRuns, Leased, RunRow
  <2>4. \A q \in Runs : run'[q].status \in {"queued"} \cup Waiting =>
                        run[q].status \in {"none", "queued"} \cup Waiting
    BY <2>2 DEF Waiting, RunRow
  <2>5. RequeuesItsOwn
    BY <2>1, <2>4, NeverUnleases
  <2> QED
    BY <2>1, <2>3, <2>5, QuietFencing DEF Quiet
<1>5. ASSUME NEW h \in Handlers, AcquireComputer(h)
       PROVE  Fencing'
  <2> USE <1>5 DEF AcquireComputer, dbVars, jobVars, pastVars
  <2>1. KeepsSessions
    BY DEF KeepsSessions, Held, Claimed, At, GoTo, Return, Throw, Idle, Typed, TypeOK,
       Session
  <2>2. KeepsRuns /\ RequeuesItsOwn
    BY <1>0 DEF KeepsRuns, RequeuesItsOwn, LeaseIsExclusive, Held, Claimed, At, Holds,
       Leased, Waiting, Unleased, GoTo, Return, Throw, Idle, Typed, TypeOK, RunRow,
       Serving
  <2> QED
    BY <2>1, <2>2, QuietFencing DEF Quiet
<1>6. ASSUME NEW h \in Handlers, RequeueComputerRun(h)
       PROVE  Fencing'
  <2> USE <1>6 DEF RequeueComputerRun, dbVars, jobVars, pastVars
  <2>1. KeepsSessions
    BY DEF KeepsSessions, Held, Claimed, At, GoTo, Return, Throw, Idle, Typed, TypeOK,
       Session
  <2> DEFINE q == session[h].run
  <2>2. Held(h) /\ ~Held(h)' /\ q \in Runs
    BY HeldServes DEF Held, Claimed, At, GoTo, Return, Idle, Typed, TypeOK, Session
  <2>3. CASE run' = run
    <3>1. KeepsRuns
      BY <2>3 DEF KeepsRuns
    <3>2. RequeuesItsOwn
      BY <2>1, <2>3, HeldServes DEF KeepsSessions, RequeuesItsOwn
    <3> QED
      BY <2>1, <3>1, <3>2, QuietFencing DEF Quiet
  <2>4. CASE run' # run
    <3>1. Holds(h, "running")
      BY <2>4
    <3>2. /\ \A r \in Runs : r # q => run'[r] = run[r]
          /\ run'[q].status = "queued" /\ run'[q].fence = run[q].fence
      <4> DEFINE new == [Unleased(run[q], "queued") EXCEPT !.checkpoint = session[h].resume]
      <4>1. run[q] \in RunRow /\ run' = [run EXCEPT ![q] = new]
        BY <2>2, <3>1 DEF Typed, TypeOK
      <4>2. new.status = "queued" /\ new.fence = run[q].fence
        BY <4>1 DEF Unleased, RunRow
      <4> QED
        BY <2>2, <4>1, <4>2 DEF Typed, TypeOK
    <3>3. KeepsRuns
      BY <2>2, <3>2 DEF KeepsRuns, Leased
    <3>4. RequeuesItsOwn
      BY <1>0, <2>1, <2>2, <3>1, <3>2, LetsGo
    <3> QED
      BY <2>1, <3>3, <3>4, QuietFencing DEF Quiet
  <2> QED
    BY <2>3, <2>4
<1>7. ASSUME NEW h \in Handlers, ThrowBeforeAttempt(h)
       PROVE  Fencing'
  <2> USE <1>7 DEF ThrowBeforeAttempt, dbVars, jobVars, pastVars
  <2>1. KeepsSessions
    BY DEF KeepsSessions, Held, Claimed, At, GoTo, Return, Throw, Idle, Typed, TypeOK,
       Session
  <2>2. KeepsRuns /\ RequeuesItsOwn
    BY <1>0 DEF KeepsRuns, RequeuesItsOwn, LeaseIsExclusive, Held, Claimed, At, Holds,
       Leased, Waiting, Unleased, GoTo, Return, Throw, Idle, Typed, TypeOK, RunRow,
       Serving
  <2> QED
    BY <2>1, <2>2, QuietFencing DEF Quiet
<1>8. ASSUME NEW h \in Handlers, CreateAttempt(h)
       PROVE  Fencing'
  <2> USE <1>8 DEF CreateAttempt, dbVars, jobVars, pastVars
  <2>1. KeepsSessions
    BY DEF KeepsSessions, Held, Claimed, At, GoTo, Return, Throw, Idle, Typed, TypeOK,
       Session
  <2>2. KeepsRuns /\ RequeuesItsOwn
    BY <1>0 DEF KeepsRuns, RequeuesItsOwn, LeaseIsExclusive, Held, Claimed, At, Holds,
       Leased, Waiting, Unleased, GoTo, Return, Throw, Idle, Typed, TypeOK, RunRow,
       Serving
  <2> QED
    BY <2>1, <2>2, QuietFencing DEF Quiet
<1>9. ASSUME NEW h \in Handlers, RenewRunLease(h)
       PROVE  Fencing'
  <2> USE <1>9 DEF RenewRunLease, dbVars, jobVars, pastVars
  <2>1. KeepsSessions
    BY DEF KeepsSessions, Held, Claimed, At, GoTo, Return, Throw, Idle, Typed, TypeOK,
       Session
  <2>2. \A r \in Runs : r # session[h].run => run'[r] = run[r]
    BY DEF Typed, TypeOK
  <2>3. KeepsRuns
    BY <2>2, HeldServes DEF KeepsRuns, Held, Claimed, At, Holds, Leased, Waiting,
       Unleased, CancelDoomed, Create, ActiveRuns, Active, Typed, TypeOK, RunRow
  <2>4. RequeuesItsOwn
    BY <1>0, <2>1, <2>2, HeldServes DEF RequeuesItsOwn, KeepsSessions,
       LeaseIsExclusive, Held, Claimed, At, GoTo, Return, Throw, Idle, Holds, Leased,
       Waiting, Unleased, CancelDoomed, Create, ActiveRuns, Active, Typed, TypeOK,
       RunRow
  <2> QED
    BY <2>1, <2>3, <2>4, QuietFencing DEF Quiet
<1>10. ASSUME NEW h \in Handlers, PublishMessage(h)
       PROVE  Fencing'
  <2> USE <1>10 DEF PublishMessage, dbVars, jobVars, pastVars
  <2>1. KeepsSessions
    BY DEF KeepsSessions, Held, Claimed, At, GoTo, Return, Throw, Idle, Typed, TypeOK,
       Session
  <2>2. KeepsRuns /\ RequeuesItsOwn
    BY <1>0 DEF KeepsRuns, RequeuesItsOwn, LeaseIsExclusive, Held, Claimed, At, Holds,
       Leased, Waiting, Unleased, GoTo, Return, Throw, Idle, Typed, TypeOK, RunRow,
       Serving
  <2> QED
    BY <2>1, <2>2, QuietFencing DEF Quiet
<1>11. ASSUME NEW h \in Handlers, PauseRunForInput(h)
       PROVE  Fencing'
  <2> USE <1>11 DEF PauseRunForInput, dbVars, jobVars, pastVars
  <2>1. KeepsSessions
    BY DEF KeepsSessions, Held, Claimed, At, GoTo, Return, Throw, Idle, Typed, TypeOK,
       Session
  <2>2. Held(h) /\ ~Held(h)'
    BY DEF Held, Claimed, At, GoTo, Typed, TypeOK, Session
  <2>3. \A r \in Runs : r # session[h].run => run'[r] = run[r]
    BY DEF Typed, TypeOK
  <2>4. KeepsRuns
    BY <2>2, <2>3, HeldServes DEF KeepsRuns, Holds, Leased, Waiting, Unleased,
       CancelDoomed, Create, ActiveRuns, Active, Typed, TypeOK, RunRow
  <2>5. RequeuesItsOwn
    BY <1>0, <2>1, <2>2, <2>3, LetsGo
  <2> QED
    BY <2>1, <2>4, <2>5, QuietFencing DEF Quiet
<1>12. ASSUME NEW h \in Handlers, PauseRunForTakeover(h)
       PROVE  Fencing'
  <2> USE <1>12 DEF PauseRunForTakeover, dbVars, jobVars, pastVars
  <2>1. KeepsSessions
    BY DEF KeepsSessions, Held, Claimed, At, GoTo, Return, Throw, Idle, Typed, TypeOK,
       Session
  <2>2. Held(h) /\ ~Held(h)'
    BY DEF Held, Claimed, At, GoTo, Typed, TypeOK, Session
  <2>3. \A r \in Runs : r # session[h].run => run'[r] = run[r]
    BY DEF Typed, TypeOK
  <2>4. KeepsRuns
    BY <2>2, <2>3, HeldServes DEF KeepsRuns, Holds, Leased, Waiting, Unleased,
       CancelDoomed, Create, ActiveRuns, Active, Typed, TypeOK, RunRow
  <2>5. RequeuesItsOwn
    BY <1>0, <2>1, <2>2, <2>3, LetsGo
  <2> QED
    BY <2>1, <2>4, <2>5, QuietFencing DEF Quiet
<1>13. ASSUME NEW h \in Handlers, NEW outcome \in {"completed", "failed"}, FinalizeRun(h, outcome)
       PROVE  Fencing'
  <2> USE <1>13 DEF FinalizeRun, dbVars, jobVars, pastVars
  <2>1. KeepsSessions
    BY DEF KeepsSessions, Held, Claimed, At, GoTo, Return, Throw, Idle, Typed, TypeOK,
       Session
  <2>2. Held(h) /\ ~Held(h)'
    BY DEF Held, Claimed, At, GoTo, Typed, TypeOK, Session
  <2>3. \A r \in Runs : r # session[h].run => run'[r] = run[r]
    BY DEF Typed, TypeOK
  <2>4. KeepsRuns
    BY <2>2, <2>3, HeldServes DEF KeepsRuns, Holds, Leased, Waiting, Unleased,
       CancelDoomed, Create, ActiveRuns, Active, Typed, TypeOK, RunRow
  <2>5. RequeuesItsOwn
    BY <1>0, <2>1, <2>2, <2>3, LetsGo
  <2> QED
    BY <2>1, <2>4, <2>5, QuietFencing DEF Quiet
<1>14. ASSUME NEW h \in Handlers, NEW kind \in {"busy", "setup"}, SetupFailed(h, kind)
       PROVE  Fencing'
  <2> USE <1>14 DEF SetupFailed, dbVars, jobVars, pastVars
  <2>1. KeepsSessions
    BY DEF KeepsSessions, Held, Claimed, At, GoTo, Return, Throw, Idle, Typed, TypeOK,
       Session
  <2> DEFINE q == session[h].run
  <2>2. Held(h) /\ ~Held(h)' /\ q \in Runs
    BY HeldServes DEF Held, Claimed, At, GoTo, Return, Idle, Typed, TypeOK, Session
  <2>3. CASE run' = run
    <3>1. KeepsRuns
      BY <2>3 DEF KeepsRuns
    <3>2. RequeuesItsOwn
      BY <2>1, <2>3, HeldServes DEF KeepsSessions, RequeuesItsOwn
    <3> QED
      BY <2>1, <3>1, <3>2, QuietFencing DEF Quiet
  <2>4. CASE run' # run
    <3>1. Holds(h, "running")
      BY <2>4
    <3>2. /\ \A r \in Runs : r # q => run'[r] = run[r]
          /\ run'[q].status = "queued" /\ run'[q].fence = run[q].fence
      <4> DEFINE new == [Unleased(run[q], "queued") EXCEPT !.checkpoint = session[h].resume]
      <4>1. run[q] \in RunRow /\ run' = [run EXCEPT ![q] = new]
        BY <2>2, <3>1 DEF Typed, TypeOK
      <4>2. new.status = "queued" /\ new.fence = run[q].fence
        BY <4>1 DEF Unleased, RunRow
      <4> QED
        BY <2>2, <4>1, <4>2 DEF Typed, TypeOK
    <3>3. KeepsRuns
      BY <2>2, <3>2 DEF KeepsRuns, Leased
    <3>4. RequeuesItsOwn
      BY <1>0, <2>1, <2>2, <3>1, <3>2, LetsGo
    <3> QED
      BY <2>1, <3>3, <3>4, QuietFencing DEF Quiet
  <2> QED
    BY <2>3, <2>4
<1>15. ASSUME NEW h \in Handlers, RecordSetupFailure(h)
       PROVE  Fencing'
  <2> USE <1>15 DEF RecordSetupFailure, dbVars, jobVars, pastVars
  <2>1. KeepsSessions
    BY DEF KeepsSessions, Held, Claimed, At, GoTo, Return, Throw, Idle, Typed, TypeOK,
       Session
  <2>2. KeepsRuns /\ RequeuesItsOwn
    BY <1>0 DEF KeepsRuns, RequeuesItsOwn, LeaseIsExclusive, Held, Claimed, At, Holds,
       Leased, Waiting, Unleased, GoTo, Return, Throw, Idle, Typed, TypeOK, RunRow,
       Serving
  <2> QED
    BY <2>1, <2>2, QuietFencing DEF Quiet
<1>16. ASSUME NEW h \in Handlers, Abandon(h)
       PROVE  Fencing'
  <2> USE <1>16 DEF Abandon, dbVars, jobVars, pastVars
  <2>1. KeepsSessions
    BY DEF KeepsSessions, Held, Claimed, At, GoTo, Return, Throw, Idle, Typed, TypeOK,
       Session
  <2>2. KeepsRuns /\ RequeuesItsOwn
    BY <1>0 DEF KeepsRuns, RequeuesItsOwn, LeaseIsExclusive, Held, Claimed, At, Holds,
       Leased, Waiting, Unleased, GoTo, Return, Throw, Idle, Typed, TypeOK, RunRow,
       Serving
  <2> QED
    BY <2>1, <2>2, QuietFencing DEF Quiet
<1>17. ASSUME NEW h \in Handlers, Finally(h)
       PROVE  Fencing'
  <2> USE <1>17 DEF Finally, dbVars, jobVars, pastVars
  <2>1. KeepsSessions
    BY DEF KeepsSessions, Held, Claimed, At, GoTo, Return, Throw, Idle, Typed, TypeOK,
       Session
  <2>2. KeepsRuns /\ RequeuesItsOwn
    BY <1>0 DEF KeepsRuns, RequeuesItsOwn, LeaseIsExclusive, Held, Claimed, At, Holds,
       Leased, Waiting, Unleased, GoTo, Return, Throw, Idle, Typed, TypeOK, RunRow,
       Serving
  <2> QED
    BY <2>1, <2>2, QuietFencing DEF Quiet
<1>18. ASSUME NEW r \in Runs, SendUserMessage(r)
       PROVE  Fencing'
  <2> USE <1>18 DEF SendUserMessage, dbVars, jobVars, pastVars
  <2>1. KeepsSessions
    BY DEF KeepsSessions, Held, Claimed, At, GoTo, Return, Throw, Idle, Typed, TypeOK,
       Session
  <2>2. KeepsRuns
    BY DEF KeepsRuns, Holds, Leased, Waiting, Unleased, CancelDoomed, Create,
       ActiveRuns, Active, Typed, TypeOK, RunRow
  <2>3. \A q \in Runs : run'[q].status \in {"queued"} \cup Waiting
                      => run[q].status \in {"none", "queued"} \cup Waiting
    BY DEF Holds, Leased, Waiting, Unleased, CancelDoomed, Create, ActiveRuns, Active,
       Typed, TypeOK, RunRow
  <2>4. RequeuesItsOwn
    BY <2>1, <2>3, HeldServes DEF KeepsSessions, RequeuesItsOwn
  <2> QED
    BY <2>1, <2>2, <2>4, QuietFencing DEF Quiet
<1>19. ASSUME NEW r \in Runs, AnswerRunInput(r)
       PROVE  Fencing'
  <2> USE <1>19 DEF AnswerRunInput, dbVars, jobVars, pastVars
  <2>1. KeepsSessions
    BY DEF KeepsSessions, Held, Claimed, At, GoTo, Return, Throw, Idle, Typed, TypeOK,
       Session
  <2>2. KeepsRuns
    BY DEF KeepsRuns, Holds, Leased, Waiting, Unleased, CancelDoomed, Create,
       ActiveRuns, Active, Typed, TypeOK, RunRow
  <2>3. \A q \in Runs : run'[q].status \in {"queued"} \cup Waiting
                      => run[q].status \in {"none", "queued"} \cup Waiting
    BY DEF Holds, Leased, Waiting, Unleased, CancelDoomed, Create, ActiveRuns, Active,
       Typed, TypeOK, RunRow
  <2>4. RequeuesItsOwn
    BY <2>1, <2>3, HeldServes DEF KeepsSessions, RequeuesItsOwn
  <2> QED
    BY <2>1, <2>2, <2>4, QuietFencing DEF Quiet
<1>20. ASSUME NEW r \in Runs, NEW reason \in {"takeover", "takeover-skipped"}, ReleaseTakeover(r, reason)
       PROVE  Fencing'
  <2> USE <1>20 DEF ReleaseTakeover, dbVars, jobVars, pastVars
  <2>1. KeepsSessions
    BY DEF KeepsSessions, Held, Claimed, At, GoTo, Return, Throw, Idle, Typed, TypeOK,
       Session
  <2>2. KeepsRuns
    BY DEF KeepsRuns, Holds, Leased, Waiting, Unleased, CancelDoomed, Create,
       ActiveRuns, Active, Typed, TypeOK, RunRow
  <2>3. \A q \in Runs : run'[q].status \in {"queued"} \cup Waiting
                      => run[q].status \in {"none", "queued"} \cup Waiting
    BY DEF Holds, Leased, Waiting, Unleased, CancelDoomed, Create, ActiveRuns, Active,
       Typed, TypeOK, RunRow
  <2>4. RequeuesItsOwn
    BY <2>1, <2>3, HeldServes DEF KeepsSessions, RequeuesItsOwn
  <2> QED
    BY <2>1, <2>2, <2>4, QuietFencing DEF Quiet
<1>21. CASE StopThreadRuns
  <2> USE <1>21 DEF StopThreadRuns, dbVars, jobVars, pastVars
  <2>1. KeepsSessions
    BY DEF KeepsSessions, Held, Claimed, At, GoTo, Return, Throw, Idle, Typed, TypeOK,
       Session
  <2>2. KeepsRuns
    BY DEF KeepsRuns, Holds, Leased, Waiting, Unleased, CancelDoomed, Create,
       ActiveRuns, Active, Typed, TypeOK, RunRow
  <2>3. \A q \in Runs : run'[q].status \in {"queued"} \cup Waiting
                      => run[q].status \in {"none", "queued"} \cup Waiting
    BY DEF Holds, Leased, Waiting, Unleased, CancelDoomed, Create, ActiveRuns, Active,
       Typed, TypeOK, RunRow
  <2>4. RequeuesItsOwn
    BY <2>1, <2>3, HeldServes DEF KeepsSessions, RequeuesItsOwn
  <2> QED
    BY <2>1, <2>2, <2>4, QuietFencing DEF Quiet
<1>22. CASE ClearThread
  <2> USE <1>22 DEF ClearThread, dbVars, jobVars, pastVars
  <2>1. KeepsSessions
    BY DEF KeepsSessions, Held, Claimed, At, GoTo, Return, Throw, Idle, Typed, TypeOK,
       Session
  <2>2. \A q \in Runs : \/ run'[q] = run[q]
                        \/ run'[q] = [run[q] EXCEPT !.status = "cancelled"]
                        \/ run'[q] = Unleased(run[q], "cancelled")
    BY DEF CancelDoomed, ActiveRuns, Typed, TypeOK
  <2>3. \A q \in Runs : run[q] \in RunRow
    BY DEF Typed, TypeOK
  <2>4. KeepsRuns
    BY <2>2, <2>3 DEF KeepsRuns, Unleased, Leased, RunRow
  <2>5. RequeuesItsOwn
    <3>1. \A q \in Runs : run'[q].status \in {"queued"} \cup Waiting =>
                          run[q].status \in {"none", "queued"} \cup Waiting
      BY <2>2, <2>3 DEF Unleased, Waiting, RunRow
    <3> QED
      BY <2>1, <3>1, NeverUnleases
  <2> QED
    BY <2>1, <2>4, <2>5, QuietFencing DEF Quiet
<1>23. ASSUME NEW kind \in {"supersede", "archive", "replace"}, ReadDoomed(kind)
       PROVE  Fencing'
  <2> USE <1>23 DEF ReadDoomed, dbVars, jobVars, pastVars
  <2>1. KeepsSessions
    BY DEF KeepsSessions, Held, Claimed, At, GoTo, Return, Throw, Idle, Typed, TypeOK,
       Session
  <2>2. KeepsRuns /\ RequeuesItsOwn
    BY <1>0 DEF KeepsRuns, RequeuesItsOwn, LeaseIsExclusive, Held, Claimed, At, Holds,
       Leased, Waiting, Unleased, GoTo, Return, Throw, Idle, Typed, TypeOK, RunRow,
       Serving
  <2> QED
    BY <2>1, <2>2, QuietFencing DEF Quiet
<1>24. CASE CancelRuns
  <2> USE <1>24 DEF CancelRuns, dbVars, jobVars, pastVars
  <2>1. KeepsSessions
    BY DEF KeepsSessions, Held, Claimed, At, GoTo, Return, Throw, Idle, Typed, TypeOK,
       Session
  <2>2. \A q \in Runs : \/ run'[q] = run[q]
                        \/ run'[q] = [run[q] EXCEPT !.status = "cancelled"]
                        \/ run'[q] = Unleased(run[q], "cancelled")
    BY DEF CancelDoomed, ActiveRuns, Typed, TypeOK
  <2>3. \A q \in Runs : run[q] \in RunRow
    BY DEF Typed, TypeOK
  <2>4. KeepsRuns
    BY ZenonT(60), <2>2, <2>3 DEF KeepsRuns, Unleased, Leased, RunRow
  <2>5. RequeuesItsOwn
    <3>1. \A q \in Runs : run'[q].status \in {"queued"} \cup Waiting =>
                          run[q].status \in {"none", "queued"} \cup Waiting
      BY ZenonT(60), <2>2, <2>3 DEF Unleased, Waiting, RunRow
    <3> QED
      BY <2>1, <3>1, NeverUnleases
  <2> QED
    BY <2>1, <2>4, <2>5, QuietFencing DEF Quiet
<1>25. ASSUME NEW r \in Runs, SendSuperseding(r)
       PROVE  Fencing'
  <2> USE <1>25 DEF SendSuperseding, dbVars, jobVars, pastVars
  <2>1. KeepsSessions
    BY DEF KeepsSessions, Held, Claimed, At, GoTo, Return, Throw, Idle, Typed, TypeOK,
       Session
  <2>2. \A q \in Runs :
          \/ run'[q] = run[q]
          \/ run'[q] = [run[q] EXCEPT !.status = "cancelled"]
          \/ run'[q] = Unleased(run[q], "cancelled")
          \/ run[q].status = "none" /\ run'[q] = [run[q] EXCEPT !.status = "queued"]
    BY DEF CancelDoomed, Typed, TypeOK
  <2>3. \A q \in Runs : run[q] \in RunRow
    BY DEF Typed, TypeOK
  <2>4. KeepsRuns
    <3> SUFFICES ASSUME NEW q \in Runs
                 PROVE  /\ run'[q].fence = run[q].fence
                        /\ run'[q].status = "none" => run[q].status = "none"
                        /\ run'[q].status \in Leased =>
                             run[q].status \in Leased /\ run'[q] = run[q]
      BY DEF KeepsRuns
    <3> QED
      BY ZenonT(60), <2>2, <2>3 DEF Unleased, Leased, RunRow
  <2>5. RequeuesItsOwn
    <3>1. \A q \in Runs : run'[q].status \in {"queued"} \cup Waiting =>
                          run[q].status \in {"none", "queued"} \cup Waiting
      BY ZenonT(60), <2>2, <2>3 DEF Unleased, Waiting, RunRow
    <3> QED
      BY <2>1, <3>1, NeverUnleases
  <2> QED
    BY <2>1, <2>4, <2>5, QuietFencing DEF Quiet
<1>26. ASSUME NEW r \in Runs, ScanRun(r)
       PROVE  Fencing'
  <2> USE <1>26 DEF ScanRun, dbVars, jobVars, pastVars
  <2>1. KeepsSessions
    BY DEF KeepsSessions, Held, Claimed, At, GoTo, Return, Throw, Idle, Typed, TypeOK,
       Session
  <2>2. KeepsRuns /\ RequeuesItsOwn
    BY <1>0 DEF KeepsRuns, RequeuesItsOwn, LeaseIsExclusive, Held, Claimed, At, Holds,
       Leased, Waiting, Unleased, GoTo, Return, Throw, Idle, Typed, TypeOK, RunRow,
       Serving
  <2> QED
    BY <2>1, <2>2, QuietFencing DEF Quiet
<1>27. ASSUME NEW r \in Runs, Post(r)
       PROVE  Fencing'
  <2> USE <1>27 DEF Post, dbVars, jobVars, pastVars
  <2>1. KeepsSessions
    BY DEF KeepsSessions, Held, Claimed, At, GoTo, Return, Throw, Idle, Typed, TypeOK,
       Session
  <2>2. KeepsRuns /\ RequeuesItsOwn
    BY <1>0 DEF KeepsRuns, RequeuesItsOwn, LeaseIsExclusive, Held, Claimed, At, Holds,
       Leased, Waiting, Unleased, GoTo, Return, Throw, Idle, Typed, TypeOK, RunRow,
       Serving
  <2> QED
    BY <2>1, <2>2, QuietFencing DEF Quiet
<1>28. ASSUME NEW r \in Runs, PostFails(r)
       PROVE  Fencing'
  <2> USE <1>28 DEF PostFails, dbVars, jobVars, pastVars
  <2>1. KeepsSessions
    BY DEF KeepsSessions, Held, Claimed, At, GoTo, Return, Throw, Idle, Typed, TypeOK,
       Session
  <2>2. KeepsRuns /\ RequeuesItsOwn
    BY <1>0 DEF KeepsRuns, RequeuesItsOwn, LeaseIsExclusive, Held, Claimed, At, Holds,
       Leased, Waiting, Unleased, GoTo, Return, Throw, Idle, Typed, TypeOK, RunRow,
       Serving
  <2> QED
    BY <2>1, <2>2, QuietFencing DEF Quiet
<1>29. ASSUME NEW r \in Runs, Redeliver(r)
       PROVE  Fencing'
  <2> USE <1>29 DEF Redeliver, dbVars, jobVars, pastVars
  <2>1. KeepsSessions
    BY DEF KeepsSessions, Held, Claimed, At, GoTo, Return, Throw, Idle, Typed, TypeOK,
       Session
  <2>2. KeepsRuns /\ RequeuesItsOwn
    BY <1>0 DEF KeepsRuns, RequeuesItsOwn, LeaseIsExclusive, Held, Claimed, At, Holds,
       Leased, Waiting, Unleased, GoTo, Return, Throw, Idle, Typed, TypeOK, RunRow,
       Serving
  <2> QED
    BY <2>1, <2>2, QuietFencing DEF Quiet
<1>30. ASSUME NEW w \in Workers, Crash(w)
       PROVE  Fencing'
  <2> USE <1>30 DEF Crash, dbVars, jobVars, pastVars
  <2>1. KeepsSessions
    BY DEF KeepsSessions, Held, Claimed, At, GoTo, Return, Throw, Idle, Typed, TypeOK,
       Session
  <2>2. KeepsRuns /\ RequeuesItsOwn
    BY <1>0 DEF KeepsRuns, RequeuesItsOwn, LeaseIsExclusive, Held, Claimed, At, Holds,
       Leased, Waiting, Unleased, GoTo, Return, Throw, Idle, Typed, TypeOK, RunRow,
       Serving
  <2> QED
    BY <2>1, <2>2, QuietFencing DEF Quiet
<1>31. ASSUME NEW r \in Runs, ExpireLease(r)
       PROVE  Fencing'
  <2> USE <1>31 DEF ExpireLease, dbVars, jobVars, pastVars
  <2>1. KeepsSessions
    BY DEF KeepsSessions, Held, Claimed, At, GoTo, Return, Throw, Idle, Typed, TypeOK,
       Session
  <2>2. KeepsRuns
    BY DEF KeepsRuns, Holds, Leased, Waiting, Unleased, CancelDoomed, Create,
       ActiveRuns, Active, Typed, TypeOK, RunRow
  <2>3. \A q \in Runs : run'[q].status \in {"queued"} \cup Waiting
                      => run[q].status \in {"none", "queued"} \cup Waiting
    BY DEF Holds, Leased, Waiting, Unleased, CancelDoomed, Create, ActiveRuns, Active,
       Typed, TypeOK, RunRow
  <2>4. RequeuesItsOwn
    BY <2>1, <2>3, HeldServes DEF KeepsSessions, RequeuesItsOwn
  <2> QED
    BY <2>1, <2>2, <2>4, QuietFencing DEF Quiet
<1>32. CASE UNCHANGED vars
  BY <1>32 DEF vars, dbVars, jobVars, pastVars, Fencing, Held, Fenced, Outrun, At,
     FreshRead
<1> QED
  BY <1>1, <1>2, <1>3, <1>4, <1>5, <1>6, <1>7, <1>8, <1>9, <1>10, <1>11, <1>12, <1>13,
     <1>14, <1>15, <1>16, <1>17, <1>18, <1>19, <1>20, <1>21, <1>22, <1>23, <1>24,
     <1>25, <1>26, <1>27, <1>28, <1>29, <1>30, <1>31, <1>32
     DEF Next, HandlerNext, UserNext, SystemNext, Proceed

\* Mutual exclusion of writers: whenever the database would accept a write
\* of a session, that session made the latest claim of its run, although
\* slots share their leaseOwner and stalled handlers may wake at any time.
THEOREM LeasesAreExclusive ==
  ASSUME PromptClaims
  PROVE  Spec => []LeaseIsExclusive
<1> DEFINE IInv == Typed /\ Fencing
<1>1. Init => IInv
  <2> SUFFICES ASSUME Init PROVE IInv
    OBVIOUS
  <2>1. Typed
    BY TypedInit
  <2> QED
    BY <2>1 DEF Init, Fencing, Held, At, Claimed, Idle
<1>2. IInv /\ [Next]_vars => IInv'
  BY TypedStep, FencingStep
<1>3. IInv => LeaseIsExclusive
  BY FencingExcludes
<1> QED
  BY <1>1, <1>2, <1>3, PTL DEF Spec

---------------------------------------------------------------------------
(* What the user sees: a question can be answered, and a cleared thread    *)
(* stays empty.  A cleared run is cancelled, and cancelled runs write      *)
(* nothing.                                                                *)

Silence == \A r \in cleared : run[r].status = "cancelled" /\ ~output[r]

Shown == WaitingIsAnswerable /\ Silence

LEMMA ShownStep == Typed /\ Shown /\ [Next]_vars => Shown'
<1> SUFFICES ASSUME Typed, Shown, [Next]_vars PROVE Shown'
  OBVIOUS
<1> USE DEF Shown, WaitingIsAnswerable, Silence
<1>0. ASSUME UNCHANGED <<run, pending, output, cleared>> PROVE Shown'
  BY <1>0
<1>1. ASSUME NEW h \in Handlers, NEW r \in Runs, ReadRun(h, r)
       PROVE  Shown'
  BY <1>0, <1>1 DEF ReadRun, dbVars, pastVars
<1>2. ASSUME NEW h \in Handlers, ClaimLease(h)
       PROVE  Shown'
  BY <1>2 DEF ClaimLease, Unleased, Create, Claimable, pastVars, Typed, TypeOK,
     RunRow, Serving, At, Holds, Active, Leased, Waiting, Terminal, ActiveRuns
<1>3. ASSUME NEW h \in Handlers, LoseClaim(h)
       PROVE  Shown'
  BY <1>0, <1>3 DEF LoseClaim, dbVars, pastVars
<1>4. ASSUME NEW h \in Handlers, StartRun(h)
       PROVE  Shown'
  <2>1. \A q \in Runs :
          \/ run'[q] = run[q]
          \/ run[q].status \in Leased /\ run'[q].status \in {"queued", "running"}
    <3>1. \A q \in Runs : run[q] \in RunRow
      BY DEF Typed, TypeOK
    <3>2. \A row \in RunRow, c \in Checkpoints :
            /\ [row EXCEPT !.status = "running"].status = "running"
            /\ [Unleased(row, "queued") EXCEPT !.checkpoint = c].status = "queued"
      BY DEF Unleased, RunRow
    <3>3. session[h].run \in Runs /\ session[h].resume \in Checkpoints
      BY <1>4 DEF StartRun, At, Typed, TypeOK, Serving, Session
    <3> QED
      <4> DEFINE o == session[h].run
                 new == [run[o] EXCEPT !.status = "running"]
      <4>1. \/ run' = run
            \/ run[o].status \in Leased /\ run' = [run EXCEPT ![o] = new]
        BY <1>4, <3>3 DEF StartRun, Holds, Leased, Typed, TypeOK
      <4>2. new.status \in {"queued", "running"}
        BY <3>1, <3>2, <3>3
      <4> HIDE DEF new
      <4> QED
        BY <3>3, <4>1, <4>2 DEF Typed, TypeOK
  <2>2. UNCHANGED <<pending, output, cleared>>
    BY <1>4 DEF StartRun, pastVars
  <2> QED
    BY <2>1, <2>2 DEF Leased, Typed, TypeOK
<1>5. ASSUME NEW h \in Handlers, AcquireComputer(h)
       PROVE  Shown'
  BY <1>0, <1>5 DEF AcquireComputer, dbVars, pastVars
<1>6. ASSUME NEW h \in Handlers, RequeueComputerRun(h)
       PROVE  Shown'
  <2>1. \A q \in Runs :
          \/ run'[q] = run[q]
          \/ run[q].status \in Leased /\ run'[q].status \in {"queued", "running"}
    <3>1. \A q \in Runs : run[q] \in RunRow
      BY DEF Typed, TypeOK
    <3>2. \A row \in RunRow, c \in Checkpoints :
            /\ [row EXCEPT !.status = "running"].status = "running"
            /\ [Unleased(row, "queued") EXCEPT !.checkpoint = c].status = "queued"
      BY DEF Unleased, RunRow
    <3>3. session[h].run \in Runs /\ session[h].resume \in Checkpoints
      BY <1>6 DEF RequeueComputerRun, At, Typed, TypeOK, Serving, Session
    <3> QED
      <4> DEFINE o == session[h].run
                 new == [Unleased(run[o], "queued") EXCEPT !.checkpoint = session[h].resume]
      <4>1. \/ run' = run
            \/ run[o].status \in Leased /\ run' = [run EXCEPT ![o] = new]
        BY <1>6, <3>3 DEF RequeueComputerRun, Holds, Leased, Typed, TypeOK
      <4>2. new.status \in {"queued", "running"}
        BY <3>1, <3>2, <3>3
      <4> HIDE DEF new
      <4> QED
        BY <3>3, <4>1, <4>2 DEF Typed, TypeOK
  <2>2. UNCHANGED <<pending, output, cleared>>
    BY <1>6 DEF RequeueComputerRun, pastVars
  <2> QED
    BY <2>1, <2>2 DEF Leased, Typed, TypeOK
<1>7. ASSUME NEW h \in Handlers, ThrowBeforeAttempt(h)
       PROVE  Shown'
  BY <1>0, <1>7 DEF ThrowBeforeAttempt, dbVars, pastVars
<1>8. ASSUME NEW h \in Handlers, CreateAttempt(h)
       PROVE  Shown'
  BY <1>0, <1>8 DEF CreateAttempt, dbVars, pastVars
<1>9. ASSUME NEW h \in Handlers, RenewRunLease(h)
       PROVE  Shown'
  BY <1>9 DEF RenewRunLease, Unleased, Create, Claimable, pastVars, Typed, TypeOK,
     RunRow, Serving, At, Holds, Active, Leased, Waiting, Terminal, ActiveRuns
<1>10. ASSUME NEW h \in Handlers, PublishMessage(h)
       PROVE  Shown'
  BY <1>10 DEF PublishMessage, MayWrite, Unleased, Create, Claimable, pastVars, Typed,
     TypeOK, RunRow, Serving, At, Holds, Active, Leased, Waiting, Terminal, ActiveRuns
<1>11. ASSUME NEW h \in Handlers, PauseRunForInput(h)
       PROVE  Shown'
  BY <1>11 DEF PauseRunForInput, Unleased, Create, Claimable, pastVars, Typed, TypeOK,
     RunRow, Serving, At, Holds, Active, Leased, Waiting, Terminal, ActiveRuns
<1>12. ASSUME NEW h \in Handlers, PauseRunForTakeover(h)
       PROVE  Shown'
  BY <1>12 DEF PauseRunForTakeover, Unleased, Create, Claimable, pastVars, Typed,
     TypeOK, RunRow, Serving, At, Holds, Active, Leased, Waiting, Terminal, ActiveRuns
<1>13. ASSUME NEW h \in Handlers, NEW outcome \in {"completed", "failed"}, FinalizeRun(h, outcome)
       PROVE  Shown'
  BY <1>13 DEF FinalizeRun, Unleased, Create, Claimable, pastVars, Typed, TypeOK,
     RunRow, Serving, At, Holds, Active, Leased, Waiting, Terminal, ActiveRuns
<1>14. ASSUME NEW h \in Handlers, NEW kind \in {"busy", "setup"}, SetupFailed(h, kind)
       PROVE  Shown'
  <2>1. \A q \in Runs :
          \/ run'[q] = run[q]
          \/ run[q].status \in Leased /\ run'[q].status \in {"queued", "running"}
    <3>1. \A q \in Runs : run[q] \in RunRow
      BY DEF Typed, TypeOK
    <3>2. \A row \in RunRow, c \in Checkpoints :
            /\ [row EXCEPT !.status = "running"].status = "running"
            /\ [Unleased(row, "queued") EXCEPT !.checkpoint = c].status = "queued"
      BY DEF Unleased, RunRow
    <3>3. session[h].run \in Runs /\ session[h].resume \in Checkpoints
      BY <1>14 DEF SetupFailed, At, Typed, TypeOK, Serving, Session
    <3> QED
      <4> DEFINE o == session[h].run
                 new == [Unleased(run[o], "queued") EXCEPT !.checkpoint = session[h].resume]
      <4>1. \/ run' = run
            \/ run[o].status \in Leased /\ run' = [run EXCEPT ![o] = new]
        BY <1>14, <3>3 DEF SetupFailed, Holds, Leased, Typed, TypeOK
      <4>2. new.status \in {"queued", "running"}
        BY <3>1, <3>2, <3>3
      <4> HIDE DEF new
      <4> QED
        BY <3>3, <4>1, <4>2 DEF Typed, TypeOK
  <2>2. UNCHANGED <<pending, output, cleared>>
    BY <1>14 DEF SetupFailed, pastVars
  <2> QED
    BY <2>1, <2>2 DEF Leased, Typed, TypeOK
<1>15. ASSUME NEW h \in Handlers, RecordSetupFailure(h)
       PROVE  Shown'
  BY <1>0, <1>15 DEF RecordSetupFailure, dbVars, pastVars
<1>16. ASSUME NEW h \in Handlers, Abandon(h)
       PROVE  Shown'
  BY <1>0, <1>16 DEF Abandon, dbVars, pastVars
<1>17. ASSUME NEW h \in Handlers, Finally(h)
       PROVE  Shown'
  BY <1>0, <1>17 DEF Finally, dbVars, pastVars
<1>18. ASSUME NEW r \in Runs, SendUserMessage(r)
       PROVE  Shown'
  BY <1>18 DEF SendUserMessage, Unleased, Create, Claimable, pastVars, Typed, TypeOK,
     RunRow, Serving, At, Holds, Active, Leased, Waiting, Terminal, ActiveRuns
<1>19. ASSUME NEW r \in Runs, AnswerRunInput(r)
       PROVE  Shown'
  BY <1>19 DEF AnswerRunInput, Unleased, Create, Claimable, pastVars, Typed, TypeOK,
     RunRow, Serving, At, Holds, Active, Leased, Waiting, Terminal, ActiveRuns
<1>20. ASSUME NEW r \in Runs, NEW reason \in {"takeover", "takeover-skipped"}, ReleaseTakeover(r, reason)
       PROVE  Shown'
  BY <1>20 DEF ReleaseTakeover, Unleased, Create, Claimable, pastVars, Typed, TypeOK,
     RunRow, Serving, At, Holds, Active, Leased, Waiting, Terminal, ActiveRuns
<1>21. CASE StopThreadRuns
  BY <1>21 DEF StopThreadRuns, CancelDoomed, Unleased, pastVars, Typed, TypeOK,
     RunRow, Serving, At, Holds, Active, Leased, Waiting, Terminal, ActiveRuns
<1>22. CASE ClearThread
  <2>1. \A q \in Runs : run'[q].status # "waiting_input"
    BY ZenonT(60), <1>22 DEF ClearThread, ActiveRuns, Active, Unleased, Typed, TypeOK, RunRow
  <2>2. \A q \in cleared' : run'[q].status = "cancelled" /\ ~output'[q]
    <3>1. \A q \in Runs : Unleased(run[q], "cancelled").status = "cancelled"
      BY DEF Unleased, Typed, TypeOK, RunRow
    <3>2. cleared \subseteq Runs /\ ActiveRuns \subseteq Runs
      BY DEF Typed, TypeOK, ActiveRuns
    <3>3. \A q \in cleared : q \notin ActiveRuns
      BY DEF ActiveRuns, Active
    <3> QED
      BY <1>22, <3>1, <3>2, <3>3 DEF ClearThread
  <2> QED
    BY <2>1, <2>2
<1>23. ASSUME NEW kind \in {"supersede", "archive", "replace"}, ReadDoomed(kind)
       PROVE  Shown'
  BY <1>0, <1>23 DEF ReadDoomed, dbVars, pastVars
<1>24. CASE CancelRuns
  BY ZenonT(60), <1>24 DEF CancelRuns, CancelDoomed, Unleased, pastVars, Typed, TypeOK, RunRow,
     Serving, At, Holds, Active, Leased, Waiting, Terminal, ActiveRuns
<1>25. ASSUME NEW r \in Runs, SendSuperseding(r)
       PROVE  Shown'
  BY <1>25 DEF SendSuperseding, CancelDoomed, Unleased, pastVars, Typed, TypeOK,
     RunRow, Serving, At, Holds, Active, Leased, Waiting, Terminal, ActiveRuns
<1>26. ASSUME NEW r \in Runs, ScanRun(r)
       PROVE  Shown'
  BY <1>0, <1>26 DEF ScanRun, dbVars, pastVars
<1>27. ASSUME NEW r \in Runs, Post(r)
       PROVE  Shown'
  BY <1>0, <1>27 DEF Post, dbVars, pastVars
<1>28. ASSUME NEW r \in Runs, PostFails(r)
       PROVE  Shown'
  BY <1>0, <1>28 DEF PostFails, dbVars, pastVars
<1>29. ASSUME NEW r \in Runs, Redeliver(r)
       PROVE  Shown'
  BY <1>0, <1>29 DEF Redeliver, dbVars, pastVars
<1>30. ASSUME NEW w \in Workers, Crash(w)
       PROVE  Shown'
  BY <1>0, <1>30 DEF Crash, dbVars, pastVars
<1>31. ASSUME NEW r \in Runs, ExpireLease(r)
       PROVE  Shown'
  BY <1>31 DEF ExpireLease, Unleased, Create, Claimable, pastVars, Typed, TypeOK,
     RunRow, Serving, At, Holds, Active, Leased, Waiting, Terminal, ActiveRuns
<1>32. CASE UNCHANGED vars
  BY <1>0, <1>32 DEF vars, dbVars, pastVars
<1> QED
  BY <1>1, <1>2, <1>3, <1>4, <1>5, <1>6, <1>7, <1>8, <1>9, <1>10, <1>11, <1>12, <1>13,
     <1>14, <1>15, <1>16, <1>17, <1>18, <1>19, <1>20, <1>21, <1>22, <1>23, <1>24,
     <1>25, <1>26, <1>27, <1>28, <1>29, <1>30, <1>31, <1>32
     DEF Next, HandlerNext, UserNext, SystemNext, Proceed

\* A run that waits for an answer always has an unanswered card.
THEOREM WaitingRunsAreAnswerable == Spec => []WaitingIsAnswerable
<1>1. Init => Typed /\ Shown
  BY TypedInit DEF Init, Shown, WaitingIsAnswerable, Silence
<1>2. Typed /\ Shown /\ [Next]_vars => (Typed /\ Shown)'
  BY TypedStep, ShownStep
<1>3. Shown => WaitingIsAnswerable
  BY DEF Shown
<1> QED
  BY <1>1, <1>2, <1>3, PTL DEF Spec

\* No handler, however late, puts output of a cleared run back into the
\* thread.
THEOREM ClearedRunsStaySilent == Spec => []ClearedStaysSilent
<1>1. Init => Typed /\ Shown
  BY TypedInit DEF Init, Shown, WaitingIsAnswerable, Silence
<1>2. Typed /\ Shown /\ [Next]_vars => (Typed /\ Shown)'
  BY TypedStep, ShownStep
<1>3. Shown => ClearedStaysSilent
  BY DEF Shown, Silence, ClearedStaysSilent
<1> QED
  BY <1>1, <1>2, <1>3, PTL DEF Spec
---------------------------------------------------------------------------
(* What a step does to the statuses: those of one run move, or one request *)
(* cancels a set of them.                                                  *)

Working == {"queued"} \cup Leased

Move(r) ==
  LET from == run[r].status
      to   == run'[r].status
  IN
  /\ \A q \in Runs \ {r} : run'[q].status = run[q].status
  /\ \/ from = "none" /\ to = "queued"
     \/ from \in Working /\ to \in Working
     \/ from = "running" /\ to \in Waiting
     \/ from \in Waiting /\ to \in {"queued", "leased"}
     \/ \E h \in Handlers, outcome \in {"completed", "failed"} :
          /\ FinalizeRun(h, outcome) /\ session[h].run = r
          /\ from = "running" /\ to = outcome

Cancelling(gone, new) ==
  \A q \in Runs : run'[q].status = IF q \in new THEN "queued"
                                   ELSE IF q \in gone THEN "cancelled"
                                   ELSE run[q].status

StatusesStay == \A q \in Runs : run'[q].status = run[q].status

StatusesMove ==
  \/ StatusesStay
  \/ \E r \in Runs : Move(r)
  \/ (StopThreadRuns \/ ClearThread) /\ Cancelling(ActiveRuns, {})
  \/ CancelRuns /\ Cancelling(doomed.runs, {})
  \/ \E new \in Runs : SendSuperseding(new) /\ Cancelling(doomed.runs, {new})

LEMMA RunMoves == ASSUME Typed, [Next]_vars PROVE StatusesMove
<1>1. run \in [Runs -> RunRow] BY DEF Typed, TypeOK
<1>2. ASSUME run' = run PROVE StatusesMove BY <1>2 DEF StatusesMove, StatusesStay
<1>3. ASSUME NEW r \in Runs, NEW row, run' = [run EXCEPT ![r] = row],
             \/ row.status = run[r].status
             \/ run[r].status = "none" /\ row.status = "queued"
             \/ run[r].status \in Working /\ row.status \in Working
             \/ run[r].status = "running" /\ row.status \in Waiting
             \/ run[r].status \in Waiting /\ row.status \in {"queued", "leased"}
             \/ \E h \in Handlers, outcome \in {"completed", "failed"} :
                  /\ FinalizeRun(h, outcome) /\ session[h].run = r
                  /\ run[r].status = "running" /\ row.status = outcome
      PROVE  StatusesMove
  <2>1. run'[r] = row /\ \A q \in Runs \ {r} : run'[q] = run[q] BY <1>1, <1>3
  <2>2. CASE row.status = run[r].status BY <2>1, <2>2 DEF StatusesMove, StatusesStay
  <2>3. ASSUME row.status # run[r].status PROVE Move(r)
    <3> DEFINE from == run[r].status
               to   == row.status
    <3>1. run'[r].status = to /\ \A q \in Runs \ {r} : run'[q].status = run[q].status
      BY <2>1
    <3>2. \/ from = "none" /\ to = "queued"
          \/ from \in Working /\ to \in Working
          \/ from = "running" /\ to \in Waiting
          \/ from \in Waiting /\ to \in {"queued", "leased"}
          \/ \E h \in Handlers, outcome \in {"completed", "failed"} :
               /\ FinalizeRun(h, outcome) /\ session[h].run = r
               /\ from = "running" /\ to = outcome
      BY <1>3, <2>3
    <3> QED BY <3>1, <3>2 DEF Move
  <2>4. ASSUME Move(r) PROVE StatusesMove BY <2>4 DEF StatusesMove
  <2> QED BY <2>2, <2>3, <2>4
<1>4. \A q \in Runs : run[q] \in RunRow BY <1>1
<1>5. ASSUME NEW h \in Handlers, HandlerNext(h) PROVE StatusesMove
  <2> DEFINE r == session[h].run
  <2>1. ~At(h, "idle") => r \in Runs /\ run[r] \in RunRow /\ session[h].resume \in Checkpoints
    BY <1>1 DEF At, Typed, Serving, TypeOK, Session
  <2>2. CASE ClaimLease(h)
    <3> DEFINE row == [status |-> "leased", owner |-> WorkerOf[h], fence |-> session[h].fence,
                       expired |-> FALSE, checkpoint |-> None]
    <3>1. row.status = "leased" OBVIOUS
    <3>2. r \in Runs /\ Claimable(r) /\ run' = [run EXCEPT ![r] = row]
      BY <2>1, <2>2 DEF ClaimLease, At
    <3> QED BY <1>3, <3>1, <3>2 DEF Claimable, Working, Leased, Waiting
  <2>3. CASE StartRun(h)
    <3>1. CASE UNCHANGED run BY <3>1, <1>2
    <3>2. CASE Holds(h, "leased") /\ run' = [run EXCEPT ![r].status = "running"]
      <4> DEFINE row == [run[r] EXCEPT !.status = "running"]
      <4>1. r \in Runs /\ row.status = "running"
        BY <2>1, <2>3 DEF RunRow, Unleased, StartRun, At
      <4>2. run' = [run EXCEPT ![r] = row] /\ run[r].status = "leased"
        BY <3>2 DEF Holds
      <4> QED BY <1>3, <4>1, <4>2 DEF Working, Leased
    <3> QED BY <2>3, <3>1, <3>2 DEF StartRun
  <2>4. ASSUME Holds(h, "running"), ~At(h, "idle"),
               run' = [run EXCEPT ![r] = [Unleased(@, "queued") EXCEPT !.checkpoint = session[h].resume]]
        PROVE  StatusesMove
    <3> DEFINE row == [Unleased(run[r], "queued") EXCEPT !.checkpoint = session[h].resume]
    <3>1. r \in Runs /\ row.status = "queued"
      BY <2>1, <2>4 DEF RunRow, Unleased
    <3>2. run' = [run EXCEPT ![r] = row] /\ run[r].status = "running" BY <2>4 DEF Holds
    <3> QED BY <1>3, <3>1, <3>2 DEF Working, Leased
  <2>5. CASE RequeueComputerRun(h) BY <1>2, <2>4, <2>5 DEF RequeueComputerRun, At
  <2>6. ASSUME NEW kind, SetupFailed(h, kind) PROVE StatusesMove
    BY <1>2, <2>4, <2>6 DEF SetupFailed, At
  <2>7. CASE RenewRunLease(h)
    <3> DEFINE row == [run[r] EXCEPT !.expired = FALSE]
    <3>1. r \in Runs /\ row.status = run[r].status
      BY <2>1, <2>7 DEF RunRow, RenewRunLease, At
    <3>2. run' = [run EXCEPT ![r] = row] BY <2>7 DEF RenewRunLease
    <3> QED BY <1>3, <3>1, <3>2
  <2>8. CASE PauseRunForInput(h)
    <3> DEFINE row == Unleased(run[r], "waiting_input")
    <3>1. r \in Runs /\ row.status = "waiting_input"
      BY <2>1, <2>8 DEF RunRow, Unleased, PauseRunForInput, At
    <3>2. run' = [run EXCEPT ![r] = row] /\ run[r].status = "running"
      BY <2>8 DEF PauseRunForInput, Holds
    <3> QED BY <1>3, <3>1, <3>2 DEF Waiting
  <2>9. CASE PauseRunForTakeover(h)
    <3> DEFINE row == [Unleased(run[r], "waiting_takeover") EXCEPT !.checkpoint = None]
    <3>1. r \in Runs /\ row.status = "waiting_takeover"
      BY <2>1, <2>9 DEF RunRow, Unleased, PauseRunForTakeover, At, Checkpoints
    <3>2. run' = [run EXCEPT ![r] = row] /\ run[r].status = "running"
      BY <2>9 DEF PauseRunForTakeover, Holds
    <3> QED BY <1>3, <3>1, <3>2 DEF Waiting
  <2>10. ASSUME NEW outcome \in {"completed", "failed"}, FinalizeRun(h, outcome) PROVE StatusesMove
    <3> DEFINE row == Unleased(run[r], outcome)
    <3>1. r \in Runs /\ row.status = outcome
      BY <2>1, <2>10 DEF RunRow, Unleased, FinalizeRun, At
    <3>2. run' = [run EXCEPT ![r] = row] /\ run[r].status = "running"
      BY <2>10 DEF FinalizeRun, Holds
    <3> QED BY <1>3, <2>10, <3>1, <3>2
  <2> QED BY <1>2, <1>5, <2>2, <2>3, <2>5, <2>6, <2>7, <2>8, <2>9, <2>10
          DEF HandlerNext, Proceed, ReadRun, LoseClaim, AcquireComputer, ThrowBeforeAttempt,
              CreateAttempt, PublishMessage, RecordSetupFailure, Abandon, Finally, dbVars
<1>6. CASE UserNext
  <2>1. ASSUME NEW r \in Runs, SendUserMessage(r) \/ AnswerRunInput(r) PROVE StatusesMove
    <3> DEFINE row == [run[r] EXCEPT !.status = "queued"]
    <3>1. row.status = "queued" BY <1>4 DEF RunRow
    <3>2. run' = [run EXCEPT ![r] = row] /\ run[r].status \in {"none", "waiting_input"}
      BY <2>1 DEF SendUserMessage, AnswerRunInput, Create
    <3> QED BY <1>3, <3>1, <3>2 DEF Waiting
  <2>2. ASSUME NEW r \in Runs, NEW reason \in {"takeover", "takeover-skipped"},
               ReleaseTakeover(r, reason)
        PROVE  StatusesMove
    <3> DEFINE row == [run[r] EXCEPT !.status = "queued", !.checkpoint = reason]
    <3>1. row.status = "queued" BY <1>4 DEF RunRow
    <3>2. run' = [run EXCEPT ![r] = row] /\ run[r].status = "waiting_takeover"
      BY <2>2 DEF ReleaseTakeover
    <3> QED BY <1>3, <3>1, <3>2 DEF Waiting
  <2>3. CASE StopThreadRuns \/ ClearThread
    <3>1. \A q \in Runs : /\ [run[q] EXCEPT !.status = "cancelled"].status = "cancelled"
                          /\ Unleased(run[q], "cancelled").status = "cancelled"
      BY <1>4 DEF RunRow, Unleased
    <3>2. Cancelling(ActiveRuns, {})
      BY <2>3, <3>1 DEF StopThreadRuns, ClearThread, Cancelling
    <3> QED BY <2>3, <3>2 DEF StatusesMove
  <2>4. \A q \in Runs : CancelDoomed(q).status = IF q \in doomed.runs THEN "cancelled"
                                                 ELSE run[q].status
    BY <1>4 DEF RunRow, Unleased, CancelDoomed
  <2>5. CASE CancelRuns BY <2>4, <2>5 DEF CancelRuns, Cancelling, StatusesMove
  <2>6. ASSUME NEW new \in Runs, SendSuperseding(new) PROVE StatusesMove
    <3>1. [run[new] EXCEPT !.status = "queued"].status = "queued" BY <1>4 DEF RunRow
    <3>2. Cancelling(doomed.runs, {new}) BY <2>4, <2>6, <3>1 DEF SendSuperseding, Cancelling
    <3> QED BY <2>6, <3>2 DEF StatusesMove
  <2>7. ASSUME NEW kind, ReadDoomed(kind) PROVE StatusesMove BY <1>2, <2>7 DEF ReadDoomed, dbVars
  <2> QED BY <1>6, <2>1, <2>2, <2>3, <2>5, <2>6, <2>7 DEF UserNext
<1>7. CASE SystemNext
  <2>1. ASSUME NEW r \in Runs, ExpireLease(r) PROVE StatusesMove
    <3> DEFINE row == [run[r] EXCEPT !.expired = TRUE]
    <3>1. row.status = run[r].status BY <1>4 DEF RunRow
    <3>2. run' = [run EXCEPT ![r] = row] BY <2>1 DEF ExpireLease
    <3> QED BY <1>3, <3>1, <3>2
  <2> QED BY <1>2, <1>7, <2>1 DEF SystemNext, ScanRun, Post, PostFails, Redeliver, Crash, dbVars
<1>8. CASE UNCHANGED vars
  <2>1. run' = run BY <1>8 DEF vars, dbVars
  <2> QED BY <1>2, <2>1
<1> QED BY <1>5, <1>6, <1>7, <1>8 DEF Next

---------------------------------------------------------------------------
(* What a step does to the sessions and to the attempts.                   *)

\* A session in Unsettled still has to close its attempt or leave it open.
Unsettled == {"executing", "busy", "setup"}

\* It keeps its run and attempt, or gives both up.
Keeps(g) ==
  /\ session'[g].run = session[g].run /\ session'[g].attempt = session[g].attempt
  /\ session'[g].step \in Trying <=> session[g].step \in Trying
  /\ session'[g].step \in Unsettled => session[g].step \in Unsettled
Quits(g) ==
  /\ session'[g].step \notin Trying /\ session'[g].attempt = 0
  /\ session[g].step \in Trying =>
       \/ session[g].step \in {"finally", "rethrow"} /\ Finally(g)
       \/ \E w \in Workers : Crash(w)

LEMMA SessionMoves ==
  ASSUME Typed, [Next]_vars, NEW g \in Handlers
  PROVE  Keeps(g) \/ Quits(g) \/ CreateAttempt(g)
<1> DEFINE Goal == Keeps(g) \/ Quits(g) \/ CreateAttempt(g)
<1> SUFFICES Goal OBVIOUS
<1> HIDE DEF Goal
<1>1. session \in [Handlers -> Session] BY DEF Typed, TypeOK
<1>2. ASSUME session'[g] = session[g] PROVE Goal BY <1>2 DEF Goal, Keeps
<1>3. ASSUME NEW h \in Handlers, NEW step, GoTo(h, step),
             h = g => /\ step \in Trying <=> session[h].step \in Trying
                      /\ step \in Unsettled => session[h].step \in Unsettled
      PROVE  Goal
  <2>1. h # g => session'[g] = session[g] BY <1>1, <1>3 DEF GoTo
  <2>2. h = g => /\ session'[g].run = session[g].run
                 /\ session'[g].attempt = session[g].attempt /\ session'[g].step = step
    BY <1>1, <1>3 DEF GoTo, Session
  <2>3. h = g => Keeps(g) BY <1>3, <2>2 DEF Keeps
  <2> QED BY <1>2, <2>1, <2>3 DEF Goal
<1>4. ASSUME NEW h \in Handlers, Return(h), session[h].step \notin Trying \/ Finally(h)
      PROVE  Goal
  <2>1. h # g => session'[g] = session[g] BY <1>1, <1>4 DEF Return
  <2>2. h = g => session'[g] = Idle BY <1>1, <1>4 DEF Return
  <2>3. h = g => Quits(g) BY <1>4, <2>2 DEF Quits, Idle, Trying, Finally, At
  <2> QED BY <1>2, <2>1, <2>3 DEF Goal
<1>5. ASSUME NEW h \in Handlers, HandlerNext(h) PROVE Goal
  <2> USE DEF At, Trying, Unsettled
  <2>1. ASSUME NEW r \in Runs, ReadRun(h, r) PROVE Goal
    <3>1. h # g => session'[g] = session[g] BY <1>1, <2>1 DEF ReadRun
    <3>2. h = g /\ session' # session =>
            session'[g].step = "read" /\ session'[g].attempt = 0 /\ session[g].step = "idle"
      BY <1>1, <2>1 DEF ReadRun
    <3>3. h = g /\ session' # session => Quits(g) BY <3>2 DEF Quits
    <3> QED BY <1>2, <3>1, <3>3 DEF Goal
  <2>2. CASE ClaimLease(h) BY <1>3, <2>2 DEF ClaimLease
  <2>3. CASE LoseClaim(h) BY <1>4, <2>3 DEF LoseClaim
  <2>4. CASE StartRun(h) BY <1>3, <1>4, <2>4 DEF StartRun, Throw
  <2>5. CASE AcquireComputer(h) BY <1>3, <2>5 DEF AcquireComputer
  <2>6. CASE RequeueComputerRun(h) BY <1>4, <2>6 DEF RequeueComputerRun
  <2>7. CASE ThrowBeforeAttempt(h) BY <1>4, <2>7 DEF ThrowBeforeAttempt, Throw
  <2>8. CASE CreateAttempt(h)
    <3>1. h # g => session'[g] = session[g] BY <1>1, <2>8 DEF CreateAttempt
    <3> QED BY <1>2, <2>8, <3>1 DEF Goal
  <2>9. CASE RenewRunLease(h) \/ PublishMessage(h)
    BY <1>2, <2>9 DEF RenewRunLease, PublishMessage
  <2>10. CASE PauseRunForInput(h) BY <1>3, <2>10 DEF PauseRunForInput
  <2>11. CASE PauseRunForTakeover(h) BY <1>3, <2>11 DEF PauseRunForTakeover
  <2>12. ASSUME NEW outcome, FinalizeRun(h, outcome) PROVE Goal
    BY <1>3, <2>12 DEF FinalizeRun
  <2>13. ASSUME NEW kind \in {"busy", "setup"}, SetupFailed(h, kind) PROVE Goal
    BY <1>3, <2>13 DEF SetupFailed
  <2>14. CASE RecordSetupFailure(h) BY <1>3, <2>14 DEF RecordSetupFailure
  <2>15. CASE Abandon(h) BY <1>3, <2>15 DEF Abandon
  <2>16. CASE Finally(h)
    <3>1. Return(h) BY <2>16 DEF Finally, Throw
    <3> QED BY <1>4, <2>16, <3>1
  <2> QED BY <1>5, <2>1, <2>2, <2>3, <2>4, <2>5, <2>6, <2>7, <2>8, <2>9, <2>10, <2>11, <2>12,
             <2>13, <2>14, <2>15, <2>16
          DEF HandlerNext, Proceed
<1>6. CASE UserNext
  <2>1. session' = session
    BY <1>6 DEF UserNext, SendUserMessage, AnswerRunInput, ReleaseTakeover, SendSuperseding,
       StopThreadRuns, ClearThread, CancelRuns, ReadDoomed
  <2> QED BY <1>2, <2>1
<1>7. CASE SystemNext
  <2>1. ASSUME NEW w \in Workers, Crash(w) PROVE Goal
    <3>1. session'[g] \in {Idle, session[g]} BY <2>1 DEF Crash
    <3>2. session'[g] = Idle => Quits(g) BY <2>1 DEF Quits, Idle, Trying
    <3> QED BY <1>2, <3>1, <3>2 DEF Goal
  <2>2. ASSUME NEW r \in Runs,
               ScanRun(r) \/ Post(r) \/ PostFails(r) \/ Redeliver(r) \/ ExpireLease(r)
        PROVE  Goal
    BY <1>2, <2>2 DEF ScanRun, Post, PostFails, Redeliver, ExpireLease
  <2> QED BY <1>7, <2>1, <2>2 DEF SystemNext
<1>8. CASE UNCHANGED vars
  <2>1. session' = session BY <1>8 DEF vars
  <2> QED BY <1>2, <2>1
<1> QED BY <1>5, <1>6, <1>7, <1>8 DEF Next

\* A session that closes its attempt has it open, or has just put its run back
\* in the queue.
Closes(h, i) ==
  /\ session[h].step \in Trying /\ session[h].attempt = i
  /\ session'[h].step \notin Unsettled
  /\ \/ attempts[i].status = "running"
     \/ session[h].step \in {"busy", "setup"} /\ attempts'[i].status = "setup_failed"
  /\ \/ attempts'[i].status \notin {"running", "completed", "failed"}
     \/ /\ attempts'[i].status \in {"completed", "failed"}
        /\ session[h].step = "executing" /\ FinalizeRun(h, attempts'[i].status)

Appends ==
  \E h \in Handlers :
    /\ CreateAttempt(h) /\ Len(attempts') = Len(attempts) + 1
    /\ \A i \in 1..Len(attempts) : attempts'[i] = attempts[i]
    /\ attempts'[Len(attempts) + 1] =
         [run |-> session[h].run, fence |-> session[h].fence, status |-> "running"]

LEMMA AttemptMoves ==
  ASSUME Typed, [Next]_vars
  PROVE  \/ Appends
         \/ /\ Len(attempts') = Len(attempts)
            /\ \A i \in 1..Len(attempts) :
                 /\ attempts'[i].run = attempts[i].run
                 /\ \/ attempts'[i] = attempts[i]
                    \/ attempts[i].status = "running" /\ attempts'[i].status = "cancelled"
                    \/ \E h \in Handlers : Closes(h, i)
<1> DEFINE Rest == \A i \in 1..Len(attempts) :
                     /\ attempts'[i].run = attempts[i].run
                     /\ \/ attempts'[i] = attempts[i]
                        \/ attempts[i].status = "running" /\ attempts'[i].status = "cancelled"
                        \/ \E h \in Handlers : Closes(h, i)
           Goal == Appends \/ (Len(attempts') = Len(attempts) /\ Rest)
<1> SUFFICES Goal OBVIOUS
<1> HIDE DEF Goal
<1>1. attempts \in Seq(Attempt) /\ Len(attempts) \in Nat /\ session \in [Handlers -> Session]
      /\ \A i \in 1..Len(attempts) : attempts[i] \in Attempt
  BY DEF Typed, TypeOK
<1>2. ASSUME attempts' = attempts PROVE Goal BY <1>2 DEF Goal
<1>3. ASSUME NEW h \in Handlers, NEW status \in AttemptStatuses, CloseAttempt(h, status),
             session[h].step \in Trying, session'[h].step \notin Unsettled,
             \/ attempts[session[h].attempt].status = "running"
             \/ session[h].step \in {"busy", "setup"} /\ status = "setup_failed",
             \/ status \notin {"running", "completed", "failed"}
             \/ /\ status \in {"completed", "failed"}
                /\ session[h].step = "executing" /\ FinalizeRun(h, status)
      PROVE  Goal
  <2> DEFINE o == session[h].attempt
  <2>1. o \in 1..Len(attempts) BY <1>3 DEF Typed, Serving
  <2>2. Len(attempts') = Len(attempts) BY <1>1, <1>3, <2>1, CloseAttemptType
  <2>3. attempts' = [attempts EXCEPT ![o] = [attempts[o] EXCEPT !.status = status]]
    BY <1>3 DEF CloseAttempt
  <2>4. attempts'[o].status = status /\ attempts'[o].run = attempts[o].run
    BY <1>1, <2>1, <2>3 DEF Attempt
  <2>5. \A i \in 1..Len(attempts) : i # o => attempts'[i] = attempts[i]
    BY <1>1, <2>1, <2>3
  <2>6. Closes(h, o) BY <1>3, <2>4 DEF Closes
  <2> QED BY <2>2, <2>4, <2>5, <2>6 DEF Goal
<1>4. ASSUME NEW h \in Handlers, HandlerNext(h) PROVE Goal
  <2> USE DEF At, Trying, AttemptStatuses, Unsettled
  <2>1. \A step : GoTo(h, step) => session'[h].step = step BY <1>1 DEF GoTo, Session
  <2>2. Return(h) => session'[h].step = "idle" BY <1>1 DEF Return, Idle
  <2>3. CASE CreateAttempt(h)
    <3> DEFINE a == [run |-> session[h].run, fence |-> session[h].fence, status |-> "running"]
    <3>1. attempts' = Append(attempts, a) BY <2>3 DEF CreateAttempt
    <3>2. a \in Attempt BY <2>3 DEF CreateAttempt, Attempt, Session, Typed, TypeOK, Serving
    <3> HIDE DEF a
    <3>3. Len(attempts') = Len(attempts) + 1 /\ attempts'[Len(attempts) + 1] = a
          /\ \A i \in 1..Len(attempts) : attempts'[i] = attempts[i]
      BY <1>1, <3>1, <3>2, AppendProperties
    <3> QED BY <2>3, <3>3 DEF Goal, Appends, a
  <2>4. CASE PauseRunForInput(h) BY <1>3, <2>1, <2>4 DEF PauseRunForInput
  <2>5. CASE PauseRunForTakeover(h) BY <1>3, <2>1, <2>5 DEF PauseRunForTakeover
  <2>6. ASSUME NEW outcome \in {"completed", "failed"}, FinalizeRun(h, outcome) PROVE Goal
    <3>1. /\ session'[h].step = "finally" /\ session[h].step = "executing"
          /\ attempts[session[h].attempt].status = "running" /\ CloseAttempt(h, outcome)
      BY <2>1, <2>6 DEF FinalizeRun
    <3> QED BY <1>3, <2>6, <3>1
  <2>7. CASE RecordSetupFailure(h) BY <1>3, <2>1, <2>7 DEF RecordSetupFailure
  <2>8. CASE Finally(h)
    <3>1. Return(h) BY <2>8 DEF Finally, Throw
    <3> QED BY <1>2, <1>3, <2>2, <2>8, <3>1 DEF Finally
  <2>9. ASSUME attempts' = attempts PROVE Goal BY <1>2, <2>9
  <2>10. (\E r \in Runs : ReadRun(h, r)) \/ ClaimLease(h) \/ LoseClaim(h) \/ StartRun(h)
         \/ AcquireComputer(h) \/ RequeueComputerRun(h) \/ ThrowBeforeAttempt(h)
         \/ (\E kind \in {"busy", "setup"} : SetupFailed(h, kind)) \/ RenewRunLease(h)
         \/ PublishMessage(h) \/ Abandon(h) => attempts' = attempts
    BY DEF ReadRun, ClaimLease, LoseClaim, StartRun, AcquireComputer, RequeueComputerRun,
       ThrowBeforeAttempt, SetupFailed, RenewRunLease, PublishMessage, Abandon, dbVars
  <2> QED BY <1>4, <2>3, <2>4, <2>5, <2>6, <2>7, <2>8, <2>9, <2>10 DEF HandlerNext, Proceed
<1>5. CASE ClearThread
  <2>1. attempts' = [i \in 1..Len(attempts) |->
          IF attempts[i].run \in ActiveRuns /\ attempts[i].status = "running"
          THEN [attempts[i] EXCEPT !.status = "cancelled"] ELSE attempts[i]]
    BY <1>1, <1>5 DEF ClearThread
  <2>2. Len(attempts') = Len(attempts)
    <3>1. attempts' \in Seq(Attempt) BY <1>5, TypedStep DEF Typed, TypeOK
    <3> QED BY <1>1, <2>1, <3>1
  <2>3. \A i \in 1..Len(attempts) :
          /\ attempts'[i].run = attempts[i].run
          /\ \/ attempts'[i] = attempts[i]
             \/ attempts[i].status = "running" /\ attempts'[i].status = "cancelled"
    BY <1>1, <2>1 DEF Attempt
  <2> QED BY <2>2, <2>3 DEF Goal
<1>6. CASE UserNext /\ ~ClearThread
  <2>1. attempts' = attempts
    BY <1>6 DEF UserNext, SendUserMessage, AnswerRunInput, ReleaseTakeover, SendSuperseding,
       StopThreadRuns, CancelRuns, ReadDoomed, dbVars
  <2> QED BY <1>2, <2>1
<1>7. CASE SystemNext
  <2>1. attempts' = attempts
    BY <1>7 DEF SystemNext, ScanRun, Post, PostFails, Redeliver, ExpireLease, Crash, dbVars
  <2> QED BY <1>2, <2>1
<1>8. CASE UNCHANGED vars
  <2>1. attempts' = attempts BY <1>8 DEF vars, dbVars
  <2> QED BY <1>2, <2>1
<1> QED BY <1>4, <1>5, <1>6, <1>7, <1>8 DEF Next

---------------------------------------------------------------------------
(* Outcomes.  A session owns the attempt it opened, so no two sessions     *)
(* close the same one; a settled attempt therefore stays settled, and its  *)
(* run has the same outcome, unless a request that read it before cancels  *)
(* it after.                                                               *)

Settles(status) == status \in {"completed", "failed"}
Settled(i) == Settles(attempts[i].status)

Owned ==
  \A h \in Handlers :
    /\ session[h].step \notin Trying => session[h].attempt = 0
    /\ session[h].step \in Trying => attempts[session[h].attempt].run = session[h].run
    /\ session[h].step \in Unsettled => ~Settled(session[h].attempt)
    /\ \A g \in Handlers \ {h} : session[h].step \in Trying =>
                                   session[g].attempt # session[h].attempt

Outcomes ==
  /\ \A i \in 1..Len(attempts) : Settled(i) =>
       /\ run[attempts[i].run].status \in {attempts[i].status, "cancelled"}
       /\ \A j \in 1..Len(attempts) :
            Settled(j) /\ attempts[j].run = attempts[i].run => j = i
  /\ \A r \in Runs : run[r].status \in {"completed", "failed"} =>
       \E i \in 1..Len(attempts) : attempts[i].run = r /\ attempts[i].status = run[r].status

\* A settled attempt was settled before, or is settled by this step.
LEMMA SettledMoves ==
  ASSUME Typed, Owned, [Next]_vars, NEW i \in 1..Len(attempts)
  PROVE  /\ Settled(i) => attempts'[i] = attempts[i]
         /\ Settles(attempts'[i].status) => \/ Settled(i)
                           \/ \E h \in Handlers :
                                /\ session[h].attempt = i /\ session[h].step = "executing"
                                /\ FinalizeRun(h, attempts'[i].status)
<1>1. ASSUME NEW h \in Handlers, Closes(h, i), Settled(i) PROVE FALSE
  BY <1>1 DEF Closes, Settled, Settles, Owned, Unsettled
<1>2. CASE Appends BY <1>2 DEF Appends, Settled, Settles
<1>3. CASE ~Appends
  <2>1. \/ attempts'[i] = attempts[i]
        \/ attempts[i].status = "running" /\ attempts'[i].status = "cancelled"
        \/ \E h \in Handlers : Closes(h, i)
    BY <1>3, AttemptMoves
  <2> QED BY <1>1, <2>1 DEF Closes, Settled, Settles
<1> QED BY <1>2, <1>3

LEMMA OwnedStep == ASSUME Typed, Owned, [Next]_vars PROVE Owned'
<1>1. /\ session \in [Handlers -> Session] /\ session' \in [Handlers -> Session]
      /\ Len(attempts) \in Nat
      /\ \A h \in Handlers : session[h].step \in Trying => session[h].attempt \in 1..Len(attempts)
  BY TypedStep DEF Typed, TypeOK, Serving
<1>2. CASE Appends
  <2>1. PICK h \in Handlers :
          /\ CreateAttempt(h)
          /\ \A i \in 1..Len(attempts) : attempts'[i] = attempts[i]
          /\ attempts'[Len(attempts) + 1] =
               [run |-> session[h].run, fence |-> session[h].fence, status |-> "running"]
    BY <1>2 DEF Appends
  <2>2. /\ session'[h].attempt = Len(attempts) + 1 /\ session'[h].run = session[h].run
        /\ session'[h].step = "executing"
        /\ \A g \in Handlers \ {h} : session'[g] = session[g]
    BY <1>1, <2>1 DEF CreateAttempt, Session
  <2>3. \A g \in Handlers : session[g].attempt # Len(attempts) + 1
    BY <1>1 DEF Owned
  <2>4. session'[h].step \in Trying BY <2>2 DEF Trying
  <2>5. ~Settles(attempts'[session'[h].attempt].status) BY <2>1, <2>2 DEF Settles
  <2>6. \A g \in Handlers \ {h} : session[g].step \in Trying =>
          attempts'[session[g].attempt] = attempts[session[g].attempt]
    BY <1>1, <2>1
  <2>7. \A g \in Handlers \ {h} : session[g].step \in Unsettled => session[g].step \in Trying
    BY DEF Unsettled, Trying
  <2> QED BY <2>1, <2>2, <2>3, <2>4, <2>5, <2>6, <2>7 DEF Owned, Settled
<1>3. CASE ~Appends
  <2>1. ~\E h \in Handlers : CreateAttempt(h)
    <3> SUFFICES ASSUME NEW h \in Handlers, CreateAttempt(h) PROVE FALSE OBVIOUS
    <3>1. Len(attempts') = Len(attempts) + 1
      <4>1. [run |-> session[h].run, fence |-> session[h].fence, status |-> "running"] \in Attempt
        BY <1>1 DEF CreateAttempt, At, Typed, TypeOK, Serving, Session, Attempt, AttemptStatuses
      <4> QED BY <4>1, AppendProperties DEF CreateAttempt, Typed, TypeOK
    <3> QED BY <1>1, <1>3, <3>1, AttemptMoves
  <2>2. \A g \in Handlers : Keeps(g) \/ Quits(g) BY <2>1, SessionMoves
  <2>3. \A i \in 1..Len(attempts) : /\ attempts'[i].run = attempts[i].run
                                    /\ \/ attempts'[i] = attempts[i]
                                       \/ attempts'[i].status = "cancelled"
                                       \/ \E h \in Handlers : Closes(h, i)
    BY <1>3, AttemptMoves
  <2> SUFFICES ASSUME NEW h \in Handlers
               PROVE  /\ session'[h].step \notin Trying => session'[h].attempt = 0
                      /\ session'[h].step \in Trying =>
                           attempts'[session'[h].attempt].run = session'[h].run
                      /\ session'[h].step \in Unsettled => ~Settles(attempts'[session'[h].attempt].status)
                      /\ \A g \in Handlers \ {h} : session'[h].step \in Trying =>
                                                     session'[g].attempt # session'[h].attempt
    BY DEF Owned, Settled
  <2>4. CASE Quits(h) BY <2>4 DEF Quits, Unsettled, Trying
  <2>5. CASE Keeps(h)
    <3> DEFINE i == session[h].attempt
    <3>1. session'[h].attempt = i /\ session'[h].run = session[h].run BY <2>5 DEF Keeps
    <3>2. session'[h].step \in Trying => i \in 1..Len(attempts) BY <1>1, <2>5 DEF Keeps
    <3>3. ASSUME session'[h].step \in Unsettled PROVE ~Settles(attempts'[i].status)
      <4>1. session[h].step \in Unsettled /\ session'[h].step \in Trying /\ ~Settled(i)
        BY <2>5, <3>3 DEF Keeps, Owned, Unsettled, Trying
      <4>2. ASSUME NEW g \in Handlers, Closes(g, i) PROVE FALSE
        <5>1. g = h BY <4>1, <4>2 DEF Closes, Owned
        <5> QED BY <3>3, <4>2, <5>1 DEF Closes
      <4>3. attempts'[i] = attempts[i] \/ attempts'[i].status = "cancelled"
        BY <2>3, <3>2, <4>1, <4>2
      <4> QED BY <4>1, <4>3 DEF Settled, Settles
    <3>4. ASSUME NEW g \in Handlers \ {h}, session'[h].step \in Trying
          PROVE  session'[g].attempt # i
      <4>1. session[g].attempt # i /\ i # 0 BY <1>1, <2>5, <3>2, <3>4 DEF Owned, Keeps
      <4>2. session'[g].attempt \in {session[g].attempt, 0} BY <2>2 DEF Keeps, Quits
      <4> QED BY <4>1, <4>2
    <3> QED BY <2>3, <2>5, <3>1, <3>2, <3>3, <3>4 DEF Owned, Keeps
  <2> QED BY <2>2, <2>4, <2>5
<1> QED BY <1>2, <1>3

\* A run that has ended stays as it is, or is cancelled.
LEMMA EndedRunsStay ==
  ASSUME Typed, [Next]_vars, NEW r \in Runs, run[r].status \in Terminal
  PROVE  run'[r].status \in {run[r].status, "cancelled"}
<1> USE DEF Terminal
<1>1. StatusesMove BY RunMoves
<1>2. CASE StatusesStay BY <1>2 DEF StatusesStay
<1>3. ASSUME NEW q \in Runs, Move(q) PROVE run'[r].status = run[r].status
  BY <1>3 DEF Move, Working, Leased, Waiting
<1>4. CASE Cancelling(ActiveRuns, {}) BY <1>4 DEF Cancelling
<1>5. CASE Cancelling(doomed.runs, {}) BY <1>5 DEF Cancelling
<1>6. ASSUME NEW new \in Runs, SendSuperseding(new), Cancelling(doomed.runs, {new})
      PROVE  run'[r].status \in {run[r].status, "cancelled"}
  BY <1>6 DEF Cancelling, SendSuperseding
<1> QED BY <1>1, <1>2, <1>3, <1>4, <1>5, <1>6 DEF StatusesMove

\* The commit that settles a run settles the open attempt of its session.
LEMMA FinalizeSettles ==
  ASSUME Typed, Owned, NEW h \in Handlers, NEW outcome, FinalizeRun(h, outcome)
  PROVE  LET i == session[h].attempt IN
         /\ i \in 1..Len(attempts) /\ attempts[i].run = session[h].run
         /\ session[h].run \in Runs /\ run[session[h].run].status = "running"
         /\ attempts'[i].status = outcome /\ run'[session[h].run].status = outcome
         /\ \A g \in Handlers : session[g].step = "executing" /\ session'[g].step = "finally" => g = h
<1> DEFINE i == session[h].attempt
           r == session[h].run
<1>1. i \in 1..Len(attempts) /\ attempts[i].run = r /\ r \in Runs
  BY DEF FinalizeRun, At, Owned, Typed, Serving, Trying
<1>2. /\ attempts \in Seq(Attempt) /\ attempts[i] \in Attempt /\ run \in [Runs -> RunRow]
      /\ session \in [Handlers -> Session]
  BY <1>1 DEF Typed, TypeOK
<1>3. attempts' = [attempts EXCEPT ![i] = [attempts[i] EXCEPT !.status = outcome]]
  BY DEF FinalizeRun, CloseAttempt
<1>4. attempts'[i].status = outcome BY <1>1, <1>2, <1>3 DEF Attempt
<1>5. run[r].status = "running" BY DEF FinalizeRun, Holds
<1>6. Unleased(run[r], outcome).status = outcome BY <1>1, <1>2 DEF Unleased, RunRow
<1>7. run'[r] = Unleased(run[r], outcome) BY <1>1, <1>2 DEF FinalizeRun
<1>8. run'[r].status = outcome BY <1>6, <1>7
<1>9. \A g \in Handlers : session[g].step = "executing" /\ session'[g].step = "finally" => g = h
  BY <1>2 DEF FinalizeRun, GoTo
<1> QED BY <1>1, <1>4, <1>5, <1>8, <1>9

LEMMA OutcomesStep == ASSUME Typed, Owned, Outcomes, [Next]_vars PROVE Outcomes'
<1>1. /\ Len(attempts) \in Nat /\ Len(attempts') \in Nat
      /\ \A i \in 1..Len(attempts) : attempts[i].run \in Runs
  <2>1. attempts \in Seq(Attempt) /\ attempts' \in Seq(Attempt)
    BY TypedStep DEF Typed, TypeOK
  <2>2. \A i \in 1..Len(attempts) : attempts[i] \in Attempt BY <2>1
  <2> QED BY <2>1, <2>2 DEF Attempt
<1>2. /\ Len(attempts) <= Len(attempts')
      /\ \A i \in 1..Len(attempts) : attempts'[i].run = attempts[i].run
      /\ \A i \in 1..Len(attempts') : Settles(attempts'[i].status) => i \in 1..Len(attempts)
  <2>1. CASE Appends
    BY <1>1, <2>1 DEF Appends, Settles
  <2>2. CASE ~Appends BY <1>1, <2>2, AttemptMoves
  <2> QED BY <2>1, <2>2
\* The attempts that settle in this step, of runs that ran before it.
<1> DEFINE New(i) == \E h \in Handlers :
                       /\ session[h].attempt = i /\ session[h].step = "executing"
                       /\ FinalizeRun(h, attempts'[i].status)
<1>3. ASSUME NEW i \in 1..Len(attempts') , Settles(attempts'[i].status)
      PROVE  /\ i \in 1..Len(attempts)
             /\ (Settled(i) /\ attempts'[i] = attempts[i]) \/ New(i)
  BY <1>2, <1>3, SettledMoves
<1>4. ASSUME NEW i \in 1..Len(attempts), New(i)
      PROVE  /\ run[attempts[i].run].status = "running"
             /\ run'[attempts[i].run].status = attempts'[i].status
             /\ \A j : New(j) => j = i
  <2>1. PICK h \in Handlers : /\ session[h].attempt = i /\ session[h].step = "executing"
                              /\ FinalizeRun(h, attempts'[i].status)
    BY <1>4
  <2>2. /\ run[attempts[i].run].status = "running"
        /\ run'[attempts[i].run].status = attempts'[i].status
    BY <2>1, FinalizeSettles
  <2>3. ASSUME NEW j, New(j) PROVE j = i
    <3>1. PICK g \in Handlers : /\ session[g].attempt = j /\ session[g].step = "executing"
                                /\ FinalizeRun(g, attempts'[j].status)
      BY <2>3
    <3>2. session'[g].step = "finally"
      BY <3>1 DEF FinalizeRun, GoTo, Typed, TypeOK, Session
    <3>3. g = h BY <2>1, <3>1, <3>2, FinalizeSettles
    <3> QED BY <2>1, <3>1, <3>3
  <2> QED BY <2>2, <2>3
<1> HIDE DEF New
<1>5. ASSUME NEW i \in 1..Len(attempts'), Settles(attempts'[i].status)
      PROVE  run'[attempts'[i].run].status \in {attempts'[i].status, "cancelled"}
  <2>1. CASE New(i) BY <1>2, <1>3, <1>4, <1>5, <2>1
  <2>2. CASE Settled(i) /\ attempts'[i] = attempts[i]
    <3>1. i \in 1..Len(attempts) BY <1>3, <1>5
    <3>2. run[attempts[i].run].status \in {attempts[i].status, "cancelled"}
      BY <2>2, <3>1 DEF Outcomes
    <3>3. run[attempts[i].run].status \in Terminal
      BY <2>2, <3>2 DEF Settled, Settles, Terminal
    <3> QED BY <1>1, <2>2, <3>1, <3>2, <3>3, EndedRunsStay
  <2> QED BY <1>3, <1>5, <2>1, <2>2
<1>6. ASSUME NEW i \in 1..Len(attempts'), Settles(attempts'[i].status),
             NEW j \in 1..Len(attempts'), Settles(attempts'[j].status),
             attempts'[j].run = attempts'[i].run
      PROVE  j = i
  <2>1. i \in 1..Len(attempts) /\ j \in 1..Len(attempts) /\ attempts[j].run = attempts[i].run
    BY <1>2, <1>3, <1>6
  <2>2. \A k \in 1..Len(attempts) : Settled(k) => run[attempts[k].run].status # "running"
    BY DEF Outcomes, Settled, Settles
  <2>3. CASE Settled(i) /\ Settled(j) BY <2>1, <2>3 DEF Outcomes
  <2>4. CASE New(i) BY <1>3, <1>4, <1>6, <2>1, <2>2, <2>4
  <2>5. CASE New(j) BY <1>3, <1>4, <1>6, <2>1, <2>2, <2>5
  <2> QED BY <1>3, <1>6, <2>3, <2>4, <2>5
<1>7. ASSUME NEW r \in Runs, Settles(run'[r].status)
      PROVE  \E i \in 1..Len(attempts') :
               attempts'[i].run = r /\ attempts'[i].status = run'[r].status
  <2>1. CASE run'[r].status = run[r].status
    <3>1. PICK i \in 1..Len(attempts) : attempts[i].run = r /\ attempts[i].status = run[r].status
      BY <1>7, <2>1 DEF Outcomes, Settles
    <3>2. attempts'[i] = attempts[i]
      BY <1>7, <2>1, <3>1, SettledMoves DEF Settled
    <3> QED BY <1>1, <1>2, <2>1, <3>1, <3>2
  <2>2. CASE run'[r].status # run[r].status
    <3>1. StatusesMove BY RunMoves
    <3>2. \E q \in Runs : Move(q)
      BY <1>7, <2>2, <3>1 DEF StatusesMove, StatusesStay, Cancelling, Settles
    <3>3. Move(r) BY <2>2, <3>2 DEF Move
    <3>4. PICK h \in Handlers, outcome \in {"completed", "failed"} :
            FinalizeRun(h, outcome) /\ session[h].run = r /\ run'[r].status = outcome
      BY <1>7, <3>3 DEF Move, Settles, Working, Leased, Waiting
    <3> QED BY <1>1, <1>2, <3>4, FinalizeSettles
  <2> QED BY <2>1, <2>2
<1> QED BY <1>5, <1>6, <1>7 DEF Outcomes, Settled, Settles

LEMMA OwnedInit == Init => Owned /\ Outcomes
BY DEF Init, Owned, Outcomes, Idle, Trying, Unsettled

\* However many attempts a run took, at most one of them settles it, and the
\* outcome of a completed or failed run is the outcome of that attempt.
THEOREM RunsHaveOneOutcome == Spec => []OneOutcome
<1>1. Init => Typed /\ Owned /\ Outcomes BY TypedInit, OwnedInit
<1>2. Typed /\ Owned /\ Outcomes /\ [Next]_vars => (Typed /\ Owned /\ Outcomes)'
  BY TypedStep, OwnedStep, OutcomesStep
<1>3. Typed /\ Outcomes => OneOutcome
  <2> SUFFICES ASSUME Typed, Outcomes, NEW r \in Runs
               PROVE  /\ Cardinality(SettledAttempts(r)) <= 1
                      /\ run[r].status \in {"completed", "failed"} =>
                           \E i \in SettledAttempts(r) : attempts[i].status = run[r].status
    BY DEF OneOutcome
  <2>1. DOMAIN attempts = 1..Len(attempts) BY DEF Typed, TypeOK
  <2>2. \A i, j \in SettledAttempts(r) : i = j
    BY <2>1 DEF SettledAttempts, Outcomes, Settled, Settles
  <2>3. SettledAttempts(r) = {} \/ \E i : SettledAttempts(r) = {i} BY <2>2
  <2>4. Cardinality(SettledAttempts(r)) <= 1 
    <3>1. CASE SettledAttempts(r) = {} BY <3>1, FS_EmptySet
    <3>2. ASSUME NEW i, SettledAttempts(r) = {i} PROVE Cardinality(SettledAttempts(r)) = 1
      BY <3>2, FS_Singleton
    <3> QED BY <2>3, <3>1, <3>2
  <2> QED BY <2>1, <2>4 DEF SettledAttempts, Outcomes
<1> QED BY <1>1, <1>2, <1>3, PTL DEF Spec

\* Unless a process dies, no attempt is left running: every way out of a
\* session closes the attempt it opened.
THEOREM AttemptsDoNotLeak == Spec => []NoAttemptLeaks
<1>1. Init => Typed /\ Owned /\ NoAttemptLeaks
  BY TypedInit, OwnedInit DEF Init, NoAttemptLeaks
<1>2. Typed /\ Owned /\ NoAttemptLeaks /\ [Next]_vars => (Typed /\ Owned /\ NoAttemptLeaks)'
  <2> SUFFICES ASSUME Typed, Owned, NoAttemptLeaks, [Next]_vars, "crash" \notin Faults,
                      NEW i \in DOMAIN attempts', attempts'[i].status = "running"
               PROVE  \E h \in Handlers : session'[h].attempt = i
    BY TypedStep, OwnedStep DEF NoAttemptLeaks
  <2>1. /\ DOMAIN attempts = 1..Len(attempts) /\ DOMAIN attempts' = 1..Len(attempts')
        /\ Len(attempts) \in Nat /\ attempts \in Seq(Attempt) /\ session \in [Handlers -> Session]
    BY TypedStep DEF Typed, TypeOK
  <2>2. CASE i \in 1..Len(attempts)
    <3>1. attempts[i].status = "running"
      BY <2>2, AttemptMoves DEF Appends, Closes
    <3>2. PICK h \in Handlers : session[h].attempt = i BY <2>1, <2>2, <3>1 DEF NoAttemptLeaks
    <3>3. session[h].step \in Trying BY <2>1, <2>2, <3>2 DEF Owned
    <3>4. ~CreateAttempt(h) BY <3>3 DEF CreateAttempt, At, Trying
    <3>5. ASSUME Finally(h) PROVE FALSE
      <4>1. attempts' = [attempts EXCEPT ![i] = [attempts[i] EXCEPT !.status = "interrupted"]]
        BY <3>1, <3>2, <3>5 DEF Finally, CloseAttempt
      <4>2. attempts[i] \in Attempt BY <2>1, <2>2
      <4> QED BY <2>1, <2>2, <4>1, <4>2 DEF Attempt
    <3>6. \A w \in Workers : ~Crash(w) BY DEF Crash, Fail
    <3>7. Keeps(h) BY <3>3, <3>4, <3>5, <3>6, SessionMoves DEF Quits
    <3> QED BY <3>2, <3>7 DEF Keeps
  <2>3. CASE i \notin 1..Len(attempts)
    <3>1. PICK h \in Handlers : CreateAttempt(h) /\ Len(attempts') = Len(attempts) + 1
      BY <2>1, <2>3, AttemptMoves DEF Appends
    <3>2. i = Len(attempts) + 1 BY <2>1, <2>3, <3>1
    <3> QED BY <2>1, <3>1, <3>2 DEF CreateAttempt, Session
  <2> QED BY <2>2, <2>3
<1> QED BY <1>1, <1>2, PTL DEF Spec

---------------------------------------------------------------------------
(* A cancelling request between its read and its write.  A run it read has *)
(* been created, and under the thread's row lock no run it read settles.   *)

Doomed ==
  /\ doomed.kind \in Cancels \cup {"none"}
  /\ \A r \in doomed.runs : run[r].status # "none"
  /\ doomed.kind = "supersede" => \A r \in doomed.runs : ~Settles(run[r].status)

LEMMA DoomedMoves ==
  ASSUME [Next]_vars
  PROVE  \/ doomed' = doomed
         \/ doomed' = NoRequest
         \/ \E kind \in CancelKinds : ReadDoomed(kind)
<1>1. ASSUME NEW h \in Handlers, HandlerNext(h) PROVE doomed' = doomed
  BY <1>1 DEF HandlerNext, Proceed, ReadRun, ClaimLease, LoseClaim, StartRun, AcquireComputer,
     RequeueComputerRun, ThrowBeforeAttempt, CreateAttempt, RenewRunLease, PublishMessage,
     PauseRunForInput, PauseRunForTakeover, FinalizeRun, SetupFailed, RecordSetupFailure,
     Abandon, Finally
<1>2. CASE UserNext
  BY <1>2 DEF UserNext, SendUserMessage, AnswerRunInput, ReleaseTakeover, SendSuperseding,
     StopThreadRuns, ClearThread, CancelRuns, CancelKinds
<1>3. CASE SystemNext
  BY <1>3 DEF SystemNext, ScanRun, Post, PostFails, Redeliver, ExpireLease, Crash
<1>4. CASE UNCHANGED vars BY <1>4 DEF vars
<1> QED BY <1>1, <1>2, <1>3, <1>4 DEF Next

LEMMA DoomedStep == ASSUME Typed, Doomed, [Next]_vars PROVE Doomed'
<1>1. StatusesMove BY RunMoves
<1>2. \A r \in Runs : run'[r].status = "none" => run[r].status = "none"
  BY <1>1 DEF StatusesMove, StatusesStay, Move, Cancelling, Working, Leased, Waiting
<1>3. doomed.runs \subseteq Runs BY DEF Typed, TypeOK
<1>4. CASE doomed' = doomed
  <2> SUFFICES ASSUME doomed.kind = "supersede", NEW r \in doomed.runs, Settles(run'[r].status)
               PROVE  FALSE
    BY <1>2, <1>3, <1>4 DEF Doomed
  <2>1. ~Settles(run[r].status) /\ r \in Runs BY <1>3 DEF Doomed
  <2>2. ASSUME NEW q \in Runs, Move(q) PROVE FALSE
    BY <2>1, <2>2 DEF Move, Settles, Working, Leased, Waiting, FinalizeRun, ThreadIsFree
  <2> QED BY <1>1, <2>1, <2>2 DEF StatusesMove, StatusesStay, Cancelling, Settles
<1>5. CASE doomed' = NoRequest BY <1>5 DEF Doomed, NoRequest
<1>6. ASSUME NEW kind \in CancelKinds, ReadDoomed(kind) PROVE Doomed'
  BY <1>6 DEF ReadDoomed, Doomed, dbVars, ActiveRuns, Active, Settles
<1> QED BY <1>4, <1>5, <1>6, DoomedMoves

LEMMA DoomedInit == Init => Doomed
BY DEF Init, Doomed, NoRequest

\* A run that ended keeps its outcome, unless an archive or a replacement of
\* the computer, which read it without the thread's row lock, cancels it.
THEOREM OutcomesAreKept == Spec => OutcomesStand
<1> DEFINE Kept == \A r \in Runs : run[r].status \in {"completed", "cancelled"} =>
                     \/ run'[r].status = run[r].status
                     \/ doomed.kind \in {"archive", "replace"} /\ doomed' = NoRequest
<1>1. Init => Typed /\ Doomed BY TypedInit, DoomedInit
<1>2. Typed /\ Doomed /\ [Next]_vars => (Typed /\ Doomed)' BY TypedStep, DoomedStep
<1>3. Typed /\ Doomed /\ [Next]_vars => [Kept]_vars
  <2> SUFFICES ASSUME Typed, Doomed, [Next]_vars,
                      NEW r \in Runs, run[r].status \in {"completed", "cancelled"},
                      run'[r].status # run[r].status
               PROVE  doomed.kind \in {"archive", "replace"} /\ doomed' = NoRequest
    OBVIOUS
  <2>1. StatusesMove BY RunMoves
  <2>2. ASSUME NEW q \in Runs, Move(q) PROVE FALSE
    BY <2>2 DEF Move, Working, Leased, Waiting
  <2>3. ~Cancelling(ActiveRuns, {}) BY DEF Cancelling, ActiveRuns, Active
  <2>4. ASSUME NEW new \in Runs, SendSuperseding(new), Cancelling(doomed.runs, {new}) PROVE FALSE
    BY <2>4 DEF Cancelling, SendSuperseding, Doomed, Settles
  <2> QED BY <2>1, <2>2, <2>3, <2>4 DEF StatusesMove, StatusesStay, CancelRuns
<1> QED BY <1>1, <1>2, <1>3, PTL DEF Spec, OutcomesStand

---------------------------------------------------------------------------
(* The contract.                                                           *)

LEMMA Phases ==
  ASSUME NEW status \in Statuses
  PROVE  /\ Phase(status) = "none" <=> status = "none"
         /\ Phase(status) = "working" <=> status \in Working
         /\ Phase(status) = "waiting" <=> status \in Waiting
         /\ Phase(status) = "settled" <=> Settles(status)
         /\ Phase(status) = "cancelled" <=> status = "cancelled"
BY DEF Phase, Statuses, Active, Terminal, Working, Leased, Waiting, Settles

\* No cancelling request reaches a run that has settled since it was read.
CancelsAreTimely == CancelRuns => \A r \in doomed.runs : ~Settles(run[r].status)

LEMMA ContractStep ==
  ASSUME Typed, Doomed, [Next]_vars, [CancelsAreTimely]_vars
  PROVE  [Contract!Next]_([r \in Runs |-> Phase(run[r].status)])
<1> DEFINE phase == [r \in Runs |-> Phase(run[r].status)]
           phaseNext == [r \in Runs |-> Phase(run'[r].status)]
<1>1. StatusesMove BY RunMoves
<1>2. \A r \in Runs : run[r].status \in Statuses /\ run'[r].status \in Statuses
  BY TypedStep DEF Typed, TypeOK, RunRow
<1>3. CASE StatusesStay BY <1>3 DEF StatusesStay
<1>4. ASSUME NEW r \in Runs, Move(r) PROVE Contract!Next \/ phaseNext = phase
  <2>1. \A q \in Runs \ {r} : phaseNext[q] = phase[q] BY <1>4 DEF Move
  <2>2. phaseNext = [phase EXCEPT ![r] = phaseNext[r]] BY <2>1
  <2>3. /\ phase[r] = Phase(run[r].status) /\ phaseNext[r] = Phase(run'[r].status)
        /\ run[r].status \in Statuses /\ run'[r].status \in Statuses
    BY <1>2
  <2>4. \/ phase[r] = "none" /\ phaseNext[r] = "working"
        \/ phase[r] = "working" /\ phaseNext[r] = "working"
        \/ phase[r] = "working" /\ phaseNext[r] = "waiting"
        \/ phase[r] = "waiting" /\ phaseNext[r] = "working"
        \/ phase[r] = "working" /\ phaseNext[r] = "settled"
    BY <1>4, <2>3, Phases DEF Move, Working, Leased, Waiting, Settles
  <2>5. phaseNext[r] = phase[r] => phaseNext = phase BY <2>1
  <2> QED BY <2>2, <2>4, <2>5
          DEF Contract!Next, Contract!Begin, Contract!Pause, Contract!Resume, Contract!Settle,
              Contract!Move
<1>5. ASSUME NEW gone \in SUBSET Runs, NEW new \in SUBSET Runs, Cancelling(gone, new),
             \A r \in gone : run[r].status # "none" /\ ~Settles(run[r].status),
             \A r \in new : run[r].status = "none"
      PROVE  Contract!Next
  <2> DEFINE ended == {r \in gone : run[r].status # "cancelled"}
  <2>1. \A r \in ended : phase[r] \in {"working", "waiting"}
    BY <1>2, <1>5, Phases DEF Statuses, Active, Terminal, Working, Leased, Waiting, Settles
  <2>2. \A r \in new : phase[r] = "none" BY <1>2, <1>5, Phases
  <2>3. \A r \in Runs : phaseNext[r] = IF r \in ended THEN "cancelled"
                                       ELSE IF r \in new THEN "working" ELSE phase[r]
    <3> SUFFICES ASSUME NEW r \in Runs
                 PROVE  Phase(run'[r].status) = IF r \in ended THEN "cancelled"
                                                ELSE IF r \in new THEN "working"
                                                ELSE Phase(run[r].status)
      OBVIOUS
    <3>1. Phase("cancelled") = "cancelled" /\ Phase("queued") = "working"
      BY DEF Phase, Waiting
    <3> QED BY <1>5, <3>1 DEF Cancelling
  <2>4. phaseNext = [r \in Runs |-> IF r \in ended THEN "cancelled"
                                    ELSE IF r \in new THEN "working" ELSE phase[r]]
    BY <2>3
  <2>5. /\ ended \in SUBSET {r \in Runs : phase[r] \in {"working", "waiting"}}
        /\ new \in SUBSET {r \in Runs : phase[r] = "none"}
    BY <2>1, <2>2
  <2> HIDE DEF ended
  <2> QED BY <2>4, <2>5 DEF Contract!Next, Contract!Cancel
<1>6. doomed.runs \in SUBSET Runs BY DEF Typed, TypeOK
<1>7. CASE Cancelling(ActiveRuns, {})
  BY <1>5, <1>7 DEF ActiveRuns, Active, Settles
<1>8. CASE CancelRuns /\ Cancelling(doomed.runs, {})
  <2>1. \A r \in doomed.runs : ~Settles(run[r].status)
    <3>1. CancelsAreTimely
      BY <1>8 DEF CancelRuns, CancelsAreTimely, NoRequest, vars
    <3> QED BY <1>8, <3>1 DEF CancelsAreTimely
  <2> QED BY <1>5, <1>6, <1>8, <2>1 DEF Doomed
<1>9. ASSUME NEW r \in Runs, SendSuperseding(r), Cancelling(doomed.runs, {r})
      PROVE  Contract!Next
  BY <1>5, <1>6, <1>9 DEF SendSuperseding, Doomed
<1> QED BY <1>1, <1>3, <1>4, <1>7, <1>8, <1>9 DEF StatusesMove

\* However often a run is claimed, lost and retried, it works, waits and ends
\* once, as long as no archive or replacement cancels a run that settled after
\* the request had read it.
THEOREM RunsKeepTheirContract == Spec /\ [][CancelsAreTimely]_vars => ImplementsContract
<1>1. Init => Contract!Init BY DEF Init, Contract!Init, Phase, Waiting
<1>2. Init => Typed /\ Doomed BY TypedInit, DoomedInit
<1>3. Typed /\ Doomed /\ [Next]_vars => (Typed /\ Doomed)' BY TypedStep, DoomedStep
<1>4. Typed /\ Doomed /\ [Next]_vars /\ [CancelsAreTimely]_vars
        => [Contract!Next]_([r \in Runs |-> Phase(run[r].status)])
  BY ContractStep
<1> QED BY <1>1, <1>2, <1>3, <1>4, PTL DEF Spec, ImplementsContract, Contract!Spec

\* Where no bot is archived and no computer replaced, the lease protocol
\* implements the contract.
THEOREM LeasesImplementTheContract ==
  ASSUME Cancels \cap {"archive", "replace"} = {}
  PROVE  Spec => ImplementsContract
<1>1. Init => Typed /\ Doomed BY TypedInit, DoomedInit
<1>2. Typed /\ Doomed /\ [Next]_vars => (Typed /\ Doomed)' BY TypedStep, DoomedStep
<1>3. Typed /\ Doomed /\ [Next]_vars => [CancelsAreTimely]_vars
  BY DEF Doomed, CancelsAreTimely, CancelRuns
<1> QED BY <1>1, <1>2, <1>3, RunsKeepTheirContract, PTL DEF Spec
=============================================================================
