-------------------------- MODULE EffectGateProofs --------------------------
(* Proofs about EffectGate, for any number of requests, handlers, rules,   *)
(* failures and claims.                                                    *)
EXTENDS EffectGate, FiniteSetTheorems, TLAPS

\* An execution that is under way has its row to itself: the row is executing
\* (or given up as uncertain), no other handler runs the request, and the side
\* effect has happened exactly if the handler is past it.
ExecutionIsOwned ==
  \A h \in Handlers : \A q \in Requests :
    h \in Executing(q) =>
      /\ effect[q] \in {"executing", "uncertain"}
      /\ performed[q] = IF At(h, "performed") THEN 1 ELSE 0
      /\ \A other \in Handlers : other \in Executing(q) => other = h

\* The row of a request that is not under way tells whether it ran.
RowTellsTheTruth ==
  \A q \in Requests :
    /\ performed[q] <= 1
    /\ effect[q] = "completed" => performed[q] = 1 /\ Executing(q) = {}
    /\ effect[q] \in {"none", "intended", "approved", "denied"} => performed[q] = 0

\* Only calls with a stable key reach the states between lookup and claim.
GateIsKeyed ==
  \A h \in Handlers :
    session[h].step \in {"missing", "found", "asking", "lost", "settling"} =>
      session[h].keyed

\* An approval that a handler read, or could read, was given by the user.
ApprovalIsGiven ==
  /\ \A q \in Requests : effect[q] = "approved" => q \in allowed
  /\ \A h \in Handlers :
       At(h, "found") /\ session[h].seen = "approved" => Request(h) \in allowed

\* In the gate a handler has a request.
GateHasRequest ==
  \A h \in Handlers :
    session[h].step \notin {"idle", "claimed", "turn"} => Request(h) \in Requests

Typed == TypeOK /\ GateHasRequest

---------------------------------------------------------------------------
(* What moving one handler does to the sessions.                           *)

LEMMA GoToMoves ==
  ASSUME session \in [Handlers -> Session], NEW h \in Handlers,
         NEW step \in Steps, GoTo(h, step)
  PROVE  /\ session' \in [Handlers -> Session]
         /\ session'[h].step = step
         /\ session'[h].request = session[h].request
         /\ session'[h].keyed = session[h].keyed
         /\ session'[h].rules = session[h].rules
         /\ session'[h].seen = session[h].seen
         /\ session'[h].fence = session[h].fence
         /\ session'[h].loaded = session[h].loaded
         /\ session'[h].replay = session[h].replay
         /\ session'[h].replaying = session[h].replaying
         /\ \A other \in Handlers : other # h => session'[other] = session[other]
BY DEF GoTo, Session

LEMMA LeaveMoves ==
  ASSUME session \in [Handlers -> Session], NEW h \in Handlers, Leave(h)
  PROVE  /\ session' \in [Handlers -> Session]
         /\ session'[h].step = "idle"
         /\ \A other \in Handlers : other # h => session'[other] = session[other]
<1>1. Idle \in Session
  BY DEF Idle, Session, Steps
<1> QED
  BY <1>1 DEF Leave, Idle

\* A handler that neither enters nor leaves the execution of a request, and
\* whose step leaves the rows and the history of executions alone, keeps what
\* is said of both.
LEMMA QuietStep ==
  ASSUME ExecutionIsOwned, RowTellsTheTruth,
         UNCHANGED <<effect, performed>>,
         \A h \in Handlers, q \in Requests : h \in Executing(q)' =>
           h \in Executing(q) /\ (At(h, "performed")' <=> At(h, "performed"))
  PROVE  ExecutionIsOwned' /\ RowTellsTheTruth'
<1>1. \A q \in Requests : Executing(q) = {} => Executing(q)' = {}
  BY DEF Executing
<1>2. RowTellsTheTruth'
  BY <1>1 DEF RowTellsTheTruth
<1>3. ExecutionIsOwned'
  BY DEF ExecutionIsOwned
<1> QED
  BY <1>2, <1>3

---------------------------------------------------------------------------
(* Types.                                                                  *)

LEMMA TypedInit == Init => Typed
<1> SUFFICES ASSUME Init PROVE Typed
  OBVIOUS
<1>1. Idle \in Session
  BY DEF Idle, Session, Steps
<1>2. TypeOK
  BY <1>1, GateAssumption DEF Init, TypeOK, RunStatuses
<1> QED
  BY <1>2 DEF Typed, GateHasRequest, Init, Idle

\* An attempt's claim, reads and end.
LEMMA TypedAttempt ==
  ASSUME Typed, NEW h \in Handlers,
         ClaimRun(h) \/ LoadReplays(h) \/ EndTurn(h) \/ PauseRunForTakeover(h)
         \/ Crash(h)
  PROVE  Typed'
<1> USE DEF Typed, TypeOK, tables, past, RunStatuses
<1>1. CASE ClaimRun(h)
  <2>0. "claimed" \in Steps /\ run.fence + 1 \in Nat
    BY DEF Steps
  <2>1. session' \in [Handlers -> Session]
    <3>1. [session[h] EXCEPT !.step = "claimed", !.fence = run.fence + 1] \in Session
      BY ZenonT(60), <2>0 DEF Session
    <3> QED
      BY <1>1, <3>1 DEF ClaimRun
  <2> QED
    BY <1>1, <2>1 DEF ClaimRun, Fail, GateHasRequest, Request, Session
<1>2. CASE LoadReplays(h)
  <2>1. session' \in [Handlers -> Session]
    <3>1. "turn" \in Steps /\ ApprovedRequests \in SUBSET Requests
      BY DEF Steps, ApprovedRequests
    <3>2. [session[h] EXCEPT !.step = "turn", !.replay = ApprovedRequests] \in Session
      BY ZenonT(60), <3>1 DEF Session
    <3> QED
      BY <1>2, <3>2 DEF LoadReplays
  <2> QED
    BY <1>2, <2>1 DEF LoadReplays, GateHasRequest, Request, Session
<1>3. CASE EndTurn(h)
  BY <1>3, LeaveMoves DEF EndTurn, GateHasRequest, Request
<1>4. CASE PauseRunForTakeover(h)
  BY <1>4, LeaveMoves DEF PauseRunForTakeover, GateHasRequest, Request
<1>5. CASE Crash(h)
  BY <1>5, LeaveMoves DEF Crash, Fail, GateHasRequest, Request
<1> QED
  BY <1>1, <1>2, <1>3, <1>4, <1>5

\* A call of a tool up to the claim of its effect.
LEMMA TypedGate ==
  ASSUME Typed, NEW h \in Handlers,
         \/ \E q, actual \in Requests : CallTool(h, q, actual)
         \/ RecordEffect(h) \/ ReturnResult(h) \/ FindInterrupted(h)
         \/ NeedApproval(h) \/ RequestApproval(h)
  PROVE  Typed'
<1> USE DEF Typed, TypeOK, tables, past, RunStatuses
<1>1. ASSUME NEW q \in Requests, NEW actual \in Requests, CallTool(h, q, actual)
      PROVE  Typed'
  <2> DEFINE known == IF session[h].loaded THEN session[h].rules ELSE rules
             step  == IF ~HasStableKey(known, ToolOf[q]) THEN "perform"
                      ELSE IF effect[actual] = "none" THEN "missing" ELSE "found"
             next  == [step |-> step, fence |-> session[h].fence, loaded |-> TRUE,
                       rules |-> known, replay |-> session[h].replay \ {actual},
                       replaying |-> session[h].replay # {}, request |-> actual,
                       keyed |-> HasStableKey(known, ToolOf[q]),
                       seen |-> effect[actual]]
  <2>1. known \subseteq Rule /\ HasStableKey(known, ToolOf[q]) \in BOOLEAN
    BY DEF Session, HasStableKey, Asks
  <2>2. session' \in [Handlers -> Session] /\ session'[h].request = actual
    <3>1. /\ step \in Steps
          /\ effect[actual] \in EffectStatuses \cup {"none", "new"}
      BY DEF Steps
    <3>2. next \in Session /\ next.request = actual
      <4> HIDE DEF step, known
      <4> QED
        BY <2>1, <3>1 DEF Session
    <3>3. session' = [session EXCEPT ![h] = next]
      BY <1>1 DEF CallTool
    <3> QED
      BY <3>2, <3>3
  <2>3. \A other \in Handlers : other # h => session'[other] = session[other]
    BY <1>1 DEF CallTool
  <2> QED
    BY <1>1, <2>2, <2>3 DEF CallTool, GateHasRequest, Request
<1>2. CASE RecordEffect(h)
  <2> DEFINE q == Request(h)
  <2>1. q \in Requests
    BY <1>2 DEF RecordEffect, At, GateHasRequest
  <2>2. Cardinality(Rows) \in Nat
    BY GateAssumption, FS_Subset, FS_CardinalityType DEF Rows
  <2>3. CASE effect[q] = "none"
    <3>1. session' \in [Handlers -> Session]
      BY <1>2, <2>3 DEF RecordEffect, Session, Steps
    <3>2. /\ effect' \in [Requests -> EffectStatuses \cup {"none"}]
          /\ created' \in [Requests -> Nat]
      BY <1>2, <2>1, <2>2, <2>3 DEF RecordEffect, EffectStatuses
    <3> QED
      BY <1>2, <2>1, <2>3, <3>1, <3>2 DEF RecordEffect, GateHasRequest, Request, Session
  <2>4. CASE effect[q] # "none"
    BY <1>2, <2>4, GoToMoves DEF RecordEffect, GateHasRequest, Request, Steps
  <2> QED
    BY <2>3, <2>4
<1>3. CASE ReturnResult(h)
  BY <1>3, GoToMoves DEF ReturnResult, GateHasRequest, Request, Steps
<1>4. CASE FindInterrupted(h)
  BY <1>4, GoToMoves DEF FindInterrupted, GateHasRequest, Request, Steps, At
<1>5. CASE NeedApproval(h)
  BY <1>5, GoToMoves, LeaveMoves DEF NeedApproval, GateHasRequest, Request, Steps, At
<1>6. CASE RequestApproval(h)
  <2>1. Request(h) \in Requests
    BY <1>6 DEF RequestApproval, GateHasRequest, At
  <2>2. CASE Holds(h)
    <3>1. card' \in [Requests -> Nat]
      BY <1>6, <2>1, <2>2 DEF RequestApproval
    <3> QED
      BY <1>6, <2>2, <3>1, LeaveMoves DEF RequestApproval, GateHasRequest, Request
  <2>3. CASE ~Holds(h)
    BY <1>6, <2>3, GoToMoves, LeaveMoves
       DEF RequestApproval, GateHasRequest, Request, Steps
  <2> QED
    BY <2>2, <2>3
<1> QED
  BY <1>1, <1>2, <1>3, <1>4, <1>5, <1>6

\* The claim of an effect, the side effect and its record.
LEMMA TypedExecution ==
  ASSUME Typed, NEW h \in Handlers,
         ClaimEffect(h) \/ RereadEffect(h) \/ SettleUncertainEffect(h)
         \/ Perform(h) \/ CompleteExternalEffect(h)
  PROVE  Typed'
<1> USE DEF Typed, TypeOK, tables, past, At
<1>0. Request(h) \in Requests
  BY DEF GateHasRequest, ClaimEffect, RereadEffect, SettleUncertainEffect, Perform,
         CompleteExternalEffect
<1>1. \A s \in EffectStatuses :
        [effect EXCEPT ![Request(h)] = s] \in [Requests -> EffectStatuses \cup {"none"}]
  BY <1>0
<1>2. CASE ClaimEffect(h)
  BY <1>0, <1>1, <1>2, GoToMoves
     DEF ClaimEffect, GateHasRequest, Request, Steps, EffectStatuses
<1>3. CASE RereadEffect(h)
  BY <1>0, <1>3, GoToMoves DEF RereadEffect, GateHasRequest, Request, Steps
<1>4. CASE SettleUncertainEffect(h)
  <2>1. effect' \in [Requests -> EffectStatuses \cup {"none"}]
    BY <1>0, <1>4 DEF SettleUncertainEffect, EffectStatuses
  <2> QED
    BY <1>0, <1>4, <2>1, GoToMoves DEF SettleUncertainEffect, GateHasRequest, Request,
       Steps
<1>5. CASE Perform(h)
  <2>1. performed' \in [Requests -> Nat] /\ replayed' \in [Requests -> Nat]
    BY <1>0, <1>5 DEF Perform
  <2> QED
    BY <1>0, <1>5, <2>1, GoToMoves DEF Perform, GateHasRequest, Request, Steps
<1>6. CASE CompleteExternalEffect(h)
  BY <1>0, <1>1, <1>6, GoToMoves
     DEF CompleteExternalEffect, GateHasRequest, Request, Steps, EffectStatuses
<1> QED
  BY <1>2, <1>3, <1>4, <1>5, <1>6

\* The user and the clock.
LEMMA TypedUser ==
  ASSUME Typed, UserNext \/ ExpireLease
  PROVE  Typed'
<1> USE DEF Typed, TypeOK, tables, past, RunStatuses, GateHasRequest, Request
<1>1. ASSUME NEW q \in Requests, NEW answer \in Answers, AnswerRunInput(q, answer)
      PROVE  Typed'
  <2>1. AlwaysAllow(ToolOf[q]) \in Rule
    BY DEF AlwaysAllow, Rule, Tools
  <2>2. card' \in [Requests -> Nat]
    BY <1>1 DEF AnswerRunInput, MayAnswer
  <2> QED
    BY <1>1, <2>1, <2>2 DEF AnswerRunInput, EffectStatuses
<1>2. CASE ReleaseTakeover
  BY <1>2 DEF ReleaseTakeover
<1>3. CASE CancelRun
  BY <1>3 DEF CancelRun
<1>4. ASSUME NEW r \in UserRules, SetRule(r) PROVE Typed'
  BY <1>4, GateAssumption DEF SetRule
<1>5. ASSUME NEW r \in rules, RemoveRule(r) PROVE Typed'
  BY <1>5 DEF RemoveRule
<1>6. CASE ExpireLease
  <2>1. run' \in [status: RunStatuses, fence: Nat, expired: BOOLEAN]
    BY <1>6 DEF ExpireLease
  <2>2. faults' \in Nat
    BY <1>6 DEF ExpireLease, Fail
  <2> QED
    BY <1>6, <2>1, <2>2 DEF ExpireLease
<1> QED
  BY <1>1, <1>2, <1>3, <1>4, <1>5, <1>6 DEF UserNext

LEMMA TypedNext == Typed /\ [Next]_vars => Typed'
<1> SUFFICES ASSUME Typed, [Next]_vars PROVE Typed'
  OBVIOUS
<1>1. ASSUME NEW h \in Handlers, HandlerNext(h) PROVE Typed'
  BY <1>1, TypedAttempt, TypedGate, TypedExecution DEF HandlerNext, ApplyTool
<1>2. CASE UserNext \/ ExpireLease
  BY <1>2, TypedUser
<1>3. CASE UNCHANGED vars
  BY <1>3 DEF vars, tables, past, Typed, TypeOK, GateHasRequest, Request
<1> QED
  BY <1>1, <1>2, <1>3 DEF Next

\* The type invariant: every row, card and session keeps its type.
THEOREM GateTypeCorrect == Spec => []TypeOK
<1>1. Typed => TypeOK
  BY DEF Typed
<1> QED
  BY <1>1, TypedInit, TypedNext, PTL DEF Spec

---------------------------------------------------------------------------
(* The record of an effect.                                                *)

\* What holds of executions when a handler moves and ends up outside them.
Outside(h) == session[h].step \in {"perform", "performed"} => ~session[h].keyed

LEMMA MoveOutside ==
  ASSUME NEW h \in Handlers, Outside(h)',
         \A other \in Handlers : other # h => session'[other] = session[other],
         NEW x \in Handlers, NEW q \in Requests, x \in Executing(q)'
  PROVE  x # h /\ x \in Executing(q) /\ (At(x, "performed")' <=> At(x, "performed"))
<1>1. x # h
  BY DEF Executing, Outside
<1> QED
  BY <1>1 DEF Executing, At, Request

LEMMA QuietMove ==
  ASSUME ExecutionIsOwned, RowTellsTheTruth, UNCHANGED <<effect, performed>>,
         NEW h \in Handlers, Outside(h)',
         \A other \in Handlers : other # h => session'[other] = session[other]
  PROVE  ExecutionIsOwned' /\ RowTellsTheTruth'
<1>1. \A x \in Handlers, q \in Requests : x \in Executing(q)' =>
        x \in Executing(q) /\ (At(x, "performed")' <=> At(x, "performed"))
  BY MoveOutside
<1> QED
  BY <1>1, QuietStep

Honest == ExecutionIsOwned /\ RowTellsTheTruth

LEMMA HonestAttempt ==
  ASSUME Typed, Honest, NEW h \in Handlers,
         ClaimRun(h) \/ LoadReplays(h) \/ EndTurn(h) \/ PauseRunForTakeover(h)
         \/ Crash(h)
  PROVE  Honest'
<1>1. UNCHANGED <<effect, performed>>
  BY DEF ClaimRun, LoadReplays, EndTurn, PauseRunForTakeover, Crash, tables, past
<1>2. \A other \in Handlers : other # h => session'[other] = session[other]
  BY DEF ClaimRun, LoadReplays, EndTurn, PauseRunForTakeover, Crash, Leave, Typed,
     TypeOK
<1>3. session'[h].step \in {"claimed", "turn", "idle"}
  BY LeaveMoves DEF ClaimRun, LoadReplays, EndTurn, PauseRunForTakeover, Crash, Typed,
     TypeOK, Session
<1> QED
  BY <1>1, <1>2, <1>3, QuietMove DEF Outside, Honest

LEMMA HonestGate ==
  ASSUME Typed, Honest, NEW h \in Handlers,
         \/ \E q, actual \in Requests : CallTool(h, q, actual)
         \/ ReturnResult(h) \/ FindInterrupted(h) \/ NeedApproval(h)
         \/ RequestApproval(h) \/ RereadEffect(h)
  PROVE  Honest'
<1>1. UNCHANGED <<effect, performed>>
  BY DEF CallTool, ReturnResult, FindInterrupted, NeedApproval, RequestApproval,
     RereadEffect, tables, past
<1>2. /\ \A other \in Handlers : other # h => session'[other] = session[other]
      /\ Outside(h)'
  <2>1. ASSUME NEW q \in Requests, NEW actual \in Requests, CallTool(h, q, actual)
        PROVE  <1>2!1 /\ <1>2!2
    <3> DEFINE known == IF session[h].loaded THEN session[h].rules ELSE rules
    <3>1. /\ session'[h].keyed = HasStableKey(known, ToolOf[q])
          /\ HasStableKey(known, ToolOf[q]) =>
               session'[h].step \in {"missing", "found"}
      BY <2>1 DEF CallTool, Typed, TypeOK
    <3> QED
      BY <2>1, <3>1 DEF CallTool, Outside, Typed, TypeOK
  <2>2. CASE ReturnResult(h)
    BY <2>2, GoToMoves DEF ReturnResult, Outside, Typed, TypeOK, Steps
  <2>3. CASE FindInterrupted(h)
    BY <2>3, GoToMoves DEF FindInterrupted, Outside, Typed, TypeOK, Steps
  <2>4. CASE NeedApproval(h)
    BY <2>4, GoToMoves, LeaveMoves DEF NeedApproval, Outside, Typed, TypeOK, Steps
  <2>5. CASE RequestApproval(h)
    BY <2>5, GoToMoves, LeaveMoves DEF RequestApproval, Outside, Typed, TypeOK, Steps
  <2>6. CASE RereadEffect(h)
    BY <2>6, GoToMoves DEF RereadEffect, Outside, Typed, TypeOK, Steps
  <2> QED
    BY <2>1, <2>2, <2>3, <2>4, <2>5, <2>6
<1> QED
  BY <1>1, <1>2, QuietMove DEF Honest

\* A row is created for a request that never ran.
LEMMA HonestRecord ==
  ASSUME Typed, Honest, NEW h \in Handlers, RecordEffect(h)
  PROVE  Honest'
<1> DEFINE q == Request(h)
<1>1. q \in Requests
  BY DEF Typed, GateHasRequest, RecordEffect, At
<1>2. /\ session'[h].step \in {"found", "turn"}
      /\ \A other \in Handlers : other # h => session'[other] = session[other]
  BY GoToMoves DEF RecordEffect, Typed, TypeOK, Steps, Session
<1>3. Outside(h)'
  BY <1>2 DEF Outside
<1>4. CASE effect[q] # "none"
  BY <1>2, <1>3, <1>4, QuietMove DEF RecordEffect, past, Honest
<1>5. CASE effect[q] = "none"
  <2>1. /\ \A p \in Requests : p # q => effect'[p] = effect[p]
        /\ effect'[q] = "intended" /\ performed' = performed
    BY <1>1, <1>5 DEF RecordEffect, past, Typed, TypeOK
  <2>2. \A x \in Handlers, p \in Requests : x \in Executing(p)' =>
          x \in Executing(p) /\ (At(x, "performed")' <=> At(x, "performed"))
    BY <1>2, <1>3, MoveOutside
  <2>3. \A x \in Handlers : x \notin Executing(q)
    BY <1>1, <1>5 DEF Honest, ExecutionIsOwned
  <2>4. ExecutionIsOwned'
    BY <2>1, <2>2, <2>3 DEF Honest, ExecutionIsOwned
  <2>5. \A p \in Requests : Executing(p) = {} => Executing(p)' = {}
    BY <2>2 DEF Executing
  <2>6. RowTellsTheTruth'
    BY <1>1, <1>5, <2>1, <2>5 DEF Honest, RowTellsTheTruth
  <2> QED
    BY <2>4, <2>6 DEF Honest
<1> QED
  BY <1>4, <1>5

\* The claim: from then on the row belongs to the handler.
LEMMA HonestClaim ==
  ASSUME Typed, Honest, GateIsKeyed, NEW h \in Handlers, ClaimEffect(h)
  PROVE  Honest'
<1> DEFINE q == Request(h)
<1>1. q \in Requests /\ session[h].keyed
  BY DEF Typed, GateHasRequest, GateIsKeyed, ClaimEffect, At
<1>2. CASE ~Claims(h)
  <2>1. /\ session'[h].step = "lost"
        /\ \A other \in Handlers : other # h => session'[other] = session[other]
    BY <1>2, GoToMoves DEF ClaimEffect, Typed, TypeOK, Steps
  <2> QED
    BY <1>2, <2>1, QuietMove DEF ClaimEffect, past, Honest, Outside
<1>3. CASE Claims(h)
  <2>1. /\ session'[h].step = "perform" /\ session'[h].request = q /\ session'[h].keyed
        /\ \A other \in Handlers : other # h => session'[other] = session[other]
    BY <1>1, <1>3, GoToMoves DEF ClaimEffect, Typed, TypeOK, Steps, Request
  <2>2. /\ \A p \in Requests : p # q => effect'[p] = effect[p]
        /\ effect'[q] = "executing" /\ performed' = performed
    BY <1>1, <1>3 DEF ClaimEffect, past, Typed, TypeOK
  <2>3. effect[q] \in {"intended", "approved"}
    BY <1>3 DEF Claims
  <2>4. performed[q] = 0 /\ \A x \in Handlers : x \notin Executing(q)
    BY <1>1, <2>3 DEF Honest, RowTellsTheTruth, ExecutionIsOwned
  <2>5. \A x \in Handlers, p \in Requests : x \in Executing(p)' =>
          \/ x = h /\ p = q
          \/ x \in Executing(p) /\ (At(x, "performed")' <=> At(x, "performed"))
    BY <2>1 DEF Executing, At, Request
  <2>6. ~At(h, "performed")'
    BY <2>1 DEF At
  <2>7. ExecutionIsOwned'
    BY <1>1, <2>2, <2>4, <2>5, <2>6 DEF Honest, ExecutionIsOwned
  <2>8. \A p \in Requests : p # q /\ Executing(p) = {} => Executing(p)' = {}
    BY <2>5 DEF Executing
  <2>9. RowTellsTheTruth'
    BY <1>1, <2>2, <2>4, <2>8 DEF Honest, RowTellsTheTruth
  <2> QED
    BY <2>7, <2>9 DEF Honest
<1> QED
  BY <1>2, <1>3

LEMMA HonestSettle ==
  ASSUME Typed, Honest, NEW h \in Handlers, SettleUncertainEffect(h)
  PROVE  Honest'
<1> DEFINE q == Request(h)
<1>1. q \in Requests
  BY DEF Typed, GateHasRequest, SettleUncertainEffect, At
<1>2. /\ session'[h].step = "turn"
      /\ \A other \in Handlers : other # h => session'[other] = session[other]
  BY GoToMoves DEF SettleUncertainEffect, Typed, TypeOK, Steps
<1>3. Outside(h)'
  BY <1>2 DEF Outside
<1>4. /\ \A p \in Requests : \/ effect'[p] = effect[p]
                             \/ effect[p] = "executing" /\ effect'[p] = "uncertain"
      /\ performed' = performed
  BY <1>1 DEF SettleUncertainEffect, past, Typed, TypeOK
<1>5. \A x \in Handlers, p \in Requests : x \in Executing(p)' =>
        x \in Executing(p) /\ (At(x, "performed")' <=> At(x, "performed"))
  BY <1>2, <1>3, MoveOutside
<1>6. ExecutionIsOwned'
  BY <1>4, <1>5 DEF Honest, ExecutionIsOwned
<1>7. \A p \in Requests : Executing(p) = {} => Executing(p)' = {}
  BY <1>5 DEF Executing
<1>8. RowTellsTheTruth'
  BY <1>4, <1>7 DEF Honest, RowTellsTheTruth
<1> QED
  BY <1>6, <1>8 DEF Honest

\* The side effect happens under a row that no other handler runs.
LEMMA HonestPerform ==
  ASSUME Typed, Honest, NEW h \in Handlers, Perform(h)
  PROVE  Honest'
<1> DEFINE q == Request(h)
<1>1. q \in Requests
  BY DEF Typed, GateHasRequest, Perform, At
<1>2. /\ session'[h].step = "performed" /\ session'[h].request = q
      /\ session'[h].keyed = session[h].keyed
      /\ \A other \in Handlers : other # h => session'[other] = session[other]
  BY GoToMoves DEF Perform, Typed, TypeOK, Steps, Request
<1>3. effect' = effect
  BY DEF Perform, tables
<1>4. CASE ~session[h].keyed
  <2>1. performed' = performed
    BY <1>1, <1>4 DEF Perform, Typed, TypeOK
  <2> QED
    BY <1>2, <1>3, <1>4, <2>1, QuietMove DEF Honest, Outside
<1>5. CASE session[h].keyed
  <2>1. h \in Executing(q) /\ ~At(h, "performed")
    BY <1>5 DEF Executing, Perform, At
  <2>2. /\ effect[q] \in {"executing", "uncertain"} /\ performed[q] = 0
        /\ \A other \in Handlers : other \in Executing(q) => other = h
    BY <1>1, <2>1 DEF Honest, ExecutionIsOwned
  <2>3. /\ \A p \in Requests : p # q => performed'[p] = performed[p]
        /\ performed'[q] = 1
    BY <1>1, <1>5, <2>2 DEF Perform, Typed, TypeOK
  <2>4. \A x \in Handlers, p \in Requests : x \in Executing(p)' =>
          \/ x = h /\ p = q
          \/ x # h /\ x \in Executing(p) /\ (At(x, "performed")' <=> At(x, "performed"))
    BY <1>2 DEF Executing, At, Request
  <2>5. At(h, "performed")'
    BY <1>2 DEF At
  <2>6. ExecutionIsOwned'
    BY <1>1, <1>3, <2>2, <2>3, <2>4, <2>5 DEF Honest, ExecutionIsOwned
  <2>7. \A p \in Requests : p # q /\ Executing(p) = {} => Executing(p)' = {}
    BY <2>4 DEF Executing
  <2>8. RowTellsTheTruth'
    BY <1>1, <1>3, <2>2, <2>3, <2>7 DEF Honest, RowTellsTheTruth
  <2> QED
    BY <2>6, <2>8 DEF Honest
<1> QED
  BY <1>4, <1>5

LEMMA HonestComplete ==
  ASSUME Typed, Honest, NEW h \in Handlers, CompleteExternalEffect(h)
  PROVE  Honest'
<1> DEFINE q == Request(h)
<1>1. q \in Requests
  BY DEF Typed, GateHasRequest, CompleteExternalEffect, At
<1>2. /\ session'[h].step = "turn"
      /\ \A other \in Handlers : other # h => session'[other] = session[other]
  BY GoToMoves DEF CompleteExternalEffect, Typed, TypeOK, Steps
<1>3. Outside(h)' /\ performed' = performed
  BY <1>2 DEF Outside, CompleteExternalEffect, past
<1>4. CASE ~Completes(h)
  BY <1>2, <1>3, <1>4, QuietMove DEF CompleteExternalEffect, Honest
<1>5. CASE Completes(h)
  <2>1. h \in Executing(q) /\ At(h, "performed")
    BY <1>5 DEF Completes, Executing, CompleteExternalEffect, At
  <2>2. performed[q] = 1 /\ \A other \in Handlers : other \in Executing(q) => other = h
    BY <1>1, <2>1 DEF Honest, ExecutionIsOwned
  <2>3. /\ \A p \in Requests : p # q => effect'[p] = effect[p]
        /\ effect'[q] = "completed"
    BY <1>1, <1>5 DEF CompleteExternalEffect, Typed, TypeOK
  <2>4. \A x \in Handlers, p \in Requests : x \in Executing(p)' =>
          x # h /\ x \in Executing(p) /\ (At(x, "performed")' <=> At(x, "performed"))
    BY <1>2, <1>3, MoveOutside
  <2>5. \A p \in Requests : p = q => Executing(p)' = {}
    <3> SUFFICES ASSUME NEW p \in Requests, p = q, NEW x \in Executing(p)'
                 PROVE  FALSE
      OBVIOUS
    <3>1. x \in Handlers
      BY DEF Executing
    <3> QED
      BY <2>2, <2>4, <3>1
  <2>6. ExecutionIsOwned'
    BY <1>3, <2>2, <2>3, <2>4 DEF Honest, ExecutionIsOwned
  <2>7. \A p \in Requests : Executing(p) = {} => Executing(p)' = {}
    BY <2>4 DEF Executing
  <2>8. RowTellsTheTruth'
    BY <1>1, <1>3, <2>2, <2>3, <2>5, <2>7 DEF Honest, RowTellsTheTruth
  <2> QED
    BY <2>6, <2>8 DEF Honest
<1> QED
  BY <1>4, <1>5

LEMMA HonestUser ==
  ASSUME Typed, Honest, UserNext \/ ExpireLease
  PROVE  Honest'
<1>1. session' = session /\ performed' = performed
  BY DEF UserNext, AnswerRunInput, ReleaseTakeover, CancelRun, SetRule, RemoveRule,
     ExpireLease, past
<1>2. \A p \in Requests : \/ effect'[p] = effect[p]
                          \/ effect[p] = "intended" /\ effect'[p] \in {"approved", "denied"}
  BY DEF UserNext, AnswerRunInput, MayAnswer, ReleaseTakeover, CancelRun, SetRule,
     RemoveRule, ExpireLease, Typed, TypeOK
<1>3. \A p \in Requests : Executing(p)' = Executing(p)
  BY <1>1 DEF Executing, Request
<1>4. \A x \in Handlers : At(x, "performed")' <=> At(x, "performed")
  BY <1>1 DEF At
<1>5. ExecutionIsOwned'
  BY <1>1, <1>2, <1>3, <1>4 DEF Honest, ExecutionIsOwned
<1>6. RowTellsTheTruth'
  BY <1>1, <1>2, <1>3 DEF Honest, RowTellsTheTruth
<1> QED
  BY <1>5, <1>6 DEF Honest

---------------------------------------------------------------------------
(* Keys and approvals.                                                     *)

LEMMA KeyedNext ==
  ASSUME Typed, GateIsKeyed, [Next]_vars
  PROVE  GateIsKeyed'
<1> USE DEF GateIsKeyed
<1>1. ASSUME NEW h \in Handlers, HandlerNext(h) PROVE GateIsKeyed'
  <2> USE DEF Typed, TypeOK
  <2>1. ASSUME NEW q \in Requests, NEW actual \in Requests, CallTool(h, q, actual)
        PROVE  GateIsKeyed'
    <3> DEFINE known == IF session[h].loaded THEN session[h].rules ELSE rules
    <3>1. /\ session'[h].keyed = HasStableKey(known, ToolOf[q])
          /\ ~HasStableKey(known, ToolOf[q]) => session'[h].step = "perform"
      BY <2>1 DEF CallTool
    <3> QED
      BY <2>1, <3>1 DEF CallTool
  <2>2. CASE RecordEffect(h)
    <3>1. /\ session'[h].keyed = session[h].keyed /\ session[h].step = "missing"
          /\ \A other \in Handlers : other # h => session'[other] = session[other]
      BY <2>2, GoToMoves DEF RecordEffect, At, Steps, Session
    <3> QED
      BY <3>1
  <2>3. CASE ReturnResult(h)
    BY <2>3, GoToMoves DEF ReturnResult, Steps
  <2>4. CASE FindInterrupted(h) \/ NeedApproval(h) \/ RequestApproval(h)
    BY <2>4, GoToMoves, LeaveMoves DEF FindInterrupted, NeedApproval, RequestApproval,
       At, Steps
  <2>5. CASE ClaimEffect(h) \/ RereadEffect(h) \/ SettleUncertainEffect(h)
    BY <2>5, GoToMoves DEF ClaimEffect, RereadEffect, SettleUncertainEffect, At, Steps
  <2>6. CASE Perform(h) \/ CompleteExternalEffect(h)
    BY <2>6, GoToMoves DEF Perform, CompleteExternalEffect, Steps
  <2>7. CASE ClaimRun(h) \/ LoadReplays(h)
    BY SMTT(30), <2>7 DEF ClaimRun, LoadReplays, Session
  <2>8. CASE EndTurn(h) \/ PauseRunForTakeover(h) \/ Crash(h)
    BY <2>8, LeaveMoves DEF EndTurn, PauseRunForTakeover, Crash
  <2> QED
    BY <1>1, <2>1, <2>2, <2>3, <2>4, <2>5, <2>6, <2>7, <2>8 DEF HandlerNext, ApplyTool
<1>2. CASE UserNext \/ ExpireLease
  BY <1>2 DEF UserNext, AnswerRunInput, ReleaseTakeover, CancelRun, SetRule, RemoveRule,
     ExpireLease
<1>3. CASE UNCHANGED vars
  BY <1>3 DEF vars
<1> QED
  BY <1>1, <1>2, <1>3 DEF Next

Approved == ApprovalIsGiven /\ AskedIsAllowed

LEMMA ApprovedNext ==
  ASSUME Typed, Approved, [Next]_vars
  PROVE  Approved'
<1> USE DEF Approved, ApprovalIsGiven, AskedIsAllowed, AsksFor, Request, At
<1>1. ASSUME NEW h \in Handlers, HandlerNext(h) PROVE Approved'
  <2> USE DEF Typed, TypeOK, past
  <2>0. allowed' = allowed
    BY <1>1 DEF HandlerNext, ApplyTool, ClaimRun, LoadReplays, EndTurn, Crash,
       PauseRunForTakeover, CallTool, RecordEffect, ReturnResult, FindInterrupted,
       NeedApproval, RequestApproval, ClaimEffect, RereadEffect,
       SettleUncertainEffect, Perform, CompleteExternalEffect
  <2>1. ASSUME NEW q \in Requests, NEW actual \in Requests, CallTool(h, q, actual)
        PROVE  Approved'
    <3> DEFINE known == IF session[h].loaded THEN session[h].rules ELSE rules
    <3>1. /\ session'[h].request = actual /\ session'[h].rules = known
          /\ session'[h].seen = effect[actual] /\ ToolOf[actual] = ToolOf[q]
          /\ session'[h].step = "perform" => ~Asks(known, ToolOf[q])
          /\ \A other \in Handlers : other # h => session'[other] = session[other]
          /\ effect' = effect
      BY <2>1 DEF CallTool, StandsFor, HasStableKey, tables
    <3> QED
      BY <2>0, <3>1
  <2>2. CASE RecordEffect(h)
    <3>1. /\ session'[h].step \in {"found", "turn"}
          /\ session'[h].step = "found" => session'[h].seen = "new"
          /\ \A other \in Handlers : other # h => session'[other] = session[other]
      BY <2>2, GoToMoves DEF RecordEffect, Steps, Session
    <3>2. \A q \in Requests : effect'[q] = "approved" => effect[q] = "approved"
      BY <2>2 DEF RecordEffect
    <3> QED
      BY <2>0, <3>1, <3>2
  <2>3. CASE ReturnResult(h) \/ FindInterrupted(h) \/ RereadEffect(h)
    BY <2>0, <2>3, GoToMoves DEF ReturnResult, FindInterrupted, RereadEffect, Steps,
       tables
  <2>4. CASE NeedApproval(h) \/ RequestApproval(h)
    BY <2>0, <2>4, GoToMoves, LeaveMoves DEF NeedApproval, RequestApproval, Steps,
       tables
  <2>5. CASE ClaimEffect(h)
    <3>1. \A q \in Requests : effect'[q] = "approved" => effect[q] = "approved"
      BY <2>5 DEF ClaimEffect
    <3>2. /\ session'[h].step \in {"perform", "lost"}
          /\ session'[h].request = session[h].request
          /\ session'[h].rules = session[h].rules
          /\ \A other \in Handlers : other # h => session'[other] = session[other]
      BY <2>5, GoToMoves DEF ClaimEffect, Steps
    <3>3. (session[h].seen = "approved" /\ session[h].step = "found") \/ ~AsksFor(h)
      BY <2>5 DEF ClaimEffect
    <3> QED
      BY <2>0, <3>1, <3>2, <3>3
  <2>6. CASE SettleUncertainEffect(h) \/ CompleteExternalEffect(h)
    <3>1. \A q \in Requests : effect'[q] = "approved" => effect[q] = "approved"
      BY <2>6 DEF SettleUncertainEffect, CompleteExternalEffect
    <3> QED
      BY <2>0, <2>6, <3>1, GoToMoves DEF SettleUncertainEffect,
         CompleteExternalEffect, Steps
  <2>7. CASE Perform(h)
    BY <2>0, <2>7, GoToMoves DEF Perform, Steps, tables
  <2>8. CASE ClaimRun(h) \/ LoadReplays(h)
    <3>1. /\ session'[h].step \in {"claimed", "turn"} /\ effect' = effect
          /\ \A other \in Handlers : other # h => session'[other] = session[other]
      BY <2>8 DEF ClaimRun, LoadReplays, Session, tables
    <3> QED
      BY <2>0, <3>1
  <2>9. CASE EndTurn(h) \/ PauseRunForTakeover(h) \/ Crash(h)
    BY <2>0, <2>9, LeaveMoves DEF EndTurn, PauseRunForTakeover, Crash, tables
  <2> QED
    BY <1>1, <2>1, <2>2, <2>3, <2>4, <2>5, <2>6, <2>7, <2>8, <2>9
       DEF HandlerNext, ApplyTool
<1>2. CASE UserNext \/ ExpireLease
  <2>1. session' = session
    BY <1>2 DEF UserNext, AnswerRunInput, ReleaseTakeover, CancelRun, SetRule,
       RemoveRule,
       ExpireLease
  <2>2. /\ allowed \subseteq allowed'
        /\ \A q \in Requests : effect'[q] = "approved" =>
             effect[q] = "approved" \/ q \in allowed'
    BY <1>2 DEF UserNext, AnswerRunInput, ReleaseTakeover, CancelRun, SetRule,
       RemoveRule,
       ExpireLease, past, Typed, TypeOK
  <2> QED
    BY <2>1, <2>2
<1>3. CASE UNCHANGED vars
  BY <1>3 DEF vars, tables, past
<1> QED
  BY <1>1, <1>2, <1>3 DEF Next

---------------------------------------------------------------------------
(* The theorems.                                                           *)

GateInv == Typed /\ Honest /\ GateIsKeyed /\ Approved

LEMMA GateInvInit == Init => GateInv
<1> SUFFICES ASSUME Init PROVE GateInv
  OBVIOUS
<1>1. \A h \in Handlers : session[h] = Idle
  BY DEF Init
<1>2. Honest
  BY <1>1 DEF Honest, ExecutionIsOwned, RowTellsTheTruth, Executing, Init, Idle
<1>3. GateIsKeyed /\ Approved
  BY <1>1 DEF GateIsKeyed, Approved, ApprovalIsGiven, AskedIsAllowed, At, Init, Idle
<1> QED
  BY <1>2, <1>3, TypedInit DEF GateInv

LEMMA GateInvNext == GateInv /\ [Next]_vars => GateInv'
<1> SUFFICES ASSUME GateInv, [Next]_vars PROVE GateInv'
  OBVIOUS
<1>1. Typed /\ Honest /\ GateIsKeyed /\ Approved
  BY DEF GateInv
<1>2. Honest'
  <2>1. ASSUME NEW h \in Handlers, HandlerNext(h) PROVE Honest'
    BY <1>1, <2>1, HonestAttempt, HonestGate, HonestRecord, HonestClaim, HonestSettle,
       HonestPerform, HonestComplete DEF HandlerNext, ApplyTool
  <2>2. CASE UserNext \/ ExpireLease
    BY <1>1, <2>2, HonestUser
  <2>3. CASE UNCHANGED vars
    <3>1. /\ UNCHANGED <<effect, performed>>
          /\ \A h \in Handlers, q \in Requests : h \in Executing(q)' =>
               h \in Executing(q) /\ (At(h, "performed")' <=> At(h, "performed"))
      BY <2>3 DEF vars, tables, past, Executing, Request, At
    <3> QED
      BY <1>1, <3>1, QuietStep DEF Honest
  <2> QED
    BY <2>1, <2>2, <2>3 DEF Next
<1> QED
  BY <1>1, <1>2, TypedNext, KeyedNext, ApprovedNext DEF GateInv

\* However handlers crash, stall and overtake each other between a side effect
\* and its row, a keyed request runs at most once and its row never lies
\* about it.
THEOREM RecordsAreHonest == Spec => []RecordIsHonest
<1>1. GateInv => RecordIsHonest
  BY DEF GateInv, Honest, ExecutionIsOwned, RowTellsTheTruth, RecordIsHonest, Executing
<1> QED
  BY <1>1, GateInvInit, GateInvNext, PTL DEF Spec

\* Whatever rules the user sets and removes meanwhile, a handler only runs a
\* request that its rules ask for after the user has allowed it.
THEOREM AskedRequestsAreAllowed == Spec => []AskedIsAllowed
<1>1. GateInv => AskedIsAllowed
  BY DEF GateInv, Approved
<1> QED
  BY <1>1, GateInvInit, GateInvNext, PTL DEF Spec

\* A denied, completed or uncertain effect is never reopened.
THEOREM SettledEffectsAreFinal == Spec => SettledIsFinal
<1> DEFINE Final == \A q \in Requests :
                      effect[q] \in {"denied", "completed", "uncertain"}
                        => effect'[q] = effect[q]
<1>1. ASSUME Typed, [Next]_vars PROVE Final
  <2> USE DEF Typed, TypeOK
  <2>1. ASSUME NEW h \in Handlers, HandlerNext(h) PROVE Final
    <3>1. CASE RecordEffect(h) \/ ClaimEffect(h)
      <4>1. \A q \in Requests : \/ effect'[q] = effect[q]
                                \/ effect[q] \in {"none", "intended", "approved"}
        BY <1>1, <3>1 DEF RecordEffect, ClaimEffect, Claims
      <4> QED
        BY <4>1
    <3>2. CASE SettleUncertainEffect(h) \/ CompleteExternalEffect(h)
      <4>1. \A q \in Requests : effect'[q] = effect[q] \/ effect[q] = "executing"
        BY <1>1, <3>2 DEF SettleUncertainEffect, CompleteExternalEffect, Completes
      <4> QED
        BY <4>1
    <3>3. CASE ~(RecordEffect(h) \/ ClaimEffect(h) \/ SettleUncertainEffect(h)
                 \/ CompleteExternalEffect(h))
      BY <2>1, <3>3 DEF HandlerNext, ApplyTool, ClaimRun, LoadReplays, EndTurn, Crash,
         PauseRunForTakeover, CallTool, ReturnResult, FindInterrupted, NeedApproval,
         RequestApproval, RereadEffect, Perform, tables
    <3> QED
      BY <3>1, <3>2, <3>3
  <2>2. CASE UserNext \/ ExpireLease
    <3>1. \A q \in Requests : effect'[q] = effect[q] \/ effect[q] = "intended"
      BY <1>1, <2>2 DEF UserNext, AnswerRunInput, MayAnswer, ReleaseTakeover, CancelRun,
         SetRule, RemoveRule, ExpireLease
    <3> QED
      BY <3>1
  <2>3. CASE UNCHANGED vars
    BY <2>3 DEF vars, tables
  <2> QED
    BY <1>1, <2>1, <2>2, <2>3 DEF Next
<1> QED
  BY <1>1, TypedInit, TypedNext, PTL DEF Spec, SettledIsFinal

---------------------------------------------------------------------------
(* While the rules do not change.  Every handler then judges a call by the *)
(* same rules, so all agree on which calls have a stable key and which ask *)
(* for a card.                                                             *)

InGate(h) == session[h].step \notin {"idle", "claimed", "turn"}

\* A handler in the gate has read the rules, which have not changed since.
RulesAreLoaded ==
  \A h \in Handlers :
    /\ InGate(h) => session[h].loaded
    /\ changes = 0 /\ session[h].loaded => session[h].rules = rules

Stable(q) == HasStableKey(rules, ToolOf[q])

\* Only calls with a stable key have rows, so a replayed request runs under
\* its row.
ReplaysAreKeyed ==
  changes = 0 =>
    /\ \A q \in Requests : /\ effect[q] # "none" => Stable(q)
                           /\ replayed[q] <= performed[q]
    /\ \A h \in Handlers :
         /\ \A q \in session[h].replay : Stable(q)
         /\ At(h, "missing") => Stable(Request(h))
         /\ At(h, "perform") /\ session[h].replaying => session[h].keyed

\* A handler that is going to pause the run for a card, and still may.
Pauses(h) ==
  /\ AsksFor(h) /\ Holds(h)
  /\ \/ At(h, "found") /\ session[h].seen \in {"new", "intended"}
     \/ At(h, "asking")

\* The effect it pauses for is intended, and nobody claims an intended effect
\* that asks for a card.
CardsAreAsked ==
  /\ \A h \in Handlers : session[h].fence <= run.fence
  /\ \A h \in Handlers : At(h, "asking") => AsksFor(h)
  /\ changes = 0 =>
       /\ \A h \in Handlers : Pauses(h) => effect[Request(h)] = "intended"
       /\ run.status = "waiting_input" =>
            \E q \in Requests : MayAnswer(q) /\ Asks(rules, ToolOf[q])

\* How a handler moves inside the gate: it stays with its request.
Stays(h) ==
  /\ InGate(h)
  /\ session'[h].request = session[h].request /\ session'[h].keyed = session[h].keyed
  /\ session'[h].rules = session[h].rules /\ session'[h].fence = session[h].fence
  /\ session'[h].loaded = session[h].loaded /\ session'[h].replay = session[h].replay
  /\ session'[h].replaying = session[h].replaying
  /\ session'[h].step # "missing"
  /\ session'[h].step = "found" => RecordEffect(h) /\ effect'[Request(h)] = "intended"
  /\ session'[h].step = "asking" => NeedApproval(h) /\ session'[h].seen = session[h].seen
  /\ session'[h].step = "perform" => ClaimEffect(h)

LEMMA HandlerMoves ==
  ASSUME Typed, NEW h \in Handlers, HandlerNext(h)
  PROVE  /\ UNCHANGED <<rules, changes>>
         /\ \A other \in Handlers : other # h => session'[other] = session[other]
         /\ \/ \E q, actual \in Requests : CallTool(h, q, actual)
            \/ session'[h] = Idle
            \/ ClaimRun(h) \/ LoadReplays(h) \/ Stays(h)
<1> DEFINE Goal == /\ UNCHANGED <<rules, changes>>
                   /\ \A other \in Handlers : other # h => session'[other] = session[other]
                   /\ \/ \E q, actual \in Requests : CallTool(h, q, actual)
                      \/ session'[h] = Idle
                      \/ ClaimRun(h) \/ LoadReplays(h) \/ Stays(h)
<1> SUFFICES Goal OBVIOUS
<1>0. session \in [Handlers -> Session] /\ effect \in [Requests -> EffectStatuses \cup {"none"}]
  BY DEF Typed, TypeOK
<1>1. UNCHANGED <<rules, changes>>
  BY DEF HandlerNext, ApplyTool, ClaimRun, LoadReplays, EndTurn, Crash,
     PauseRunForTakeover, CallTool, RecordEffect, ReturnResult, FindInterrupted,
     NeedApproval, RequestApproval, ClaimEffect, RereadEffect, SettleUncertainEffect,
     Perform, CompleteExternalEffect, tables
<1>2. ASSUME Leave(h) PROVE Goal BY <1>0, <1>1, <1>2, LeaveMoves DEF Leave
<1>3. ASSUME NEW step \in Steps \ {"missing", "found"}, GoTo(h, step), InGate(h),
             step = "asking" => NeedApproval(h), step = "perform" => ClaimEffect(h)
      PROVE  Goal
  BY <1>0, <1>1, <1>3, GoToMoves DEF Stays
<1> USE DEF Steps, InGate, At
<1>4. CASE \E q, actual \in Requests : CallTool(h, q, actual)
  BY <1>0, <1>1, <1>4 DEF CallTool
<1>5. CASE ClaimRun(h) \/ LoadReplays(h)
  BY <1>0, <1>1, <1>5 DEF ClaimRun, LoadReplays
<1>6. CASE RecordEffect(h)
  <2>1. CASE effect[Request(h)] = "none"
    <3>1. Request(h) \in Requests BY <1>6 DEF RecordEffect, Typed, GateHasRequest
    <3>2. session' = [session EXCEPT ![h] = [session[h] EXCEPT !.step = "found", !.seen = "new"]]
          /\ effect'[Request(h)] = "intended" /\ InGate(h)
      BY <1>0, <1>6, <2>1, <3>1 DEF RecordEffect
    <3>3. Stays(h) BY <1>0, <1>6, <3>2 DEF Stays, Session
    <3> QED BY <1>0, <1>1, <3>2, <3>3
  <2>2. CASE effect[Request(h)] # "none"
    BY <1>3, <1>6, <2>2 DEF RecordEffect
  <2> QED BY <2>1, <2>2
<1> HIDE DEF Goal
<1>7. CASE ReturnResult(h) BY <1>3, <1>7 DEF ReturnResult
<1>8. CASE FindInterrupted(h) BY <1>3, <1>8 DEF FindInterrupted
<1>9. CASE NeedApproval(h)
  <2>1. InGate(h) /\ (Leave(h) \/ GoTo(h, "asking")) BY <1>9 DEF NeedApproval
  <2> QED BY <1>2, <1>3, <1>9, <2>1
<1>10. CASE RequestApproval(h)
  <2>1. InGate(h) /\ (Leave(h) \/ GoTo(h, "turn")) BY <1>10 DEF RequestApproval
  <2> QED BY <1>2, <1>3, <2>1
<1>11. CASE ClaimEffect(h)
  <2>1. InGate(h) /\ (GoTo(h, "perform") \/ GoTo(h, "lost")) BY <1>11 DEF ClaimEffect
  <2> QED BY <1>3, <1>11, <2>1
<1>12. CASE RereadEffect(h)
  <2>1. InGate(h) /\ (GoTo(h, "settling") \/ GoTo(h, "turn")) BY <1>12 DEF RereadEffect
  <2> QED BY <1>3, <2>1
<1>13. CASE SettleUncertainEffect(h) BY <1>3, <1>13 DEF SettleUncertainEffect
<1>14. CASE Perform(h) BY <1>3, <1>14 DEF Perform
<1>15. CASE CompleteExternalEffect(h) BY <1>3, <1>15 DEF CompleteExternalEffect
<1>16. CASE EndTurn(h) \/ PauseRunForTakeover(h) \/ Crash(h)
  BY <1>2, <1>16 DEF EndTurn, PauseRunForTakeover, Crash
<1> QED
  BY <1>4, <1>5, <1>6, <1>7, <1>8, <1>9, <1>10, <1>11, <1>12, <1>13, <1>14, <1>15, <1>16
     DEF HandlerNext, ApplyTool

\* What a handler does to the rows: it creates one, claims one, or ends an
\* execution.
LEMMA EffectMoves ==
  ASSUME Typed, NEW h \in Handlers, HandlerNext(h), NEW q \in Requests,
         effect'[q] # effect[q]
  PROVE  \/ RecordEffect(h) /\ q = Request(h) /\ effect[q] = "none"
         \/ ClaimEffect(h) /\ q = Request(h) /\ Claims(h)
         \/ effect[q] = "executing" /\ effect'[q] # "none"
<1> USE DEF Typed, TypeOK
<1>1. CASE RecordEffect(h) BY <1>1 DEF RecordEffect
<1>2. CASE ClaimEffect(h) BY <1>2 DEF ClaimEffect
<1>3. CASE SettleUncertainEffect(h) BY <1>3 DEF SettleUncertainEffect
<1>4. CASE CompleteExternalEffect(h) BY <1>4 DEF CompleteExternalEffect, Completes
<1> QED
  BY <1>1, <1>2, <1>3, <1>4
     DEF HandlerNext, ApplyTool, ClaimRun, LoadReplays, EndTurn, Crash, PauseRunForTakeover,
         CallTool, ReturnResult, FindInterrupted, NeedApproval, RequestApproval, RereadEffect,
         Perform, tables

\* The user and the clock leave the handlers alone, and a changed rule counts.
LEMMA OthersMove ==
  ASSUME Typed, UserNext \/ ExpireLease \/ UNCHANGED vars
  PROVE  /\ session' = session /\ replayed' = replayed /\ performed' = performed
         /\ changes' \in Nat /\ (changes' = 0 => rules' = rules /\ changes = 0)
         /\ run'.fence = run.fence
<1> USE DEF Typed, TypeOK
<1>1. CASE UserNext
  BY <1>1 DEF UserNext, AnswerRunInput, ReleaseTakeover, CancelRun, SetRule, RemoveRule, past
<1>2. CASE ExpireLease BY <1>2 DEF ExpireLease, past
<1>3. CASE UNCHANGED vars BY <1>3 DEF vars, tables, past
<1> QED BY <1>1, <1>2, <1>3

LEMMA LoadedNext ==
  ASSUME Typed, RulesAreLoaded, [Next]_vars
  PROVE  RulesAreLoaded'
<1> USE DEF RulesAreLoaded, InGate
<1>1. ASSUME NEW h \in Handlers, HandlerNext(h) PROVE RulesAreLoaded'
  <2>1. \A other \in Handlers : other # h => session'[other] = session[other]
    BY <1>1, HandlerMoves
  <2>2. rules' = rules /\ changes' = changes BY <1>1, HandlerMoves
  <2> SUFFICES /\ InGate(h)' => session'[h].loaded
               /\ changes = 0 /\ session'[h].loaded => session'[h].rules = rules
    BY <2>1, <2>2
  <2>3. ASSUME NEW q \in Requests, NEW actual \in Requests, CallTool(h, q, actual)
        PROVE  /\ session'[h].loaded
               /\ changes = 0 => session'[h].rules = rules
    BY <2>3 DEF CallTool, Typed, TypeOK
  <2>4. CASE session'[h] = Idle BY <2>4 DEF Idle
  <2>5. CASE ClaimRun(h) \/ LoadReplays(h)
    BY SMTT(30), <2>5 DEF ClaimRun, LoadReplays, Typed, TypeOK, Session
  <2>6. CASE Stays(h) BY <2>6 DEF Stays
  <2> QED BY <1>1, <2>3, <2>4, <2>5, <2>6, HandlerMoves
<1>2. CASE UserNext \/ ExpireLease \/ UNCHANGED vars
  BY <1>2, OthersMove
<1> QED BY <1>1, <1>2 DEF Next

LEMMA ReplaysNext ==
  ASSUME Typed, GateIsKeyed, RulesAreLoaded, ReplaysAreKeyed, [Next]_vars
  PROVE  ReplaysAreKeyed'
<1> USE DEF Typed, TypeOK
<1>1. ASSUME NEW h \in Handlers, HandlerNext(h), changes = 0
      PROVE  /\ \A q \in Requests : /\ effect'[q] # "none" => Stable(q)
                                    /\ replayed'[q] <= performed'[q]
             /\ \A q \in session'[h].replay : Stable(q)
             /\ At(h, "missing")' => Stable(session'[h].request)
             /\ At(h, "perform")' /\ session'[h].replaying => session'[h].keyed
  <2>1. /\ \A q \in Requests : /\ effect[q] # "none" => Stable(q)
                               /\ replayed[q] <= performed[q]
        /\ \A q \in session[h].replay : Stable(q)
        /\ At(h, "missing") => Stable(Request(h))
        /\ At(h, "perform") /\ session[h].replaying => session[h].keyed
    BY <1>1 DEF ReplaysAreKeyed
  <2>2. \A q \in Requests : effect'[q] # "none" => Stable(q)
    <3> SUFFICES ASSUME NEW q \in Requests, effect'[q] # "none", effect[q] = "none"
                 PROVE  Stable(q)
      BY <2>1
    <3>1. RecordEffect(h) /\ q = Request(h) BY <1>1, EffectMoves DEF Claims
    <3> QED BY <2>1, <3>1 DEF RecordEffect
  <2>3. \A q \in Requests : replayed'[q] <= performed'[q]
    <3>1. CASE Perform(h)
      <4>1. Request(h) \in Requests BY <3>1 DEF Perform, At, GateHasRequest
      <4>2. session[h].replaying => session[h].keyed BY <2>1, <3>1 DEF Perform
      <4>3. session[h].replaying \in BOOLEAN /\ session[h].keyed \in BOOLEAN BY DEF Session
      <4>4. \A q \in Requests :
              /\ performed'[q] = IF q = Request(h) /\ session[h].keyed THEN performed[q] + 1
                                 ELSE performed[q]
              /\ replayed'[q] = IF q = Request(h) /\ session[h].replaying THEN replayed[q] + 1
                                ELSE replayed[q]
        BY <3>1, <4>1 DEF Perform
      <4> QED BY <2>1, <4>2, <4>3, <4>4
    <3>2. CASE ~Perform(h)
      <4>1. replayed' = replayed /\ performed' = performed
        BY <1>1, <3>2 DEF HandlerNext, ApplyTool, ClaimRun, LoadReplays, EndTurn, Crash,
           PauseRunForTakeover, CallTool, RecordEffect, ReturnResult, FindInterrupted,
           NeedApproval, RequestApproval, ClaimEffect, RereadEffect, SettleUncertainEffect,
           CompleteExternalEffect, past
      <4> QED BY <2>1, <4>1
    <3> QED BY <3>1, <3>2
  <2>4. ASSUME NEW q \in Requests, NEW actual \in Requests, CallTool(h, q, actual)
        PROVE  /\ \A p \in session'[h].replay : Stable(p)
               /\ session'[h].step = "missing" => Stable(session'[h].request)
               /\ session'[h].step = "perform" /\ session'[h].replaying => session'[h].keyed
    <3> DEFINE known == IF session[h].loaded THEN session[h].rules ELSE rules
    <3>1. known = rules BY <1>1 DEF RulesAreLoaded
    <3>2. ToolOf[actual] = ToolOf[q]
          /\ (session[h].replay # {} => actual \in session[h].replay)
      BY <2>4 DEF CallTool, StandsFor
    <3>3. /\ session'[h].replay = session[h].replay \ {actual}
          /\ session'[h].request = actual
          /\ session'[h].replaying = (session[h].replay # {})
          /\ session'[h].keyed = HasStableKey(known, ToolOf[q])
          /\ session'[h].step = "missing" => HasStableKey(known, ToolOf[q])
      BY <2>4 DEF CallTool
    <3>4. HasStableKey(known, ToolOf[q]) <=> Stable(actual) BY <3>1, <3>2 DEF Stable
    <3> HIDE DEF known
    <3> QED BY <2>1, <3>2, <3>3, <3>4
  <2>5. CASE session'[h] = Idle BY <2>2, <2>3, <2>5 DEF Idle, At
  <2>6. CASE ClaimRun(h) \/ LoadReplays(h)
    <3>1. session'[h].step \in {"claimed", "turn"}
          /\ session'[h].replay \in {session[h].replay, ApprovedRequests}
      BY <2>6 DEF ClaimRun, LoadReplays, Session
    <3> QED BY <2>1, <2>2, <2>3, <3>1 DEF ApprovedRequests, At
  <2>7. CASE Stays(h)
    <3>1. session'[h].step = "perform" => session'[h].keyed
      BY <2>7 DEF Stays, ClaimEffect, At, GateIsKeyed
    <3> QED BY <2>1, <2>2, <2>3, <2>7, <3>1 DEF Stays, At
  <2> QED BY <1>1, <2>2, <2>3, <2>4, <2>5, <2>6, <2>7, HandlerMoves DEF At
<1>2. ASSUME NEW h \in Handlers, HandlerNext(h) PROVE ReplaysAreKeyed'
  <2>1. UNCHANGED <<rules, changes>> BY <1>2, HandlerMoves
  <2>2. \A other \in Handlers : other # h => session'[other] = session[other]
    BY <1>2, HandlerMoves
  <2>3. \A q : Stable(q)' <=> Stable(q) BY <2>1 DEF Stable
  <2> SUFFICES ASSUME changes = 0 PROVE ReplaysAreKeyed'
    BY <2>1 DEF ReplaysAreKeyed
  <2>4. ASSUME NEW other \in Handlers, other # h
        PROVE  /\ \A q \in session'[other].replay : Stable(q)
               /\ session'[other].step = "missing" => Stable(session'[other].request)
               /\ session'[other].step = "perform" /\ session'[other].replaying =>
                    session'[other].keyed
    BY <2>2, <2>4 DEF ReplaysAreKeyed, At, Request
  <2>5. /\ \A q \in Requests : effect'[q] # "none" => Stable(q)
        /\ \A q \in Requests : replayed'[q] <= performed'[q]
        /\ \A q \in session'[h].replay : Stable(q)
        /\ session'[h].step = "missing" => Stable(session'[h].request)
        /\ session'[h].step = "perform" /\ session'[h].replaying => session'[h].keyed
    BY <1>1, <1>2 DEF At
  <2>6. \A x \in Handlers :
          /\ \A q \in session'[x].replay : Stable(q)
          /\ session'[x].step = "missing" => Stable(session'[x].request)
          /\ session'[x].step = "perform" /\ session'[x].replaying => session'[x].keyed
    BY <2>4, <2>5
  <2> QED BY <2>1, <2>5, <2>6 DEF ReplaysAreKeyed, At, Request, Stable
<1>3. CASE UserNext \/ ExpireLease \/ UNCHANGED vars
  <2> SUFFICES ASSUME changes' = 0 PROVE ReplaysAreKeyed'
    BY DEF ReplaysAreKeyed
  <2>1. /\ session' = session /\ replayed' = replayed /\ performed' = performed
        /\ rules' = rules /\ changes = 0
    BY <1>3, OthersMove
  <2>2. \A q \in Requests : effect'[q] # "none" => effect[q] # "none"
    BY <1>3 DEF UserNext, AnswerRunInput, MayAnswer, ReleaseTakeover, CancelRun, SetRule,
       RemoveRule, ExpireLease, vars, tables
  <2> QED BY <2>1, <2>2 DEF ReplaysAreKeyed, At, Request, Stable
<1> QED BY <1>2, <1>3 DEF Next

\* Without a change of rules nobody claims an intended effect that asks.
LEMMA IntendedStays ==
  ASSUME Typed, RulesAreLoaded, changes = 0, NEW h \in Handlers, HandlerNext(h),
         NEW q \in Requests, effect[q] = "intended", Asks(rules, ToolOf[q])
  PROVE  effect'[q] = "intended"
<1> SUFFICES ASSUME effect'[q] # effect[q] PROVE FALSE OBVIOUS
<1>1. ClaimEffect(h) /\ q = Request(h) /\ Claims(h) BY EffectMoves
<1>2. session[h].rules = rules BY <1>1 DEF RulesAreLoaded, InGate, ClaimEffect, At
<1>3. AsksFor(h) BY <1>1, <1>2 DEF AsksFor
<1>4. session[h].seen = "approved" BY <1>1, <1>3 DEF ClaimEffect
<1> QED BY <1>1, <1>4 DEF Claims

LEMMA CardsNext ==
  ASSUME Typed, RulesAreLoaded, CardsAreAsked, [Next]_vars
  PROVE  CardsAreAsked'
<1>0. /\ session \in [Handlers -> Session] /\ run.fence \in Nat
      /\ effect \in [Requests -> EffectStatuses \cup {"none"}]
      /\ run \in [status: RunStatuses, fence: Nat, expired: BOOLEAN]
      /\ card \in [Requests -> Nat]
      /\ \A h \in Handlers : session[h].fence \in Nat
  BY DEF Typed, TypeOK, Session
<1>1. ASSUME NEW h \in Handlers, HandlerNext(h) PROVE CardsAreAsked'
  <2>1. UNCHANGED <<rules, changes>> BY <1>1, HandlerMoves
  <2>2. \A other \in Handlers : other # h => session'[other] = session[other]
    BY <1>1, HandlerMoves
  <2>3. \/ \E q, actual \in Requests : CallTool(h, q, actual)
        \/ session'[h] = Idle
        \/ ClaimRun(h) \/ LoadReplays(h) \/ Stays(h)
    BY <1>1, HandlerMoves
  \* The run is claimed under the next fence, paused, taken away, or as it was.
  <2>4. \/ ClaimRun(h)
        \/ RequestApproval(h) /\ Holds(h)
        \/ run'.fence = run.fence /\ run'.status \in {"ended", "waiting_takeover"}
        \/ run' = run /\ card' = card
    BY <1>0, <1>1 DEF HandlerNext, ApplyTool, LoadReplays, EndTurn, Crash, PauseRunForTakeover,
       CallTool, RecordEffect, ReturnResult, FindInterrupted, NeedApproval, RequestApproval,
       ClaimEffect, RereadEffect, SettleUncertainEffect, Perform, CompleteExternalEffect,
       tables
  <2>5. session'[h].step \in {"found", "asking"} =>
          Stays(h) \/ \E q, actual \in Requests : CallTool(h, q, actual)
    BY <1>0, <2>3 DEF ClaimRun, LoadReplays, Idle, Session
  <2>6. \A x \in Handlers : session'[x].fence <= run'.fence
    <3>1. run'.fence \in Nat /\ run.fence <= run'.fence
      <4>1. run'.fence \in {run.fence, run.fence + 1}
        <5>1. CASE ClaimRun(h) BY <5>1 DEF ClaimRun
        <5>2. CASE RequestApproval(h) /\ Holds(h)
          BY <1>0, <5>2 DEF RequestApproval
        <5> QED BY <2>4, <5>1, <5>2
      <4> QED BY <1>0, <4>1
    <3>2. session'[h].fence \in {session[h].fence, 0} \/ session'[h].fence = run'.fence
      BY <1>0, <2>3 DEF CallTool, Idle, ClaimRun, LoadReplays, Stays, Session
    <3>3. \A x \in Handlers : session[x].fence <= run.fence BY DEF CardsAreAsked
    <3> QED BY <1>0, <2>2, <3>1, <3>2, <3>3
  <2>7. \A x \in Handlers : At(x, "asking")' => AsksFor(x)'
    <3>1. session'[h].step = "asking" => Asks(session'[h].rules, ToolOf[session'[h].request])
      <4>1. ASSUME NEW q \in Requests, NEW actual \in Requests, CallTool(h, q, actual)
            PROVE  session'[h].step # "asking"
        BY <1>0, <4>1 DEF CallTool
      <4> QED BY <2>5, <4>1 DEF Stays, NeedApproval, AsksFor, Request
    <3> QED BY <2>2, <3>1 DEF CardsAreAsked, At, AsksFor, Request
  <2>8. ASSUME changes = 0, NEW x \in Handlers, Pauses(x)'
        PROVE  effect'[session'[x].request] = "intended"
    <3>1. /\ session'[x].step \in {"found", "asking"}
          /\ session'[x].step = "found" => session'[x].seen \in {"new", "intended"}
          /\ run'.status = "running" /\ run'.fence = session'[x].fence
          /\ Asks(session'[x].rules, ToolOf[session'[x].request])
      BY <2>8 DEF Pauses, At, Holds, AsksFor, Request
    <3>2. run' = run
      <4>1. CASE ClaimRun(h)
        <5>1. session'[h].step = "claimed" /\ run'.fence = run.fence + 1
          BY <1>0, <4>1 DEF ClaimRun, Session
        <5>2. x # h BY <3>1, <5>1
        <5>3. session[x].fence \in Nat /\ session[x].fence <= run.fence /\ run.fence \in Nat
          BY <1>0 DEF CardsAreAsked
        <5>4. session[x].fence = run.fence + 1 BY <2>2, <3>1, <5>1, <5>2
        <5> QED BY <5>3, <5>4
      <4>2. CASE RequestApproval(h) /\ Holds(h)
        BY <1>0, <3>1, <4>2 DEF RequestApproval
      <4> QED BY <2>4, <3>1, <4>1, <4>2
    <3>3. CASE x # h
      <4>1. session'[x] = session[x] BY <2>2, <3>3
      <4>2. Pauses(x) BY <3>1, <3>2, <4>1 DEF Pauses, At, Holds, AsksFor, Request
      <4>3. effect[Request(x)] = "intended" BY <2>8, <4>2 DEF CardsAreAsked
      <4>4. session[x].rules = rules /\ Request(x) \in Requests
        BY <2>8, <4>2 DEF Pauses, RulesAreLoaded, InGate, At, Typed, GateHasRequest
      <4>5. Asks(rules, ToolOf[Request(x)]) BY <4>2, <4>4 DEF Pauses, AsksFor
      <4> QED BY <1>1, <2>8, <4>1, <4>3, <4>4, <4>5, IntendedStays DEF Request
    <3>4. CASE x = h
      <4>1. ASSUME NEW q \in Requests, NEW actual \in Requests, CallTool(h, q, actual)
            PROVE  effect'[session'[h].request] = "intended"
        <5>1. /\ session'[h].step # "asking" /\ session'[h].seen = effect[actual]
              /\ session'[h].request = actual /\ effect' = effect
          BY <1>0, <4>1 DEF CallTool, tables
        <5>2. effect[actual] # "new" BY <1>0 DEF EffectStatuses
        <5> QED BY <3>1, <3>4, <5>1, <5>2
      <4>2. CASE Stays(h) /\ session'[h].step = "found" BY <3>4, <4>2 DEF Stays, Request
      <4>3. CASE Stays(h) /\ session'[h].step = "asking"
        <5>1. NeedApproval(h) /\ session'[h].fence = session[h].fence
              /\ session'[h].request = Request(h)
          BY <4>3 DEF Stays, Request
        <5>2. Pauses(h) BY <3>1, <3>2, <3>4, <5>1 DEF NeedApproval, Pauses, Holds
        <5>3. effect' = effect BY <5>1 DEF NeedApproval, tables
        <5> QED BY <2>8, <3>4, <5>1, <5>2, <5>3 DEF CardsAreAsked
      <4> QED BY <2>5, <3>1, <3>4, <4>1, <4>2, <4>3
    <3> QED BY <3>3, <3>4
  <2>9. ASSUME changes = 0, run'.status = "waiting_input"
        PROVE  \E q \in Requests :
                 card'[q] > 0 /\ effect'[q] = "intended" /\ Asks(rules, ToolOf[q])
    <3>1. CASE RequestApproval(h) /\ Holds(h)
      <4>1. Pauses(h) BY <3>1 DEF Pauses, RequestApproval, CardsAreAsked
      <4>2. effect[Request(h)] = "intended" BY <2>9, <4>1 DEF CardsAreAsked
      <4>3. session[h].rules = rules /\ Request(h) \in Requests
        BY <2>9, <4>1 DEF Pauses, RulesAreLoaded, InGate, At, Typed, GateHasRequest
      <4>4. Asks(rules, ToolOf[Request(h)]) BY <4>1, <4>3 DEF Pauses, AsksFor
      <4>5. effect' = effect /\ card'[Request(h)] = card[Request(h)] + 1
        BY <1>0, <3>1, <4>3 DEF RequestApproval
      <4> QED BY <1>0, <4>2, <4>3, <4>4, <4>5
    <3>2. CASE run' = run /\ card' = card
      <4>1. PICK q \in Requests : MayAnswer(q) /\ Asks(rules, ToolOf[q])
        BY <2>9, <3>2 DEF CardsAreAsked
      <4>2. effect'[q] = "intended" BY <1>1, <2>9, <4>1, IntendedStays DEF MayAnswer
      <4> QED BY <3>2, <4>1, <4>2 DEF MayAnswer
    <3>3. CASE ClaimRun(h) BY <2>9, <3>3 DEF ClaimRun
    <3> QED BY <2>4, <2>9, <3>1, <3>2, <3>3
  <2>10. changes' = 0 /\ run'.status = "waiting_input" =>
           \E q \in Requests : MayAnswer(q)' /\ Asks(rules', ToolOf[q])
    BY <2>1, <2>9 DEF MayAnswer
  <2>11. changes' = 0 => \A x \in Handlers : Pauses(x)' => effect'[session'[x].request] = "intended"
    BY <2>1, <2>8
  <2> QED BY <2>6, <2>7, <2>10, <2>11 DEF CardsAreAsked, Request
<1>2. CASE UserNext \/ ExpireLease \/ UNCHANGED vars
  <2>1. /\ session' = session /\ run'.fence = run.fence
        /\ changes' = 0 => rules' = rules /\ changes = 0
    BY <1>2, OthersMove
  <2>2. run'.status \in {"running", "waiting_input"} =>
          run'.status = run.status /\ effect' = effect /\ card' = card
    BY <1>0, <1>2 DEF UserNext, AnswerRunInput, ReleaseTakeover, CancelRun, SetRule, RemoveRule,
       ExpireLease, vars, tables
  <2>3. \A x \in Handlers : (AsksFor(x)' <=> AsksFor(x)) /\ (At(x, "asking")' <=> At(x, "asking"))
    BY <2>1 DEF AsksFor, At, Request
  <2>4. \A x \in Handlers : Pauses(x)' => Pauses(x) /\ effect' = effect
    BY <2>1, <2>2 DEF Pauses, AsksFor, At, Holds, Request
  <2>5. changes' = 0 /\ run'.status = "waiting_input" =>
          \E q \in Requests : MayAnswer(q)' /\ Asks(rules', ToolOf[q])
    BY <2>1, <2>2 DEF CardsAreAsked, MayAnswer
  <2> QED BY <2>1, <2>3, <2>4, <2>5 DEF CardsAreAsked, Request
<1> QED BY <1>1, <1>2 DEF Next

Steady == RulesAreLoaded /\ ReplaysAreKeyed /\ CardsAreAsked

LEMMA SteadyInit == Init => Steady
<1> SUFFICES ASSUME Init PROVE Steady OBVIOUS
<1>1. \A h \in Handlers : session[h] = Idle BY DEF Init
<1> QED BY <1>1 DEF Init, Steady, RulesAreLoaded, ReplaysAreKeyed, CardsAreAsked, InGate, Idle,
           At, Pauses

LEMMA SteadyNext == GateInv /\ Steady /\ [Next]_vars => Steady'
BY LoadedNext, ReplaysNext, CardsNext DEF GateInv, Steady

\* While the rules do not change, a run never waits for an approval that
\* nobody can give.
THEOREM CardsAreAnswerable == Spec => []CardIsAnswerable
<1>1. Steady => CardIsAnswerable BY DEF Steady, CardsAreAsked, CardIsAnswerable
<1> QED BY <1>1, GateInvInit, GateInvNext, SteadyInit, SteadyNext, PTL DEF Spec

\* While the rules do not change, no approved request is replayed by two
\* attempts, however many of them read it before one claimed it.
THEOREM RequestsReplayOnce == Spec => []ReplayedOnce
<1>1. GateInv /\ Steady => ReplayedOnce
  BY DEF GateInv, Typed, TypeOK, Honest, RowTellsTheTruth, Steady, ReplaysAreKeyed, ReplayedOnce
<1> QED BY <1>1, GateInvInit, GateInvNext, SteadyInit, SteadyNext, PTL DEF Spec
=============================================================================
