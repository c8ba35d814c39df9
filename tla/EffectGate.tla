----------------------------- MODULE EffectGate -----------------------------
(***************************************************************************)
(* The gate every mutating tool call of a run passes (applyTool): table    *)
(* external_effects, the approval rules, the approval cards of the thread  *)
(* and the replay of approved requests when a run resumes.                 *)
(*                                                                         *)
(* The actors are the handlers that execute one run, each after a claim of *)
(* it, and the user who answers cards, edits rules, releases and stops.  A *)
(* handler that lost its lease goes on with the tool call it is in.  One   *)
(* action is one statement or transaction.  The run is the row of module   *)
(* RunLifecycle reduced to its status and fence: that the fence identifies *)
(* the latest claim is what LeaseIsExclusive shows there.                  *)
(***************************************************************************)
EXTENDS Naturals, FiniteSets

CONSTANTS
  Requests,     \* tool calls with their arguments
  ToolOf,       \* the tool of each request
  DefaultTools, \* tools that toolRequiresApproval selects
  Handlers,     \* worker slots that may execute the run
  UserRules,    \* rules the user may set and remove
  Faults, MaxFaults, MaxClaims, MaxRuleChanges   \* what may happen, and bounds

Tools == {ToolOf[q] : q \in Requests}
FaultKinds == {"crash", "lapse", "repeat"}

\* An approval rule: `tools` are those its match selects, and `level` is the
\* specificity of the kind of match: category 1, connector 2, tool 3.
Rule == [effect: {"always_allow", "require_approval"}, tools: SUBSET Tools,
         level: 1..3]
AlwaysAllow(t) == [effect |-> "always_allow", tools |-> {t}, level |-> 3]

ASSUME GateAssumption ==
  /\ IsFiniteSet(Requests) /\ DefaultTools \subseteq Tools
  /\ UserRules \subseteq Rule
  /\ Faults \subseteq FaultKinds
  /\ MaxFaults \in Nat /\ MaxClaims \in Nat /\ MaxRuleChanges \in Nat

VARIABLES
  run,        \* status, fence and expiry of the run
  effect,     \* status of the row whose key is approvalEffectKey of a request
  created,    \* createdAt of that row: its place in the order of creation
  card,       \* how many unanswered cards ask for a request
  rules,      \* table action_approval_rules
  session,    \* the local state of each handler
  performed,  \* history: how often a request ran under its row
  replayed,   \* history: how often a request taken for replay ran
  allowed,    \* history: requests whose card the user answered with allow
  faults, changes

tables == <<run, effect, created, card, rules>>
past   == <<performed, replayed, allowed>>
vars   == <<tables, session, past, faults, changes>>

RunStatuses == {"queued", "running", "waiting_input", "waiting_takeover", "ended"}
Waiting == {"waiting_input", "waiting_takeover"}

EffectStatuses == {"intended", "approved", "denied", "executing", "completed",
                   "uncertain"}

\* Where a handler is: between its claim and its reads, in the model's turn,
\* or inside applyTool.
Steps == {"idle", "claimed", "turn", "missing", "found", "asking", "lost",
          "settling", "perform", "performed"}

\* rules is what loadApprovalRules read at the attempt's first call; seen is
\* the row's status when recordEffect read it, "new" if it created the row.
Session == [step: Steps, fence: Nat, loaded: BOOLEAN, rules: SUBSET Rule,
            replay: SUBSET Requests, request: Requests \cup {"none"},
            keyed: BOOLEAN, replaying: BOOLEAN,
            seen: EffectStatuses \cup {"none", "new"}]

Idle == [step |-> "idle", fence |-> 0, loaded |-> FALSE, rules |-> {},
         replay |-> {}, request |-> "none", keyed |-> FALSE,
         replaying |-> FALSE, seen |-> "none"]

At(h, step) == session[h].step = step
GoTo(h, step) == session' = [session EXCEPT ![h].step = step]
Leave(h) == session' = [session EXCEPT ![h] = Idle]
Request(h) == session[h].request

\* Mutant of Holds: the fence is not compared.
HoldsUnfenced(h) == run.status = "running"
\* The WHERE of renewRunLease, pauseRunForInput and finalizeRun; leaseOwner is
\* the same for all slots of a worker and tells less than the fence.
Holds(h) == run.status = "running" /\ run.fence = session[h].fence

Rows == {q \in Requests : effect[q] # "none"}

Fail(kind) == kind \in Faults /\ faults < MaxFaults /\ faults' = faults + 1

---------------------------------------------------------------------------
(* The approval decision.                                                  *)

\* resolveActionApproval: a require_approval rule of the highest specificity
\* that matches; without one the tool is allowed.
Asks(known, t) ==
  \E r \in known :
    /\ t \in r.tools /\ r.effect = "require_approval"
    /\ \A other \in known : t \in other.tools => other.level <= r.level

AsksFor(h) == Asks(session[h].rules, ToolOf[Request(h)])

\* Mutant of HasStableKey: the call of a tool that a rule asks for has none.
DefaultHasStableKey(known, t) == t \in DefaultTools
\* Only calls that ask, or whose tool does by default, get a key that the
\* same call has again in the next attempt.
HasStableKey(known, t) == t \in DefaultTools \/ Asks(known, t)

---------------------------------------------------------------------------
(* Attempts.                                                               *)

\* A handler claims the run.  Waiting runs are claimed only by a second job.
ClaimRun(h) ==
  /\ At(h, "idle") /\ run.fence < MaxClaims
  /\ \/ run.status = "queued" /\ UNCHANGED faults
     \/ run.status = "running" /\ run.expired /\ UNCHANGED faults
     \/ run.status \in Waiting /\ Fail("repeat")
  /\ run' = [status |-> "running", fence |-> run.fence + 1, expired |-> FALSE]
  /\ session' = [session EXCEPT ![h].step = "claimed", ![h].fence = run.fence + 1]
  /\ UNCHANGED <<effect, created, card, rules, past, changes>>

ApprovedRequests == {q \in Requests : effect[q] = "approved"}

\* The attempt reads the approved effects it has to replay.
LoadReplays(h) ==
  /\ At(h, "claimed")
  /\ session' = [session EXCEPT ![h].step = "turn", ![h].replay = ApprovedRequests]
  /\ UNCHANGED <<tables, past, faults, changes>>

\* The turn ends: it fails if approved requests are left to replay, and
\* completes otherwise; without the lease the handler just leaves.
EndTurn(h) ==
  /\ At(h, "turn")
  /\ run' = IF Holds(h) THEN [run EXCEPT !.status = "ended"] ELSE run
  /\ Leave(h)
  /\ UNCHANGED <<effect, created, card, rules, past, faults, changes>>

PauseRunForTakeover(h) ==
  /\ At(h, "turn") /\ Holds(h)
  /\ run' = [run EXCEPT !.status = "waiting_takeover", !.expired = FALSE]
  /\ Leave(h)
  /\ UNCHANGED <<effect, created, card, rules, past, faults, changes>>

---------------------------------------------------------------------------
(* applyTool.                                                              *)

\* What a call of q stands for: while approved requests are left to replay,
\* the oldest of them, which only a call of its tool takes.
StandsFor(h, q, actual) ==
  LET replay == session[h].replay IN
  /\ ToolOf[actual] = ToolOf[q]
  /\ IF replay = {} THEN actual = q
     ELSE actual \in replay /\ \A r \in replay : created[actual] <= created[r]

\* The model calls a tool.  A call without a stable key gets a row of its own
\* and runs.
CallTool(h, q, actual) ==
  LET known == IF session[h].loaded THEN session[h].rules ELSE rules
      keyed == HasStableKey(known, ToolOf[q])
  IN
  /\ At(h, "turn") /\ StandsFor(h, q, actual)
  /\ session' = [session EXCEPT ![h] =
       [step      |-> IF ~keyed THEN "perform"
                      ELSE IF effect[actual] = "none" THEN "missing" ELSE "found",
        fence     |-> session[h].fence,
        loaded    |-> TRUE,
        rules     |-> known,
        replay    |-> session[h].replay \ {actual},
        replaying |-> session[h].replay # {},
        request   |-> actual,
        keyed     |-> keyed,
        seen      |-> effect[actual]]]
  /\ UNCHANGED <<tables, past, faults, changes>>

\* recordEffect creates the row it did not find; if another handler has done
\* so since, the unique key fails the call.
RecordEffect(h) ==
  LET q == Request(h) IN
  /\ At(h, "missing")
  /\ IF effect[q] = "none"
     THEN /\ effect' = [effect EXCEPT ![q] = "intended"]
          /\ created' = [created EXCEPT ![q] = Cardinality(Rows)]
          /\ session' = [session EXCEPT ![h].step = "found", ![h].seen = "new"]
     ELSE GoTo(h, "turn") /\ UNCHANGED <<effect, created>>
  /\ UNCHANGED <<run, card, rules, past, faults, changes>>

\* resolveDuplicateEffectGate: a settled row answers the call ...
ReturnResult(h) ==
  /\ At(h, "found") /\ session[h].seen \in {"completed", "denied", "uncertain"}
  /\ GoTo(h, "turn")
  /\ UNCHANGED <<tables, past, faults, changes>>

\* ... an executing one was interrupted, or still runs elsewhere ...
FindInterrupted(h) ==
  /\ At(h, "found") /\ session[h].seen = "executing"
  /\ GoTo(h, "settling")
  /\ UNCHANGED <<tables, past, faults, changes>>

\* ... and an intended one that must be asked for pauses the run, unless it
\* already waits for an answer.
NeedApproval(h) ==
  /\ At(h, "found") /\ session[h].seen \in {"new", "intended"} /\ AsksFor(h)
  /\ IF session[h].seen = "intended" /\ run.status = "waiting_input"
     THEN Leave(h) ELSE GoTo(h, "asking")
  /\ UNCHANGED <<tables, past, faults, changes>>

\* requestApproval renews the lease, leaving if it is gone, and then pauses
\* the run and shows the card, failing the call if the run changed hands.
RequestApproval(h) ==
  /\ At(h, "asking")
  /\ \/ /\ Holds(h)
        /\ run' = [run EXCEPT !.status = "waiting_input", !.expired = FALSE]
        /\ card' = [card EXCEPT ![Request(h)] = @ + 1]
        /\ Leave(h)
     \/ /\ ~Holds(h) /\ (Leave(h) \/ GoTo(h, "turn"))
        /\ UNCHANGED <<run, card>>
  /\ UNCHANGED <<effect, created, rules, past, faults, changes>>

\* Mutant of Claims: the row is claimed whatever became of it.
ClaimsAnyway(h) == TRUE
\* The WHERE of claimApprovedEffect and claimIntendedEffect.
Claims(h) ==
  effect[Request(h)] =
    (IF session[h].seen = "approved" THEN "approved" ELSE "intended")

ClaimEffect(h) ==
  /\ At(h, "found")
  /\ \/ session[h].seen = "approved"
     \/ session[h].seen \in {"new", "intended"} /\ ~AsksFor(h)
  /\ IF Claims(h)
     THEN effect' = [effect EXCEPT ![Request(h)] = "executing"] /\ GoTo(h, "perform")
     ELSE GoTo(h, "lost") /\ UNCHANGED effect
  /\ UNCHANGED <<run, created, card, rules, past, faults, changes>>

\* claimOrReturn after a lost claim: settle what executes elsewhere, else
\* return its result or fail the call.
RereadEffect(h) ==
  /\ At(h, "lost")
  /\ GoTo(h, IF effect[Request(h)] = "executing" THEN "settling" ELSE "turn")
  /\ UNCHANGED <<tables, past, faults, changes>>

\* An execution whose end nobody recorded becomes uncertain for good.
SettleUncertainEffect(h) ==
  LET q == Request(h) IN
  /\ At(h, "settling")
  /\ effect' = [effect EXCEPT ![q] = IF @ = "executing" THEN "uncertain" ELSE @]
  /\ GoTo(h, "turn")
  /\ UNCHANGED <<run, created, card, rules, past, faults, changes>>

\* The side effect itself, outside the database.
Perform(h) ==
  LET q == Request(h) IN
  /\ At(h, "perform")
  /\ performed' = [performed EXCEPT ![q] = IF session[h].keyed THEN @ + 1 ELSE @]
  /\ replayed' = [replayed EXCEPT ![q] = IF session[h].replaying THEN @ + 1 ELSE @]
  /\ GoTo(h, "performed")
  /\ UNCHANGED <<tables, allowed, faults, changes>>

\* Mutant of Completes: a stale handler overwrites a reconciled row.
CompletesAnyway(h) == session[h].keyed
\* completeExternalEffect finds the row still executing.
Completes(h) == session[h].keyed /\ effect[Request(h)] = "executing"

CompleteExternalEffect(h) ==
  /\ At(h, "performed")
  /\ effect' = IF Completes(h) THEN [effect EXCEPT ![Request(h)] = "completed"]
               ELSE effect
  /\ GoTo(h, "turn")
  /\ UNCHANGED <<run, created, card, rules, past, faults, changes>>

---------------------------------------------------------------------------
(* The user.                                                               *)

Answers == {"allow", "always", "deny"}

\* A card can be answered while its run waits and its effect is intended.
MayAnswer(q) ==
  run.status = "waiting_input" /\ card[q] > 0 /\ effect[q] = "intended"

\* "always" also allows the tool from now on, if no rule outranks that.
AnswerRunInput(q, answer) ==
  /\ MayAnswer(q)
  /\ answer = "always" => changes < MaxRuleChanges
  /\ run' = [run EXCEPT !.status = "queued"]
  /\ card' = [card EXCEPT ![q] = @ - 1]
  /\ effect' = [effect EXCEPT ![q] = IF answer = "deny" THEN "denied" ELSE "approved"]
  /\ allowed' = IF answer = "deny" THEN allowed ELSE allowed \cup {q}
  /\ IF answer = "always"
     THEN rules' = rules \cup {AlwaysAllow(ToolOf[q])} /\ changes' = changes + 1
     ELSE UNCHANGED <<rules, changes>>
  /\ UNCHANGED <<created, session, performed, replayed, faults>>

ReleaseTakeover ==
  /\ run.status = "waiting_takeover"
  /\ run' = [run EXCEPT !.status = "queued"]
  /\ UNCHANGED <<effect, created, card, rules, session, past, faults, changes>>

\* Stop, clear, archive or supersede.
CancelRun ==
  /\ run.status # "ended"
  /\ run' = [run EXCEPT !.status = "ended"]
  /\ UNCHANGED <<effect, created, card, rules, session, past, faults, changes>>

SetRule(r) ==
  /\ changes < MaxRuleChanges
  /\ rules' = rules \cup {r}
  /\ changes' = changes + 1
  /\ UNCHANGED <<run, effect, created, card, session, past, faults>>

RemoveRule(r) ==
  /\ r \in rules /\ changes < MaxRuleChanges
  /\ rules' = rules \ {r}
  /\ changes' = changes + 1
  /\ UNCHANGED <<run, effect, created, card, session, past, faults>>

---------------------------------------------------------------------------
(* The environment.                                                        *)

Crash(h) ==
  /\ ~At(h, "idle") /\ Fail("crash")
  /\ Leave(h)
  /\ UNCHANGED <<tables, past, changes>>

\* A lease that a live handler holds lapses only by a failure.
ExpireLease ==
  /\ run.status = "running" /\ ~run.expired
  /\ IF \E h \in Handlers : ~At(h, "idle") /\ Holds(h)
     THEN Fail("lapse") ELSE UNCHANGED faults
  /\ run' = [run EXCEPT !.expired = TRUE]
  /\ UNCHANGED <<effect, created, card, rules, session, past, changes>>

---------------------------------------------------------------------------

Init ==
  /\ run = [status |-> "queued", fence |-> 0, expired |-> FALSE]
  /\ effect = [q \in Requests |-> "none"]
  /\ created = [q \in Requests |-> 0]
  /\ card = [q \in Requests |-> 0]
  /\ rules \in SUBSET UserRules
  /\ session = [h \in Handlers |-> Idle]
  /\ performed = [q \in Requests |-> 0]
  /\ replayed = [q \in Requests |-> 0]
  /\ allowed = {}
  /\ faults = 0 /\ changes = 0

ApplyTool(h) ==
  \/ \E q, actual \in Requests : CallTool(h, q, actual)
  \/ RecordEffect(h) \/ ReturnResult(h) \/ FindInterrupted(h) \/ NeedApproval(h)
  \/ RequestApproval(h) \/ ClaimEffect(h) \/ RereadEffect(h)
  \/ SettleUncertainEffect(h) \/ Perform(h) \/ CompleteExternalEffect(h)

HandlerNext(h) ==
  \/ ClaimRun(h) \/ LoadReplays(h) \/ ApplyTool(h)
  \/ EndTurn(h) \/ PauseRunForTakeover(h) \/ Crash(h)

UserNext ==
  \/ \E q \in Requests, answer \in Answers : AnswerRunInput(q, answer)
  \/ ReleaseTakeover \/ CancelRun
  \/ \E r \in UserRules : SetRule(r)
  \/ \E r \in rules : RemoveRule(r)

Next == (\E h \in Handlers : HandlerNext(h)) \/ UserNext \/ ExpireLease

Spec == Init /\ [][Next]_vars

---------------------------------------------------------------------------
(* Invariants.                                                             *)

TypeOK ==
  /\ run \in [status: RunStatuses, fence: Nat, expired: BOOLEAN]
  /\ effect \in [Requests -> EffectStatuses \cup {"none"}]
  /\ created \in [Requests -> Nat]
  /\ card \in [Requests -> Nat]
  /\ rules \subseteq Rule
  /\ session \in [Handlers -> Session]
  /\ performed \in [Requests -> Nat] /\ replayed \in [Requests -> Nat]
  /\ allowed \subseteq Requests
  /\ faults \in Nat /\ changes \in Nat

Executing(q) == {h \in Handlers : /\ session[h].step \in {"perform", "performed"}
                                  /\ session[h].keyed /\ Request(h) = q}

\* The record of an effect is honest, although handlers crash and overtake
\* each other between the side effect and the row: a completed effect ran
\* exactly once, one that is intended, approved or denied never ran and no
\* handler is about to run it, and none ran twice.
RecordIsHonest ==
  \A q \in Requests :
    /\ performed[q] <= 1
    /\ effect[q] = "completed" => performed[q] = 1 /\ Executing(q) = {}
    /\ effect[q] \in {"none", "intended", "approved", "denied"} =>
         performed[q] = 0 /\ Executing(q) = {}

\* No handler runs a request that its rules ask for, unless the user has
\* allowed it: neither a lost lease, nor a changed rule, nor a card answered
\* late opens a way around the card.
AskedIsAllowed ==
  \A h \in Handlers :
    At(h, "perform") /\ AsksFor(h) => Request(h) \in allowed

\* A run that waits for an approval can get one: some unanswered card of it
\* asks for an effect that is still intended, which is what answering needs.
\* It is so until the rules change: then an older handler with the older
\* rules may claim the effect behind the card of a newer one.
CardIsAnswerable ==
  changes = 0 /\ run.status = "waiting_input" => \E q \in Requests : MayAnswer(q)

\* What a user denied, what completed and what became uncertain stays so: no
\* second card, late answer or overtaken handler reopens a settled effect.
SettledIsFinal ==
  [][\A q \in Requests : effect[q] \in {"denied", "completed", "uncertain"}
                           => effect'[q] = effect[q]]_vars

\* executor.ts tells the model to "call each listed approved request exactly
\* once"; a request the user approved is not replayed by two attempts.
\* That holds until the rules change, however handlers lapse and overtake
\* each other between the replay and the claim of its row.
ReplayedOnce == changes = 0 => \A q \in Requests : replayed[q] <= 1
=============================================================================
