-------------------------- MODULE DelegationProofs --------------------------
(***************************************************************************)
(* Theorems about Delegation, for any number of bots, runs, tool calls,    *)
(* handlers, requests and lapsed leases.                                   *)
(***************************************************************************)
EXTENDS Delegation, FiniteSetTheorems, TLAPS

\* A slot in a tool call has what the call needs, and its run exists or did.
HandlersFit == \A h \in Handlers :
  /\ ~At(h, "idle") => handler[h].run \in Runs /\ Its(h).status # "new"
  /\ handler[h].step \notin {"idle", "turn"} => handler[h].key \in Keys
  /\ handler[h].step \in {"address", "check", "deliver", "hand", "prompt"} =>
       handler[h].target \in Bots

RequestsFit == \A q \in Requests :
  /\ \A r \in request[q].seen : run[r].status # "new"
  /\ request[q].step # "idle" =>
       /\ request[q].op \in BotOps => Target(q) \in Bots
       /\ request[q].op = "update" => Enough(request[q].bots)
       /\ request[q].step = "cancel" => request[q].op = "destroy"

\* A row that is not there says nothing.
BlankRuns == \A r \in Runs :
  run[r].status \in {"new", "gone"} => run[r].trigger = "user" /\ run[r].thread = "home"

Fits == TypeOK /\ HandlersFit /\ RequestsFit /\ BlankRuns

-----------------------------------------------------------------------------
(* Types.                                                                  *)

LEMMA RecordsTyped ==
  /\ Idle \in Handler /\ NoRequest \in Request /\ NoEffect \in Effect
  /\ NoRun \in Run /\ [NoRun EXCEPT !.status = "gone"] \in Run
  /\ \A r \in Runs : Turn(r) \in Handler
BY DEF Idle, Handler, Steps, Ops, NoRequest, Request, NoEffect, Effect, NoRun, Run, Statuses, Turn

LEMMA NewRunTyped ==
  ASSUME NEW b \in Bots, NEW thread \in {"home", "group"},
         NEW trigger \in {"user", "bot_message", "spawn"}, NEW key \in Keys \cup {None},
         NEW hop \in Nat
  PROVE  NewRun(b, thread, trigger, key, hop) \in Run
BY DEF NewRun, Run, Statuses

LEMMA MessageIsKept ==
  ASSUME NEW b, NEW key, NEW hop PROVE NewRun(b, "home", "bot_message", key, hop).kept
BY Zenon DEF NewRun

\* Where each of the operations on runs leaves a run.
LEMMA CancelledFacts ==
  ASSUME TypeOK, NEW doomed
  PROVE  /\ Cancelled(doomed) \in [Runs -> Run]
         /\ \A r \in Runs : \/ Cancelled(doomed)[r] = run[r]
                            \/ /\ run[r].status # "gone" /\ r \in doomed
                               /\ Cancelled(doomed)[r] =
                                    [run[r] EXCEPT !.status = "cancelled", !.owner = None]
         /\ \A r \in doomed \cap Runs : Cancelled(doomed)[r].status \in {"cancelled", "gone"}
<1>1. \A r \in Runs : run[r] \in Run BY DEF TypeOK
<1>2. \A x \in Run : LET y == [x EXCEPT !.status = "cancelled", !.owner = None]
                     IN y \in Run /\ y.status = "cancelled"
  BY DEF Run, Statuses
<1> QED BY <1>1, <1>2 DEF Cancelled

LEMMA DeletedFacts ==
  ASSUME TypeOK, NEW doomed
  PROVE  /\ Deleted(doomed) \in [Runs -> Run]
         /\ \A r \in Runs : \/ Deleted(doomed)[r] = run[r] /\ (r \in doomed => run[r].status = "new")
                            \/ /\ run[r].status # "new" /\ r \in doomed
                               /\ Deleted(doomed)[r] = [NoRun EXCEPT !.status = "gone"]
<1>1. [NoRun EXCEPT !.status = "gone"] \in Run BY RecordsTyped
<1> QED BY <1>1 DEF Deleted, TypeOK

LEMMA InsertFacts ==
  ASSUME TypeOK, NEW r \in Runs, NEW new \in Run, Insert(r, new)
  PROVE  /\ run' \in [Runs -> Run] /\ run[r].status = "new" /\ run'[r] = new
         /\ \A o \in Runs \ {r} : run'[o] = run[o]
BY DEF Insert, NextId, TypeOK

LEMMA FitsInit == Init => Fits
<1> SUFFICES ASSUME Init PROVE Fits OBVIOUS
<1>1. TypeOK
  <2>1. bot \in [Bots -> Bot] BY DEF Init, Bot
  <2>2. members \subseteq Bots BY DelegationAssumption DEF Init
  <2> QED BY <2>1, <2>2, RecordsTyped DEF Init, TypeOK
<1> QED BY <1>1 DEF Init, Fits, HandlersFit, RequestsFit, BlankRuns, At, Idle, NoRequest, NoRun,
  BotOps, Target

\* A handler that moves on, while no run that exists stops to exist unseen.
LEMMA HandlerMoves ==
  ASSUME Fits, NEW h \in Handlers, NEW s \in Handler,
         handler' = [handler EXCEPT ![h] = s],
         s.step # "idle" => s.run \in Runs /\ run[s.run].status # "new",
         s.step \notin {"idle", "turn"} => s.key \in Keys,
         s.step \in {"address", "check", "deliver", "hand", "prompt"} => s.target \in Bots,
         \A r \in Runs : run[r].status # "new" => run'[r].status # "new"
  PROVE  handler' \in [Handlers -> Handler] /\ HandlersFit'
<1>1. handler' \in [Handlers -> Handler] BY DEF Fits, TypeOK
<1>2. ASSUME NEW g \in Handlers
      PROVE  handler'[g] = IF g = h THEN s ELSE handler[g]
  BY DEF Fits, TypeOK
<1> QED BY <1>1, <1>2 DEF Fits, HandlersFit, At, Its

\* A handler that stays where it is stays fit.
LEMMA HandlersStay ==
  ASSUME Fits, UNCHANGED handler,
         \A r \in Runs : run[r].status # "new" => run'[r].status # "new"
  PROVE  HandlersFit'
BY DEF Fits, HandlersFit, At, Its

\* What a request saw stays seen.
LEMMA RequestsStay ==
  ASSUME Fits, UNCHANGED request,
         \A r \in Runs : run[r].status # "new" => run'[r].status # "new"
  PROVE  RequestsFit'
BY DEF Fits, TypeOK, Request, RequestsFit, Target

\* Throwing, returning and moving to another step of a call are such moves.
LEMMA MovesTyped ==
  ASSUME Fits, NEW h \in Handlers, ~At(h, "idle")
  PROVE  /\ Throws(h) => /\ handler' = [handler EXCEPT ![h] = Turn(handler[h].run)]
                         /\ Turn(handler[h].run) \in Handler
         /\ \A b \in Bots \cup {None} : handler[h].step # "turn" /\ Returns(h, b) =>
              \E s \in Handler :
                /\ handler' = [handler EXCEPT ![h] = s] /\ s.step = "settle"
                /\ s.run = handler[h].run /\ s.key = handler[h].key /\ s.target = b
<1>1. handler[h] \in Handler /\ handler[h].run \in Runs BY DEF Fits, TypeOK, HandlersFit
<1>2. Turn(handler[h].run) \in Handler BY <1>1, RecordsTyped
<1>3. ASSUME NEW b \in Bots \cup {None}, handler[h].step # "turn", Returns(h, b)
      PROVE  \E s \in Handler :
                /\ handler' = [handler EXCEPT ![h] = s] /\ s.step = "settle"
                /\ s.run = handler[h].run /\ s.key = handler[h].key /\ s.target = b
  <2> DEFINE s == [Turn(handler[h].run) EXCEPT !.step = "settle", !.target = b,
                     !.key = handler[h].key, !.claimed = handler[h].claimed]
  <2>1. s \in Handler /\ s.step = "settle" /\ s.run = handler[h].run
        /\ s.key = handler[h].key /\ s.target = b
    BY <1>1, <1>2, <1>3 DEF Turn, Idle, Handler, Steps
  <2>2. handler' = [handler EXCEPT ![h] = s] BY <1>3 DEF Returns
  <2> QED BY <2>1, <2>2
<1> QED BY <1>2, <1>3 DEF Throws

LEMMA TakeFits == ASSUME Fits, NEW h \in Handlers, NEW r \in Runs, Take(h, r) PROVE Fits'
<1>1. TypeOK'
  <2>1. run[r] \in Run /\ Turn(r) \in Handler BY RecordsTyped DEF Fits, TypeOK
  <2>2. run' \in [Runs -> Run] BY <2>1 DEF Take, Fits, TypeOK, Run, Statuses
  <2> QED BY <2>1, <2>2 DEF Take, Fits, TypeOK
<1>2. \A o \in Runs : run[o].status # "new" => run'[o].status # "new"
  BY DEF Take, Fits, TypeOK
<1>3. HandlersFit'
  BY <1>2, HandlerMoves, RecordsTyped DEF Take, Turn, Idle
<1>4. RequestsFit' BY <1>2, RequestsStay DEF Take
<1>5. BlankRuns'
  BY DEF Take, Fits, TypeOK, BlankRuns
<1> QED BY <1>1, <1>3, <1>4, <1>5 DEF Fits

LEMMA EndTurnFits == ASSUME Fits, NEW h \in Handlers, EndTurn(h) PROVE Fits'
<1>1. handler[h].run \in Runs /\ Its(h) \in Run /\ ~At(h, "idle")
  BY DEF EndTurn, Fits, HandlersFit, At, Its, TypeOK
<1>2. [Its(h) EXCEPT !.status = "completed", !.owner = None] \in Run
  BY <1>1 DEF Run, Statuses
<1>3. TypeOK' BY <1>1, <1>2, RecordsTyped DEF EndTurn, Fits, TypeOK
<1>4. \A o \in Runs : run'[o] = run[o] \/ run'[o] = [run[o] EXCEPT !.status = "completed", !.owner = None]
  BY <1>1 DEF EndTurn, Fits, TypeOK, Its
<1>5. \A o \in Runs : /\ run[o].status # "new" => run'[o].status # "new"
                      /\ run'[o] = run[o] \/ run'[o].status = "completed"
  BY <1>4 DEF Fits, TypeOK, Run
<1>6. HandlersFit'
  <2>1. Idle.step = "idle" /\ Idle \in Handler BY RecordsTyped DEF Idle
  <2>2. handler' = [handler EXCEPT ![h] = Idle] BY DEF EndTurn
  <2> QED BY <2>1, <2>2, <1>5, HandlerMoves
<1>7. RequestsFit' BY <1>5, RequestsStay DEF EndTurn
<1>8. BlankRuns' BY <1>5 DEF Fits, BlankRuns
<1> QED BY <1>3, <1>6, <1>7, <1>8 DEF Fits

\* A step of a call that leaves all rows as they are.
LEMMA CallStepFits ==
  ASSUME Fits, NEW h \in Handlers, NEW s \in Handler, ~At(h, "idle"),
         handler' = [handler EXCEPT ![h] = s], s.run = handler[h].run,
         s.step \notin {"idle", "turn"} => s.key \in Keys,
         s.step \in {"address", "check", "deliver", "hand", "prompt"} => s.target \in Bots,
         UNCHANGED <<bot, grouped, members, run, request, depth, asked, lapses>>,
         effect' \in [Keys -> Effect]
  PROVE  Fits'
<1>1. handler[h].run \in Runs /\ Its(h).status # "new" BY DEF Fits, HandlersFit
<1>2. HandlersFit' /\ handler' \in [Handlers -> Handler] BY <1>1, HandlerMoves DEF Its
<1>3. TypeOK' BY <1>2 DEF Fits, TypeOK
<1>4. RequestsFit' /\ BlankRuns' BY DEF Fits, RequestsFit, BlankRuns, Target
<1> QED BY <1>2, <1>3, <1>4 DEF Fits

LEMMA CallFits ==
  ASSUME Fits, NEW h \in Handlers, NEW k \in Keys, NEW op \in Ops, NEW b \in Bots, Call(h, k, op, b)
  PROVE  Fits'
<1> DEFINE s == [handler[h] EXCEPT !.step = First(op), !.op = op, !.key = k,
                                   !.target = IF op = "spawn" THEN None ELSE b,
                                   !.claimed = effect[k].status = "intended"]
<1>1. handler[h] \in Handler /\ handler[h].run \in Runs /\ ~At(h, "idle")
  BY DEF Call, Fits, TypeOK, HandlersFit, At
<1>2. First(op) \in {"address", "hand", "create"} /\ (First(op) # "create" => op # "spawn")
  BY DEF First, Ops
<1>3. s \in Handler /\ s.run = handler[h].run /\ s.key = k /\ s.step = First(op)
      /\ s.target = (IF op = "spawn" THEN None ELSE b)
  BY <1>1, <1>2 DEF Handler, Steps
<1>4. effect' \in [Keys -> Effect]
  <2>1. [run |-> handler[h].run,
         status |-> IF effect[k].status = "none" THEN "intended" ELSE "executing"] \in Effect
    BY <1>1 DEF Effect
  <2> QED BY <2>1 DEF Call, Fits, TypeOK
<1>5. handler' = [handler EXCEPT ![h] = s] BY DEF Call
<1>6. UNCHANGED <<bot, grouped, members, run, request, depth, asked, lapses>> BY DEF Call
<1> HIDE DEF s
<1> QED BY <1>1, <1>2, <1>3, <1>4, <1>5, <1>6, CallStepFits

LEMMA SettleFits == ASSUME Fits, NEW h \in Handlers, Settle(h) PROVE Fits'
<1>1. ~At(h, "idle") /\ handler[h].key \in Keys BY DEF Settle, At, Fits, HandlersFit
<1>2. effect' \in [Keys -> Effect]
  <2>1. effect[handler[h].key] \in Effect BY <1>1 DEF Fits, TypeOK
  <2>2. [effect[handler[h].key] EXCEPT !.status = "completed"] \in Effect BY <2>1 DEF Effect
  <2> QED BY <1>1, <2>2 DEF Settle, Fits, TypeOK
<1>3. /\ Turn(handler[h].run) \in Handler /\ Turn(handler[h].run).step = "turn"
      /\ Turn(handler[h].run).run = handler[h].run
  BY <1>1, RecordsTyped DEF Turn, Idle, Fits, HandlersFit
<1> QED BY <1>1, <1>2, <1>3, CallStepFits DEF Settle, Throws

\* A call that returns or throws and changes nothing else.
LEMMA LeavesFits ==
  ASSUME Fits, NEW h \in Handlers, handler[h].step \notin {"idle", "turn"},
         Throws(h) \/ \E b \in Bots \cup {None} : Returns(h, b),
         UNCHANGED <<rows, request, depth, asked, lapses>>
  PROVE  Fits'
<1>1. ~At(h, "idle") /\ handler[h].run \in Runs /\ handler[h].key \in Keys /\ effect' \in [Keys -> Effect]
  BY DEF At, Fits, HandlersFit, rows, TypeOK
<1>2. /\ Turn(handler[h].run) \in Handler /\ Turn(handler[h].run).step = "turn"
      /\ Turn(handler[h].run).run = handler[h].run
  BY <1>1, RecordsTyped DEF Turn, Idle
<1>3. CASE Throws(h) BY <1>1, <1>2, <1>3, CallStepFits DEF Throws, rows
<1>4. ASSUME NEW b \in Bots \cup {None}, Returns(h, b) PROVE Fits'
  BY <1>1, <1>4, MovesTyped, CallStepFits DEF rows
<1> QED BY <1>3, <1>4

\* The steps of a call that only look.
LEMMA AddressFits == ASSUME Fits, NEW h \in Handlers, Address(h) PROVE Fits'
<1> DEFINE hop == NextHop(handler[h].run)
           s == [handler[h] EXCEPT !.step = "check", !.hop = hop]
<1>1. handler[h] \in Handler /\ handler[h].run \in Runs /\ handler[h].target \in Bots
      /\ handler[h].key \in Keys /\ ~At(h, "idle")
  BY DEF Address, Fits, TypeOK, HandlersFit, At
<1>2. hop \in Nat BY <1>1 DEF NextHop, Fits, TypeOK, Run
<1>3. s \in Handler /\ s.run = handler[h].run /\ s.key = handler[h].key /\ s.step = "check"
      /\ s.target = handler[h].target
  BY <1>1, <1>2 DEF Handler, Steps
<1>4. UNCHANGED <<rows, request, depth, asked, lapses>>
      /\ (handler' = [handler EXCEPT ![h] = s] \/ Returns(h, None))
  BY DEF Address
<1>5. CASE Returns(h, None) BY <1>1, <1>4, <1>5, LeavesFits DEF Address, At
<1>6. CASE handler' = [handler EXCEPT ![h] = s]
  <2>1. effect' \in [Keys -> Effect] BY <1>4 DEF rows, Fits, TypeOK
  <2>2. UNCHANGED <<bot, grouped, members, run, request, depth, asked, lapses>> BY <1>4 DEF rows
  <2> HIDE DEF s
  <2> QED BY <1>1, <1>3, <1>6, <2>1, <2>2, CallStepFits
<1> QED BY <1>4, <1>5, <1>6

LEMMA CheckFits == ASSUME Fits, NEW h \in Handlers, Check(h) PROVE Fits'
<1> DEFINE s == [handler[h] EXCEPT !.step = "deliver"]
<1>1. handler[h] \in Handler /\ handler[h].run \in Runs /\ handler[h].target \in Bots
      /\ handler[h].key \in Keys /\ ~At(h, "idle")
  BY DEF Check, Fits, TypeOK, HandlersFit, At
<1>2. s \in Handler /\ s.run = handler[h].run /\ s.key = handler[h].key /\ s.step = "deliver"
      /\ s.target = handler[h].target
  BY <1>1 DEF Handler, Steps
<1>3. UNCHANGED <<rows, request, depth, asked, lapses>>
      /\ (handler' = [handler EXCEPT ![h] = s] \/ Returns(h, None))
  BY DEF Check, Goes
<1>4. CASE Returns(h, None) BY <1>1, <1>3, <1>4, LeavesFits DEF Check, At
<1>5. CASE handler' = [handler EXCEPT ![h] = s]
  <2>1. effect' \in [Keys -> Effect] BY <1>3 DEF rows, Fits, TypeOK
  <2>2. UNCHANGED <<bot, grouped, members, run, request, depth, asked, lapses>> BY <1>3 DEF rows
  <2> HIDE DEF s
  <2> QED BY <1>1, <1>2, <1>5, <2>1, <2>2, CallStepFits
<1> QED BY <1>3, <1>4, <1>5

LEMMA LooksFit ==
  ASSUME Fits, NEW h \in Handlers,
         Undelivered(h) \/ RefuseHandOff(h) \/ CreateBotFails(h) \/ FindSpawnRun(h)
  PROVE  Fits'
<1>1. handler[h].step \notin {"idle", "turn"}
      /\ UNCHANGED <<rows, request, depth, asked, lapses>>
  BY DEF Undelivered, RefuseHandOff, CreateBotFails, FindSpawnRun, At
<1>2. FindSpawnRun(h) => handler[h].target \in Bots
  BY DEF FindSpawnRun, Fits, HandlersFit, At
<1>3. Throws(h) \/ \E b \in Bots \cup {None} : Returns(h, b)
  BY <1>2 DEF Undelivered, RefuseHandOff, CreateBotFails, FindSpawnRun
<1> QED BY <1>1, <1>3, LeavesFits

\* Going on with the bot that was created.
LEMMA PromptTyped ==
  ASSUME Fits, NEW h \in Handlers, NEW b \in Bots, At(h, "create")
  PROVE  LET s == [handler[h] EXCEPT !.step = "prompt", !.target = b]
         IN /\ s \in Handler /\ s.run = handler[h].run /\ s.key = handler[h].key
            /\ s.step = "prompt" /\ s.target = b
BY DEF At, Fits, TypeOK, Handler, Steps

LEMMA FindSpawnedFits == ASSUME Fits, NEW h \in Handlers, FindSpawned(h) PROVE Fits'
<1> PICK b \in Spawned(h) : handler' = [handler EXCEPT ![h] =
                              [handler[h] EXCEPT !.step = "prompt", !.target = b]]
  BY DEF FindSpawned
<1> DEFINE s == [handler[h] EXCEPT !.step = "prompt", !.target = b]
<1>1. b \in Bots /\ At(h, "create") /\ ~At(h, "idle") BY DEF Spawned, FindSpawned, At
<1>2. s \in Handler /\ s.run = handler[h].run /\ s.key = handler[h].key
      /\ s.step = "prompt" /\ s.target = b
  BY <1>1, PromptTyped
<1>3. handler[h].key \in Keys BY <1>1 DEF Fits, HandlersFit, At
<1>4. effect' \in [Keys -> Effect] BY DEF FindSpawned, rows, Fits, TypeOK
<1>5. UNCHANGED <<bot, grouped, members, run, request, depth, asked, lapses>>
  BY DEF FindSpawned, rows
<1>6. handler' = [handler EXCEPT ![h] = s] OBVIOUS
<1> HIDE DEF s
<1> QED BY <1>1, <1>2, <1>3, <1>4, <1>5, <1>6, CallStepFits

LEMMA CreateBotFits ==
  ASSUME Fits, NEW h \in Handlers, NEW b \in Bots, CreateBot(h, b) PROVE Fits'
<1> DEFINE s == [handler[h] EXCEPT !.step = "prompt", !.target = b]
<1>1. s \in Handler /\ s.run = handler[h].run /\ s.key = handler[h].key
      /\ s.step = "prompt" /\ s.target = b
  BY PromptTyped DEF CreateBot
<1>2. handler[h].run \in Runs /\ handler[h].key \in Keys /\ Its(h).status # "new"
  BY DEF CreateBot, At, Fits, HandlersFit
<1>3. handler' = [handler EXCEPT ![h] = s] BY DEF CreateBot
<1>4. handler' \in [Handlers -> Handler] /\ HandlersFit'
  <2> HIDE DEF s
  <2> QED BY <1>1, <1>2, <1>3, HandlerMoves DEF CreateBot, Its
<1>5. bot' \in [Bots -> Bot] BY <1>2 DEF CreateBot, Fits, TypeOK, Bot
<1>6. TypeOK' BY <1>4, <1>5 DEF CreateBot, Fits, TypeOK
<1>7. RequestsFit' /\ BlankRuns' BY DEF CreateBot, Fits, RequestsFit, BlankRuns, Target
<1> QED BY <1>4, <1>6, <1>7 DEF Fits

\* A call that inserts a run and returns.
LEMMA InsertFits ==
  ASSUME Fits, NEW h \in Handlers, handler[h].step \notin {"idle", "turn"},
         NEW r \in Runs, NEW new \in Run, new.status = "queued", Insert(r, new),
         NEW b \in Bots \cup {None}, Returns(h, b), depth' \in [Runs -> Nat],
         UNCHANGED <<bot, grouped, members, effect, request, asked, lapses>>
  PROVE  Fits'
<1>1. /\ run' \in [Runs -> Run] /\ run'[r] = new
      /\ \A o \in Runs \ {r} : run'[o] = run[o]
  BY InsertFacts DEF Fits
<1>2. \A o \in Runs : run[o].status # "new" => run'[o].status # "new" BY <1>1
<1>3. ~At(h, "idle") /\ handler[h].run \in Runs /\ Its(h).status # "new" /\ handler[h].key \in Keys
  BY DEF At, Fits, HandlersFit
<1>4. handler' \in [Handlers -> Handler] /\ HandlersFit'
  <2> DEFINE s == [Turn(handler[h].run) EXCEPT !.step = "settle", !.target = b,
                     !.key = handler[h].key, !.claimed = handler[h].claimed]
  <2>1. /\ s \in Handler /\ s.step = "settle" /\ s.run = handler[h].run
        /\ s.key = handler[h].key
    BY <1>3 DEF Turn, Idle, Handler, Steps, Fits, TypeOK
  <2>2. handler' = [handler EXCEPT ![h] = s] BY DEF Returns
  <2> HIDE DEF s
  <2> QED BY <1>2, <1>3, <2>1, <2>2, HandlerMoves DEF Its
<1>5. TypeOK' BY <1>1, <1>4 DEF Fits, TypeOK
<1>6. RequestsFit' BY <1>2, RequestsStay
<1>7. BlankRuns' BY <1>1 DEF Fits, BlankRuns
<1> QED BY <1>4, <1>5, <1>6, <1>7 DEF Fits

LEMMA DeliverFits ==
  ASSUME Fits, NEW h \in Handlers, NEW r \in Runs, Deliver(h, r) PROVE Fits'
<1> DEFINE new == NewRun(handler[h].target, "home", "bot_message", handler[h].key, handler[h].hop)
<1>1. handler[h] \in Handler /\ handler[h].run \in Runs /\ handler[h].target \in Bots
      /\ handler[h].key \in Keys /\ handler[h].hop \in Nat
  BY DEF Deliver, Fits, TypeOK, HandlersFit, At, Handler
<1>2. new \in Run /\ new.status = "queued" BY <1>1, NewRunTyped DEF NewRun
<1>3. depth' \in [Runs -> Nat] BY <1>1 DEF Deliver, Fits, TypeOK
<1> HIDE DEF new
<1>4. Insert(r, new) BY DEF Deliver, new
<1> QED BY <1>2, <1>3, <1>4, InsertFits DEF Deliver, At

LEMMA HandOffFits ==
  ASSUME Fits, NEW h \in Handlers, NEW r \in Runs, HandOff(h, r) PROVE Fits'
<1> DEFINE new == NewRun(handler[h].target, "group", "user", None, 0)
<1>1. handler[h].target \in Bots BY DEF HandOff, Fits, HandlersFit, At
<1>2. new \in Run /\ new.status = "queued" BY <1>1, NewRunTyped DEF NewRun
<1>3. depth' \in [Runs -> Nat] BY DEF HandOff, Fits, TypeOK
<1> HIDE DEF new
<1>4. Insert(r, new) BY DEF HandOff, new
<1> QED BY <1>2, <1>3, <1>4, InsertFits DEF HandOff, At

LEMMA EnsureSpawnRunFits ==
  ASSUME Fits, NEW h \in Handlers, NEW r \in Runs, EnsureSpawnRun(h, r) PROVE Fits'
<1> DEFINE new == NewRun(handler[h].target, "home", "spawn", handler[h].key, 0)
<1>1. handler[h].target \in Bots /\ handler[h].key \in Keys
  BY DEF EnsureSpawnRun, Fits, HandlersFit, At
<1>2. new \in Run /\ new.status = "queued" BY <1>1, NewRunTyped DEF NewRun
<1>3. depth' \in [Runs -> Nat] BY DEF EnsureSpawnRun, Fits, TypeOK
<1> HIDE DEF new
<1>4. Insert(r, new) BY DEF EnsureSpawnRun, new
<1> QED BY <1>1, <1>2, <1>3, <1>4, InsertFits DEF EnsureSpawnRun, At

\* Requests: asking, and ending.
LEMMA StartsFits ==
  ASSUME Fits, NEW q \in Requests, NEW record \in Request, Starts(q, record),
         record.step # "cancel" \/ record.op = "destroy",
         record.op \in BotOps => record.bot \in Bots,
         record.op = "update" => Enough(record.bots),
         \A r \in record.seen : run[r].status # "new"
  PROVE  Fits'
<1>1. TypeOK' BY DEF Starts, rows, Fits, TypeOK
<1>2. \A p \in Requests : request'[p] = IF p = q THEN record ELSE request[p]
  BY DEF Starts, Fits, TypeOK
<1>3. RequestsFit' BY <1>2 DEF Starts, rows, Fits, RequestsFit, Target
<1>4. HandlersFit' /\ BlankRuns'
  BY HandlersStay DEF Starts, rows, Fits, BlankRuns
<1> QED BY <1>1, <1>3, <1>4 DEF Fits

LEMMA AskBotFits ==
  ASSUME Fits, NEW q \in Requests, NEW op \in ThreadOps \cup BotOps, NEW b \in Bots,
         AskBot(q, op, b)
  PROVE  Fits'
<1> DEFINE record == [step |-> IF op = "destroy" THEN "cancel" ELSE "commit",
                      op |-> op, bot |-> b, bots |-> {},
                      seen |-> IF op \in {"archive", "destroy"}
                               THEN {r \in RunsOf(b) : Active(r)} ELSE {}]
<1>1. record \in Request BY DEF Request, RunsOf
<1>2. Starts(q, record) BY DEF AskBot
<1>3. /\ record.step # "cancel" \/ record.op = "destroy"
      /\ record.bot \in Bots /\ record.op # "update"
      /\ \A r \in record.seen : run[r].status # "new"
  BY DEF ThreadOps, BotOps, Active
<1> HIDE DEF record
<1> QED BY <1>1, <1>2, <1>3, StartsFits

LEMMA AskGroupFits ==
  ASSUME Fits, NEW q \in Requests, NEW op \in ThreadOps \cup GroupOps, NEW bots \in SUBSET Bots,
         AskGroup(q, op, bots)
  PROVE  Fits'
<1> DEFINE record == [step |-> "commit", op |-> op, bot |-> None, bots |-> bots, seen |-> {}]
<1>1. record \in Request BY DEF Request
<1>2. Starts(q, record) BY DEF AskGroup
<1>3. /\ record.step # "cancel" /\ record.op \notin BotOps
      /\ record.op = "update" => Enough(record.bots)
      /\ record.seen = {}
  BY DEF AskGroup, ThreadOps, GroupOps, BotOps
<1> HIDE DEF record
<1> QED BY <1>1, <1>2, <1>3, StartsFits

LEMMA DoneFits ==
  ASSUME Fits, NEW q \in Requests, Done(q),
         \A r \in Runs : run[r].status # "new" => run'[r].status # "new"
  PROVE  request' \in [Requests -> Request] /\ RequestsFit'
<1>1. \A p \in Requests : request'[p] = IF p = q THEN NoRequest ELSE request[p]
  BY DEF Done, Fits, TypeOK
<1>2. request' \in [Requests -> Request] BY RecordsTyped DEF Done, Fits, TypeOK
<1>3. RequestsFit' BY <1>1 DEF Fits, TypeOK, Request, RequestsFit, Target, NoRequest
<1> QED BY <1>2, <1>3

\* A request that does to the runs what leaves each fit.
LEMMA CommitFits ==
  ASSUME Fits, NEW q \in Requests, Done(q), run' \in [Runs -> Run],
         \A r \in Runs : /\ run[r].status # "new" => run'[r].status # "new"
                         /\ run'[r].status \in {"new", "gone"} =>
                              run'[r].trigger = "user" /\ run'[r].thread = "home",
         bot' \in [Bots -> Bot], grouped' \in BOOLEAN, members' \subseteq Bots,
         effect' \in [Keys -> Effect],
         UNCHANGED <<handler, depth, asked, lapses>>
  PROVE  Fits'
<1>1. TypeOK' BY DoneFits DEF Fits, TypeOK
<1>2. HandlersFit' BY HandlersStay
<1>3. RequestsFit' /\ BlankRuns' BY DoneFits DEF BlankRuns
<1> QED BY <1>1, <1>2, <1>3 DEF Fits

LEMMA CancelledFits ==
  ASSUME Fits, NEW doomed, \A r \in doomed \cap Runs : run[r].status # "new"
  PROVE  /\ Cancelled(doomed) \in [Runs -> Run]
         /\ \A r \in Runs : /\ run[r].status # "new" => Cancelled(doomed)[r].status # "new"
                            /\ Cancelled(doomed)[r].status \in {"new", "gone"} =>
                                 /\ Cancelled(doomed)[r] = run[r]
                                 /\ run[r].trigger = "user" /\ run[r].thread = "home"
<1>1. \A r \in Runs : run[r] \in Run BY DEF Fits, TypeOK
<1>2. \A x \in Run : [x EXCEPT !.status = "cancelled", !.owner = None].status = "cancelled"
  BY DEF Run
<1>3. Cancelled(doomed) \in [Runs -> Run] BY CancelledFacts DEF Fits
<1>4. \A r \in Runs : Cancelled(doomed)[r] = run[r] \/ Cancelled(doomed)[r].status = "cancelled"
  BY <1>1, <1>2 DEF Cancelled
<1> QED BY <1>3, <1>4 DEF Fits, BlankRuns

LEMMA FailFits == ASSUME Fits, NEW q \in Requests, Fail(q) PROVE Fits'
BY CommitFits DEF Fail, rows, Fits, TypeOK, BlankRuns

LEMMA SendFits ==
  ASSUME Fits, NEW q \in Requests, NEW r \in Runs, NEW b \in Bots, Send(q, r, b) PROVE Fits'
<1> DEFINE thread == IF InGroup(q) THEN "group" ELSE "home"
           superseded == {o \in RunsOf(b) : run[o].thread = thread /\ run[o].status = "queued"}
           new == NewRun(b, thread, "user", None, 0)
<1>1. Done(q) /\ NextId(r) /\ run' = [Cancelled(superseded) EXCEPT ![r] = new]
      /\ UNCHANGED <<bot, grouped, members, effect, handler, depth, asked, lapses>>
  BY DEF Send, Commits
<1>2. new \in Run /\ new.status = "queued" BY NewRunTyped DEF NewRun
<1> HIDE DEF new
<1>3. \A o \in superseded \cap Runs : run[o].status # "new" OBVIOUS
<1> HIDE DEF superseded
<1>4. /\ run' \in [Runs -> Run]
      /\ \A o \in Runs : /\ run[o].status # "new" => run'[o].status # "new"
                         /\ run'[o].status \in {"new", "gone"} =>
                              run'[o].trigger = "user" /\ run'[o].thread = "home"
  BY <1>1, <1>2, <1>3, CancelledFits
<1>5. bot' \in [Bots -> Bot] /\ grouped' \in BOOLEAN /\ members' \subseteq Bots
      /\ effect' \in [Keys -> Effect]
  BY <1>1 DEF Fits, TypeOK
<1> QED BY <1>1, <1>4, <1>5, CommitFits

LEMMA StopFits == ASSUME Fits, NEW q \in Requests, Stop(q) PROVE Fits'
<1> DEFINE doomed == {r \in IF InGroup(q) THEN GroupRuns ELSE HomeRuns(Target(q)) : Active(r)}
<1>1. \A r \in doomed \cap Runs : run[r].status # "new" BY DEF Active
<1>2. run' = Cancelled(doomed) /\ Done(q) BY DEF Stop, Commits
<1> HIDE DEF doomed
<1>3. bot' \in [Bots -> Bot] /\ grouped' \in BOOLEAN /\ members' \subseteq Bots
      /\ effect' \in [Keys -> Effect] /\ UNCHANGED <<handler, depth, asked, lapses>>
  BY DEF Stop, Fits, TypeOK
<1> QED BY <1>1, <1>2, <1>3, CancelledFits, CommitFits

LEMMA ClearFits == ASSUME Fits, NEW q \in Requests, Clear(q) PROVE Fits'
<1> DEFINE b == Target(q)
           c == Cleared(b)
<1>1. \A r \in {o \in HomeRuns(b) : Active(o)} \cap Runs : run[r].status # "new" BY DEF Active
<1>2. /\ c \in [Runs -> Run]
      /\ \A r \in Runs : /\ run[r].status # "new" => c[r].status # "new"
                         /\ c[r].status \in {"new", "gone"} =>
                              c[r].trigger = "user" /\ c[r].thread = "home"
  BY <1>1, CancelledFits DEF Cleared
<1>3. /\ Done(q) /\ UNCHANGED <<bot, grouped, members, effect, handler, depth, asked, lapses>>
      /\ run' = [r \in Runs |-> IF r \in HomeRuns(b) THEN [c[r] EXCEPT !.kept = FALSE] ELSE run[r]]
  BY DEF Clear, Commits
<1> HIDE DEF c, b
<1>4. \A r \in Runs : LET x == [c[r] EXCEPT !.kept = FALSE]
                      IN /\ x \in Run /\ x.status = c[r].status
                         /\ x.trigger = c[r].trigger /\ x.thread = c[r].thread
  BY <1>2 DEF Run
<1>5. /\ run' \in [Runs -> Run]
      /\ \A r \in Runs : /\ run[r].status # "new" => run'[r].status # "new"
                         /\ run'[r].status \in {"new", "gone"} =>
                              run'[r].trigger = "user" /\ run'[r].thread = "home"
  BY <1>2, <1>3, <1>4 DEF Fits, TypeOK, BlankRuns
<1>6. bot' \in [Bots -> Bot] /\ grouped' \in BOOLEAN /\ members' \subseteq Bots
      /\ effect' \in [Keys -> Effect]
  BY <1>3 DEF Fits, TypeOK
<1> QED BY <1>3, <1>5, <1>6, CommitFits

LEMMA ArchiveFits == ASSUME Fits, NEW q \in Requests, Archive(q) PROVE Fits'
<1> DEFINE doomed == request[q].seen
<1>1. /\ \A r \in doomed \cap Runs : run[r].status # "new"
      /\ Target(q) \in Bots
  BY DEF Archive, Commits, Fits, RequestsFit, BotOps
<1>2. bot' \in [Bots -> Bot]
  <2>1. [bot[Target(q)] EXCEPT !.stage = "archived"] \in Bot BY <1>1 DEF Fits, TypeOK, Bot
  <2> QED BY <1>1, <2>1 DEF Archive, Fits, TypeOK
<1>3. run' = Cancelled(doomed) /\ Done(q) BY DEF Archive, Commits
<1> HIDE DEF doomed
<1>4. grouped' \in BOOLEAN /\ members' \subseteq Bots
      /\ effect' \in [Keys -> Effect] /\ UNCHANGED <<handler, depth, asked, lapses>>
  BY DEF Archive, Fits, TypeOK
<1> QED BY <1>1, <1>2, <1>3, <1>4, CancelledFits, CommitFits

LEMMA RestoreFits == ASSUME Fits, NEW q \in Requests, Restore(q) PROVE Fits'
<1>1. Target(q) \in Bots BY DEF Restore, Commits, Fits, RequestsFit, BotOps
<1>2. bot' \in [Bots -> Bot]
  <2>1. [bot[Target(q)] EXCEPT !.stage = "live"] \in Bot BY <1>1 DEF Fits, TypeOK, Bot
  <2> QED BY <1>1, <2>1 DEF Restore, Fits, TypeOK
<1>3. Done(q) /\ UNCHANGED <<grouped, members, run, effect, handler, depth, asked, lapses>>
  BY DEF Restore, Commits
<1> QED BY <1>2, <1>3, CommitFits DEF Fits, TypeOK, BlankRuns

LEMMA CancelDestroyedFits == ASSUME Fits, NEW q \in Requests, CancelDestroyed(q) PROVE Fits'
<1> DEFINE doomed == request[q].seen
<1>1. \A r \in doomed \cap Runs : run[r].status # "new" BY DEF Fits, RequestsFit
<1>2. /\ run' = Cancelled(doomed) /\ request' = [request EXCEPT ![q].step = "commit"]
      /\ request[q].step = "cancel"
      /\ UNCHANGED <<bot, grouped, members, effect, handler, depth, asked, lapses>>
  BY DEF CancelDestroyed
<1> HIDE DEF doomed
<1>3. /\ run' \in [Runs -> Run]
      /\ \A r \in Runs : /\ run[r].status # "new" => run'[r].status # "new"
                         /\ run'[r].status \in {"new", "gone"} =>
                              run'[r].trigger = "user" /\ run'[r].thread = "home"
  BY <1>1, <1>2, CancelledFits
<1>4. /\ request' \in [Requests -> Request]
      /\ \A p \in Requests : request'[p] =
           IF p = q THEN [request[q] EXCEPT !.step = "commit"] ELSE request[p]
  <2>1. [request[q] EXCEPT !.step = "commit"] \in Request BY DEF Fits, TypeOK, Request
  <2> QED BY <1>2, <2>1 DEF Fits, TypeOK
<1>5. TypeOK' BY <1>2, <1>3, <1>4 DEF Fits, TypeOK
<1>6. RequestsFit'
  <2> SUFFICES ASSUME NEW p \in Requests
               PROVE  /\ \A r \in request'[p].seen : run'[r].status # "new"
                      /\ request'[p].step # "idle" =>
                           /\ request'[p].op \in BotOps => request'[p].bot \in Bots
                           /\ request'[p].op = "update" => Enough(request'[p].bots)
                           /\ request'[p].step = "cancel" => request'[p].op = "destroy"
    BY DEF RequestsFit, Target
  <2>1. request[p] \in Request BY DEF Fits, TypeOK
  <2>2. /\ request'[p].seen = request[p].seen /\ request'[p].op = request[p].op
        /\ request'[p].bot = request[p].bot /\ request'[p].bots = request[p].bots
        /\ request'[p].step = IF p = q THEN "commit" ELSE request[p].step
    BY <1>4, <2>1 DEF Request
  <2> QED BY <1>2, <1>3, <2>1, <2>2 DEF Fits, RequestsFit, Target, Request
<1>7. HandlersFit' /\ BlankRuns' BY <1>2, <1>3, HandlersStay DEF BlankRuns
<1> QED BY <1>5, <1>6, <1>7 DEF Fits

LEMMA DeletedFits ==
  ASSUME Fits, NEW doomed
  PROVE  /\ Deleted(doomed) \in [Runs -> Run]
         /\ \A r \in Runs : /\ run[r].status # "new" => Deleted(doomed)[r].status # "new"
                            /\ Deleted(doomed)[r].status \in {"new", "gone"} =>
                                 /\ Deleted(doomed)[r].trigger = "user"
                                 /\ Deleted(doomed)[r].thread = "home"
BY DeletedFacts DEF Fits, BlankRuns, NoRun

LEMMA CascadeTyped ==
  ASSUME Fits, NEW doomed, Cascade(doomed) PROVE effect' \in [Keys -> Effect]
<1>1. [run |-> None, status |-> "deleted"] \in Effect BY DEF Effect
<1> QED BY <1>1 DEF Cascade, Fits, TypeOK

LEMMA DestroyFits == ASSUME Fits, NEW q \in Requests, Destroy(q) PROVE Fits'
<1> DEFINE b == Target(q)
           doomed == RunsOf(b) \cup IF Dissolves(b) THEN GroupRuns ELSE {}
<1>1. b \in Bots BY DEF Destroy, Commits, Fits, RequestsFit, BotOps
<1>2. bot' \in [Bots -> Bot]
  <2>1. [stage |-> "gone", key |-> None] \in Bot BY DEF Bot
  <2> QED BY <1>1, <2>1 DEF Destroy, Fits, TypeOK
<1>3. Cascade(doomed) /\ Done(q) /\ UNCHANGED <<handler, depth, asked, lapses>>
  BY DEF Destroy, Commits
<1>4. grouped' \in BOOLEAN /\ members' \subseteq Bots BY DEF Destroy, Fits, TypeOK
<1> HIDE DEF doomed
<1> QED BY <1>2, <1>3, <1>4, CascadeTyped, DeletedFits, CommitFits DEF Cascade

LEMMA UpdateGroupFits == ASSUME Fits, NEW q \in Requests, UpdateGroup(q) PROVE Fits'
<1> DEFINE doomed == {r \in GroupRuns : Active(r) /\ run[r].bot \in members \ request[q].bots}
<1>1. \A r \in doomed \cap Runs : run[r].status # "new" BY DEF Active
<1>2. run' = Cancelled(doomed) /\ Done(q) BY DEF UpdateGroup, Commits
<1> HIDE DEF doomed
<1>3. bot' \in [Bots -> Bot] /\ grouped' \in BOOLEAN /\ members' \subseteq Bots
      /\ effect' \in [Keys -> Effect] /\ UNCHANGED <<handler, depth, asked, lapses>>
  BY DEF UpdateGroup, Fits, TypeOK, Request
<1> QED BY <1>1, <1>2, <1>3, CancelledFits, CommitFits

LEMMA RemoveGroupFits == ASSUME Fits, NEW q \in Requests, RemoveGroup(q) PROVE Fits'
<1>1. Cascade(GroupRuns) /\ Done(q) /\ UNCHANGED <<handler, depth, asked, lapses>>
  BY DEF RemoveGroup, Commits
<1>2. bot' \in [Bots -> Bot] /\ grouped' \in BOOLEAN /\ members' \subseteq Bots
  BY DEF RemoveGroup, Fits, TypeOK
<1> QED BY <1>1, <1>2, CascadeTyped, DeletedFits, CommitFits DEF Cascade

\* A stuttering step.
LEMMA StutterFits == ASSUME Fits, UNCHANGED vars PROVE Fits'
BY DEF vars, rows, Fits, TypeOK, HandlersFit, RequestsFit, BlankRuns, At, Its, Target, Enough

LEMMA FitsStep == Fits /\ [Next]_vars => Fits'
<1> SUFFICES ASSUME Fits, [Next]_vars PROVE Fits' OBVIOUS
<1>1. CASE UNCHANGED vars BY <1>1, StutterFits
<1>2. ASSUME NEW h \in Handlers, HandlerNext(h) PROVE Fits'
  <2>1. CASE \E r \in Runs : Take(h, r) \/ Deliver(h, r) \/ HandOff(h, r) \/ EnsureSpawnRun(h, r)
    BY <2>1, TakeFits, DeliverFits, HandOffFits, EnsureSpawnRunFits
  <2>2. CASE \E k \in Keys, op \in Ops, b \in Bots : Call(h, k, op, b) BY <2>2, CallFits
  <2>3. CASE \E b \in Bots : CreateBot(h, b) BY <2>3, CreateBotFits
  <2>4. CASE EndTurn(h) \/ Settle(h) BY <2>4, EndTurnFits, SettleFits
  <2>5. CASE Address(h) \/ Check(h) \/ FindSpawned(h)
    BY <2>5, AddressFits, CheckFits, FindSpawnedFits
  <2>6. CASE Undelivered(h) \/ RefuseHandOff(h) \/ CreateBotFails(h) \/ FindSpawnRun(h)
    BY <2>6, LooksFit
  <2> QED BY <1>2, <2>1, <2>2, <2>3, <2>4, <2>5, <2>6 DEF HandlerNext
<1>3. ASSUME NEW q \in Requests, RequestNext(q) PROVE Fits'
  <2>1. CASE \E op \in ThreadOps \cup BotOps, b \in Bots : AskBot(q, op, b) BY <2>1, AskBotFits
  <2>2. CASE \E op \in ThreadOps \cup GroupOps, bots \in SUBSET Bots : AskGroup(q, op, bots)
    BY <2>2, AskGroupFits
  <2>3. CASE \E r \in Runs, b \in Bots : Send(q, r, b) BY <2>3, SendFits
  <2>4. CASE Stop(q) \/ Clear(q) \/ Archive(q) \/ Restore(q)
    BY <2>4, StopFits, ClearFits, ArchiveFits, RestoreFits
  <2>5. CASE CancelDestroyed(q) \/ Destroy(q) BY <2>5, CancelDestroyedFits, DestroyFits
  <2>6. CASE UpdateGroup(q) \/ RemoveGroup(q) \/ Fail(q)
    BY <2>6, UpdateGroupFits, RemoveGroupFits, FailFits
  <2> QED BY <1>3, <2>1, <2>2, <2>3, <2>4, <2>5, <2>6 DEF RequestNext
<1> QED BY <1>1, <1>2, <1>3 DEF Next

\* Bots, runs, effects and slots have their types, whatever interleaves.
THEOREM DelegationTypeCorrect == Spec => []TypeOK
<1>1. Fits => TypeOK BY DEF Fits
<1> QED BY <1>1, FitsInit, FitsStep, PTL DEF Spec

\* The rest relies on them.
LEMMA AlwaysFits == Spec => []Fits
BY FitsInit, FitsStep, PTL DEF Spec

-----------------------------------------------------------------------------
(* What a step does to a run: it inserts it, deletes it, or keeps what it  *)
(* is, and never makes it work again or gives it back its message.         *)

Keeps(r) ==
  /\ run'[r].bot = run[r].bot /\ run'[r].thread = run[r].thread
  /\ run'[r].trigger = run[r].trigger /\ run'[r].key = run[r].key /\ run'[r].hop = run[r].hop
  /\ run'[r].status = "new" <=> run[r].status = "new"
  /\ run'[r].status = "gone" <=> run[r].status = "gone"
  /\ run'[r].status \in {"queued", "running"} => Active(r)
  /\ run[r].status = "cancelled" => run'[r].status = "cancelled"
  /\ run'[r].kept => run[r].kept
  /\ run[r].kept /\ run'[r].status \in {"queued", "running"} => run'[r].kept

Vanishes(r) == run'[r] = [NoRun EXCEPT !.status = "gone"]

Comes(r) ==
  /\ run[r].status = "new"
  /\ \/ \E h \in Handlers : Deliver(h, r) \/ HandOff(h, r) \/ EnsureSpawnRun(h, r)
     \/ \E q \in Requests, b \in Bots : Send(q, r, b)

LEMMA KeptAsItIs == ASSUME NEW r, run'[r] = run[r] PROVE Keeps(r)
BY DEF Keeps, Active

LEMMA CancelledKeeps ==
  ASSUME Fits, NEW doomed, \A r \in doomed \cap Runs : run[r].status # "new",
         NEW r \in Runs, run'[r] = Cancelled(doomed)[r]
  PROVE  Keeps(r)
<1>1. run[r] \in Run BY DEF Fits, TypeOK
<1>2. CASE run'[r] = run[r] BY <1>2, KeptAsItIs
<1>3. CASE /\ run[r].status \notin {"gone", "new"}
           /\ run'[r] = [run[r] EXCEPT !.status = "cancelled", !.owner = None]
  BY <1>1, <1>3 DEF Keeps, Run
<1> QED BY <1>2, <1>3 DEF Cancelled

LEMMA DeletedGoes ==
  ASSUME Fits, NEW doomed, NEW r \in Runs, run'[r] = Deleted(doomed)[r]
  PROVE  Keeps(r) \/ Vanishes(r)
BY DeletedFacts, KeptAsItIs DEF Fits, Vanishes

LEMMA InsertComes ==
  ASSUME Fits, NEW n \in Runs, NEW new, Insert(n, new), NEW r \in Runs, r # n
  PROVE  Keeps(r)
BY KeptAsItIs DEF Insert, Fits, TypeOK

LEMMA HandlersChangeRuns ==
  ASSUME Fits, NEW h \in Handlers, HandlerNext(h), NEW r \in Runs
  PROVE  Keeps(r) \/ Comes(r)
<1>1. ASSUME NEW n \in Runs, Take(h, n) PROVE Keeps(r)
  <2>1. run[r] \in Run BY DEF Fits, TypeOK
  <2>2. CASE r = n
    <3>1. /\ run'[r] = [run[r] EXCEPT !.status = "running", !.owner = h]
          /\ run[r].status \in {"queued", "running"}
      BY <1>1, <2>2 DEF Take, Fits, TypeOK
    <3> QED BY <2>1, <3>1 DEF Keeps, Active, Run
  <2>3. CASE r # n BY <1>1, <2>3, KeptAsItIs DEF Take, Fits, TypeOK
  <2> QED BY <2>2, <2>3
<1>2. ASSUME NEW n \in Runs, Deliver(h, n) \/ HandOff(h, n) \/ EnsureSpawnRun(h, n)
      PROVE  Keeps(r) \/ Comes(r)
  <2>1. CASE r = n BY <1>2, <2>1 DEF Comes, Deliver, HandOff, EnsureSpawnRun, Insert, NextId
  <2>2. CASE r # n BY <1>2, <2>2, InsertComes DEF Deliver, HandOff, EnsureSpawnRun
  <2> QED BY <2>1, <2>2
<1>3. CASE EndTurn(h)
  <2>1. run[r] \in Run BY DEF Fits, TypeOK
  <2>2. CASE run'[r] = run[r] BY <2>2, KeptAsItIs
  <2>3. CASE /\ run[r].status = "running"
             /\ run'[r] = [run[r] EXCEPT !.status = "completed", !.owner = None]
    BY <2>1, <2>3 DEF Keeps, Active, Run
  <2> QED BY <1>3, <2>2, <2>3 DEF EndTurn, Its, Fits, TypeOK
<1>4. CASE UNCHANGED run BY <1>4, KeptAsItIs
<1>5. \/ \E n \in Runs : \/ Take(h, n)
                         \/ Deliver(h, n) \/ HandOff(h, n) \/ EnsureSpawnRun(h, n)
      \/ EndTurn(h)
      \/ UNCHANGED run
  BY DEF HandlerNext, Call, CreateBot, Settle, Address, Check, Undelivered, RefuseHandOff,
         FindSpawned, CreateBotFails, FindSpawnRun, rows
<1> QED BY <1>1, <1>2, <1>3, <1>4, <1>5

LEMMA RequestsChangeRuns ==
  ASSUME Fits, NEW q \in Requests, RequestNext(q), NEW r \in Runs
  PROVE  Keeps(r) \/ Vanishes(r) \/ Comes(r)
<1>1. ASSUME NEW n \in Runs, NEW b \in Bots, Send(q, n, b) PROVE Keeps(r) \/ Comes(r)
  <2> DEFINE thread == IF InGroup(q) THEN "group" ELSE "home"
             superseded == {o \in RunsOf(b) : run[o].thread = thread /\ run[o].status = "queued"}
  <2>1. CASE r = n BY <1>1, <2>1 DEF Send, NextId, Comes
  <2>2. CASE r # n
    <3>1. run'[r] = Cancelled(superseded)[r] BY <1>1, <2>2 DEF Send, Cancelled
    <3>2. \A o \in superseded \cap Runs : run[o].status # "new" OBVIOUS
    <3> QED BY <3>1, <3>2, CancelledKeeps
  <2> QED BY <2>1, <2>2
<1>2. CASE Stop(q)
  <2> DEFINE doomed == {o \in IF InGroup(q) THEN GroupRuns ELSE HomeRuns(Target(q)) : Active(o)}
  <2>1. \A o \in doomed \cap Runs : run[o].status # "new" BY DEF Active
  <2>2. run'[r] = Cancelled(doomed)[r] BY <1>2 DEF Stop
  <2> QED BY <2>1, <2>2, CancelledKeeps
<1>3. CASE Clear(q)
  <2>1. run[r] \in Run BY DEF Fits, TypeOK
  <2>2. CASE r \notin HomeRuns(Target(q)) BY <1>3, <2>2, KeptAsItIs DEF Clear
  <2>3. CASE r \in HomeRuns(Target(q)) /\ Active(r)
    <3>1. run'[r] = [[run[r] EXCEPT !.status = "cancelled", !.owner = None] EXCEPT !.kept = FALSE]
      BY <1>3, <2>3 DEF Clear, Cleared, Cancelled, Active
    <3> QED BY <2>1, <2>3, <3>1 DEF Keeps, Active, Run
  <2>4. CASE r \in HomeRuns(Target(q)) /\ ~Active(r)
    <3>1. run'[r] = [run[r] EXCEPT !.kept = FALSE]
      BY <1>3, <2>4 DEF Clear, Cleared, Cancelled
    <3> QED BY <2>1, <2>4, <3>1 DEF Keeps, Active, Run
  <2> QED BY <2>2, <2>3, <2>4
<1>4. CASE Archive(q) \/ CancelDestroyed(q)
  <2>1. \A o \in request[q].seen \cap Runs : run[o].status # "new" BY DEF Fits, RequestsFit
  <2>2. run'[r] = Cancelled(request[q].seen)[r] BY <1>4 DEF Archive, CancelDestroyed
  <2> QED BY <2>1, <2>2, CancelledKeeps
<1>5. CASE Destroy(q) BY <1>5, DeletedGoes DEF Destroy, Cascade
<1>6. CASE RemoveGroup(q) BY <1>6, DeletedGoes DEF RemoveGroup, Cascade
<1>7. CASE UpdateGroup(q)
  <2> DEFINE doomed == {o \in GroupRuns : Active(o) /\ run[o].bot \in members \ request[q].bots}
  <2>1. \A o \in doomed \cap Runs : run[o].status # "new" BY DEF Active
  <2>2. run'[r] = Cancelled(doomed)[r] BY <1>7 DEF UpdateGroup
  <2> QED BY <2>1, <2>2, CancelledKeeps
<1>8. CASE UNCHANGED run BY <1>8, KeptAsItIs
<1>9. \/ \E n \in Runs, b \in Bots : Send(q, n, b)
      \/ Stop(q) \/ Clear(q) \/ Archive(q) \/ CancelDestroyed(q) \/ Destroy(q)
      \/ UpdateGroup(q) \/ RemoveGroup(q) \/ UNCHANGED run
  BY DEF RequestNext, AskBot, AskGroup, Starts, Restore, Fail, rows
<1> QED BY <1>1, <1>2, <1>3, <1>4, <1>5, <1>6, <1>7, <1>8, <1>9

LEMMA RunsChange ==
  ASSUME Fits, [Next]_vars, NEW r \in Runs PROVE Keeps(r) \/ Vanishes(r) \/ Comes(r)
<1>1. CASE UNCHANGED vars BY <1>1, KeptAsItIs DEF vars, rows
<1> QED BY <1>1, HandlersChangeRuns, RequestsChangeRuns DEF Next

-----------------------------------------------------------------------------
(* A tool call wakes a bot once.                                           *)

\* A run that a message woke has that message as long as it works.
WokenIsKept == \A r \in Runs : run[r].trigger = "bot_message" =>
  run[r].thread = "home" /\ (Active(r) => run[r].kept)

OneInbound == \A p, r \in Runs :
  /\ run[p].trigger = "bot_message" /\ run[r].trigger = "bot_message"
  /\ run[p].kept /\ run[r].kept /\ run[p].key = run[r].key /\ run[p].bot = run[r].bot
  => p = r

OneSpawnRun == \A p, r \in Runs :
  run[p].trigger = "spawn" /\ run[r].trigger = "spawn" /\ run[p].key = run[r].key => p = r

Once == WokenIsKept /\ OneInbound /\ OneSpawnRun

\* What a run that comes is, by the operation that inserts it.
LEMMA ComesAs ==
  ASSUME Fits, NEW r \in Runs, Comes(r)
  PROVE  /\ run'[r].status = "queued" /\ run[r].status = "new"
         /\ \A o \in Runs \ {r} : Keeps(o)
         /\ \/ \E h \in Handlers : Deliver(h, r)
               /\ run'[r] = NewRun(handler[h].target, "home", "bot_message", handler[h].key, handler[h].hop)
            \/ \E h \in Handlers : EnsureSpawnRun(h, r) /\ run'[r].trigger = "spawn"
               /\ run'[r] = NewRun(handler[h].target, "home", "spawn", handler[h].key, 0)
            \/ run'[r].trigger = "user"
<1>1. ASSUME NEW h \in Handlers, NEW new, Insert(r, new)
      PROVE  run'[r] = new /\ \A o \in Runs \ {r} : Keeps(o)
  BY <1>1, InsertComes DEF Insert, Fits, TypeOK
<1>2. ASSUME NEW h \in Handlers, Deliver(h, r)
      PROVE  /\ run'[r] = NewRun(handler[h].target, "home", "bot_message", handler[h].key, handler[h].hop)
             /\ run'[r].status = "queued" /\ \A o \in Runs \ {r} : Keeps(o)
  <2>1. /\ run'[r] = NewRun(handler[h].target, "home", "bot_message", handler[h].key, handler[h].hop)
        /\ \A o \in Runs \ {r} : Keeps(o)
    BY <1>1, <1>2 DEF Deliver
  <2> QED BY <2>1 DEF NewRun
<1>3. ASSUME NEW h \in Handlers, EnsureSpawnRun(h, r)
      PROVE  /\ run'[r] = NewRun(handler[h].target, "home", "spawn", handler[h].key, 0)
             /\ run'[r].status = "queued" /\ run'[r].trigger = "spawn"
             /\ \A o \in Runs \ {r} : Keeps(o)
  <2>1. /\ run'[r] = NewRun(handler[h].target, "home", "spawn", handler[h].key, 0)
        /\ \A o \in Runs \ {r} : Keeps(o)
    BY <1>1, <1>3 DEF EnsureSpawnRun
  <2> QED BY <2>1 DEF NewRun
<1>4. ASSUME NEW h \in Handlers, HandOff(h, r)
      PROVE  /\ run'[r].status = "queued" /\ run'[r].trigger = "user"
             /\ \A o \in Runs \ {r} : Keeps(o)
  <2>1. /\ run'[r] = NewRun(handler[h].target, "group", "user", None, 0)
        /\ \A o \in Runs \ {r} : Keeps(o)
    BY <1>1, <1>4 DEF HandOff
  <2> QED BY <2>1 DEF NewRun
<1>5. ASSUME NEW q \in Requests, NEW b \in Bots, Send(q, r, b)
      PROVE  /\ run'[r].status = "queued" /\ run'[r].trigger = "user"
             /\ \A o \in Runs \ {r} : Keeps(o)
  <2> DEFINE thread == IF InGroup(q) THEN "group" ELSE "home"
             superseded == {o \in RunsOf(b) : run[o].thread = thread /\ run[o].status = "queued"}
             new == NewRun(b, thread, "user", None, 0)
  <2>1. run'[r] = new BY <1>5 DEF Send, Cancelled
  <2>2. new.status = "queued" /\ new.trigger = "user" BY DEF NewRun
  <2>3. \A o \in Runs \ {r} : run'[o] = Cancelled(superseded)[o] BY <1>5 DEF Send, Cancelled
  <2>4. \A o \in superseded \cap Runs : run[o].status # "new" OBVIOUS
  <2> HIDE DEF superseded, new
  <2> QED BY <2>1, <2>2, <2>3, <2>4, CancelledKeeps
<1> QED BY <1>2, <1>3, <1>4, <1>5 DEF Comes

LEMMA OnceStep == ASSUME Fits, Once, [Next]_vars PROVE Once'
<1>1. \A r \in Runs : Keeps(r) \/ Vanishes(r) \/ Comes(r) BY RunsChange
<1>2. \A r \in Runs : Vanishes(r) => run'[r].trigger = "user" BY DEF Vanishes, NoRun
<1>3. CASE \A r \in Runs : ~Comes(r)
  BY <1>1, <1>2, <1>3 DEF Once, WokenIsKept, OneInbound, OneSpawnRun, Keeps, Active
<1>4. ASSUME NEW r \in Runs, Comes(r) PROVE Once'
  <2>1. \A o \in Runs \ {r} : Keeps(o) BY <1>4, ComesAs
  <2>2. \A o \in Runs \ {r} : run[o].trigger # "user" => run[o].status \notin {"new", "gone"}
    BY DEF Fits, BlankRuns
  <2>3. ASSUME NEW h \in Handlers, Deliver(h, r),
               run'[r] = NewRun(handler[h].target, "home", "bot_message", handler[h].key, handler[h].hop)
        PROVE  Once'
    <3>1. \A o \in Runs \ {r} : ~(/\ run'[o].trigger = "bot_message" /\ run'[o].kept
                                  /\ run'[o].key = run'[r].key /\ run'[o].bot = run'[r].bot)
      BY <2>1, <2>2, <2>3 DEF Keeps, Deliver, Delivered, Inbound, NewRun
    <3>2. run'[r].trigger = "bot_message" /\ run'[r].thread = "home"
      BY <2>3 DEF NewRun
    <3>3. run'[r].kept BY <2>3, MessageIsKept
    <3> QED BY <2>1, <3>1, <3>2, <3>3 DEF Once, WokenIsKept, OneInbound, OneSpawnRun, Keeps, Active
  <2>4. ASSUME NEW h \in Handlers, EnsureSpawnRun(h, r),
               run'[r] = NewRun(handler[h].target, "home", "spawn", handler[h].key, 0)
        PROVE  Once'
    <3>1. \A o \in Runs \ {r} : ~(run'[o].trigger = "spawn" /\ run'[o].key = run'[r].key)
      BY <2>1, <2>2, <2>4 DEF Keeps, EnsureSpawnRun, SpawnRuns, NewRun
    <3>2. run'[r].trigger = "spawn" BY <2>4 DEF NewRun
    <3> QED BY <2>1, <3>1, <3>2 DEF Once, WokenIsKept, OneInbound, OneSpawnRun, Keeps, Active
  <2>5. CASE run'[r].trigger = "user"
    BY <2>1, <2>5 DEF Once, WokenIsKept, OneInbound, OneSpawnRun, Keeps, Active
  <2> QED BY <1>4, <2>3, <2>4, <2>5, ComesAs
<1> QED BY <1>3, <1>4

\* However often a call of a tool is executed, by however many handlers of the
\* run, and whatever is cleared, stopped or destroyed meanwhile, at most one
\* run works on what it asked for.
THEOREM BotsAreWokenOnce == Spec => []WokenOnce
<1>1. Init => Once
  BY DEF Init, NoRun, Once, WokenIsKept, OneInbound, OneSpawnRun
<1>2. Once => WokenOnce
  BY DEF Once, WokenIsKept, OneInbound, OneSpawnRun, WokenOnce
<1>3. Fits /\ Once /\ [Next]_vars => Once' BY OnceStep
<1> QED BY <1>1, <1>2, <1>3, AlwaysFits, PTL DEF Spec

-----------------------------------------------------------------------------
(* Chains of messages end.                                                 *)

DepthIsHop == \A r \in Runs :
  /\ run[r].status = "new" => depth[r] = 0
  /\ Active(r) => depth[r] = IF run[r].trigger = "bot_message" THEN run[r].hop ELSE 0

\* The hop of a message under way, as long as its sender may still send it.
HopFits == \A h \in Handlers :
  \/ At(h, "check") /\ Active(handler[h].run)
  \/ At(h, "deliver") /\ MayWrite(h)
  => handler[h].hop = depth[handler[h].run] + 1 /\ handler[h].hop <= MaxHops

Chains == WokenIsKept /\ DepthIsHop /\ HopFits /\ ChainsEnd

\* Only a delivery changes the depth, and only that of the run it inserts.
LEMMA DepthChanges ==
  ASSUME Fits, [Next]_vars
  PROVE  \/ UNCHANGED depth
         \/ \E h \in Handlers, r \in Runs : Deliver(h, r)
<1>1. ASSUME NEW h \in Handlers, HandlerNext(h)
      PROVE  UNCHANGED depth \/ \E r \in Runs : Deliver(h, r)
  BY <1>1 DEF HandlerNext, Take, HandOff, EnsureSpawnRun, Call, CreateBot, EndTurn, Settle, Address,
     Check, Undelivered, RefuseHandOff, FindSpawned, CreateBotFails, FindSpawnRun
<1>2. ASSUME NEW q \in Requests, RequestNext(q) PROVE UNCHANGED depth
  BY <1>2 DEF RequestNext, AskBot, AskGroup, Starts, Send, Stop, Clear, Archive, Restore,
     CancelDestroyed, Destroy, UpdateGroup, RemoveGroup, Fail
<1> QED BY <1>1, <1>2 DEF Next, vars

LEMMA DepthStep ==
  ASSUME Fits, Chains, [Next]_vars
  PROVE  DepthIsHop' /\ ChainsEnd' /\ \A r \in Runs : run[r].status # "new" => depth'[r] = depth[r]
<1>1. \A r \in Runs : Keeps(r) \/ Vanishes(r) \/ Comes(r) BY RunsChange
<1>2. CASE UNCHANGED depth
  <2>1. ASSUME NEW r \in Runs, Comes(r)
        PROVE  depth[r] = IF run'[r].trigger = "bot_message" THEN run'[r].hop ELSE 0
    <3>1. run[r].status = "new" /\ depth[r] = 0 BY <2>1 DEF Comes, Chains, DepthIsHop
    <3>2. ASSUME NEW h \in Handlers, Deliver(h, r) PROVE FALSE
      <4>1. handler[h].run \in Runs /\ depth \in [Runs -> Nat]
        BY <3>2 DEF Deliver, At, Fits, TypeOK, HandlersFit
      <4>2. depth'[r] = depth[handler[h].run] + 1 BY <3>2, <4>1 DEF Deliver
      <4> QED BY <1>2, <3>1, <4>1, <4>2
    <3>3. run'[r].trigger # "bot_message" BY <2>1, <3>2, ComesAs
    <3> QED BY <3>1, <3>3
  <2>2. DepthIsHop'
    BY <1>1, <1>2, <2>1, ComesAs DEF Chains, DepthIsHop, Keeps, Vanishes, NoRun, Active
  <2> QED BY <1>2, <2>2 DEF Chains, ChainsEnd
<1>3. ASSUME NEW h \in Handlers, NEW r \in Runs, Deliver(h, r)
      PROVE  DepthIsHop' /\ ChainsEnd' /\ \A o \in Runs : run[o].status # "new" => depth'[o] = depth[o]
  <2>1. /\ handler[h].run \in Runs /\ handler[h].hop = depth[handler[h].run] + 1
        /\ handler[h].hop <= MaxHops
    BY <1>3 DEF Deliver, Chains, HopFits, Fits, HandlersFit, At
  <2>2. /\ depth'[r] = handler[h].hop
        /\ \A o \in Runs \ {r} : depth'[o] = depth[o]
    BY <1>3, <2>1 DEF Deliver, Fits, TypeOK
  <2>3. run'[r] = NewRun(handler[h].target, "home", "bot_message", handler[h].key, handler[h].hop)
        /\ run[r].status = "new" /\ \A o \in Runs \ {r} : Keeps(o)
    BY <1>3, InsertComes DEF Deliver, Insert, NextId, Fits, TypeOK
  <2>4. run'[r].status = "queued" /\ run'[r].trigger = "bot_message" /\ run'[r].hop = handler[h].hop
    BY <2>3 DEF NewRun
  <2>5. DepthIsHop' BY <2>2, <2>3, <2>4 DEF Chains, DepthIsHop, Keeps, Active
  <2> QED BY <2>1, <2>2, <2>3, <2>5 DEF Chains, ChainsEnd
<1> QED BY <1>2, <1>3, DepthChanges

\* A message under way got its hop in Address.
LEMMA HopMoves ==
  ASSUME Fits, [Next]_vars, NEW g \in Handlers
  PROVE  \/ handler'[g] = handler[g]
         \/ handler'[g].step \notin {"check", "deliver"}
         \/ Address(g) /\ handler'[g] = [handler[g] EXCEPT !.step = "check", !.hop = NextHop(handler[g].run)]
            /\ NextHop(handler[g].run) <= MaxHops
         \/ Check(g) /\ Active(handler[g].run) /\ handler'[g] = [handler[g] EXCEPT !.step = "deliver"]
<1>1. handler \in [Handlers -> Handler] BY DEF Fits, TypeOK
<1>2. CASE UNCHANGED handler BY <1>2
<1>3. ASSUME NEW h \in Handlers, h # g, NEW s, handler' = [handler EXCEPT ![h] = s]
      PROVE  handler'[g] = handler[g]
  BY <1>1, <1>3
<1>4. ASSUME HandlerNext(g)
      PROVE  \/ handler'[g].step \notin {"check", "deliver"}
             \/ Address(g) /\ handler'[g] = [handler[g] EXCEPT !.step = "check", !.hop = NextHop(handler[g].run)]
                /\ NextHop(handler[g].run) <= MaxHops
             \/ Check(g) /\ Active(handler[g].run) /\ handler'[g] = [handler[g] EXCEPT !.step = "deliver"]
  <2>1. ASSUME Throws(g) \/ \E b : Returns(g, b) PROVE handler'[g].step \notin {"check", "deliver"}
    BY <1>1, <2>1 DEF Throws, Returns, Turn, Idle
  <2>2. ASSUME NEW k \in Keys, NEW op \in Ops, NEW b \in Bots, Call(g, k, op, b)
        PROVE  handler'[g].step \notin {"check", "deliver"}
    <3>1. First(op) \in {"address", "hand", "create"} BY DEF First, Ops
    <3>2. handler'[g].step = First(op) BY <1>1, <2>2 DEF Call, Handler
    <3> QED BY <3>1, <3>2
  <2>3. ASSUME NEW r \in Runs, Take(g, r) PROVE handler'[g].step \notin {"check", "deliver"}
    BY <1>1, <2>3 DEF Take, Turn, Idle
  <2>4. CASE EndTurn(g) BY <1>1, <2>4 DEF EndTurn, Idle
  <2>5. CASE FindSpawned(g) \/ \E b \in Bots : CreateBot(g, b)
    <3>1. PICK b : handler' = [handler EXCEPT ![g] =
                                 [handler[g] EXCEPT !.step = "prompt", !.target = b]]
      BY <2>5 DEF FindSpawned, CreateBot
    <3>2. handler[g] \in Handler BY <1>1
    <3>3. handler'[g].step = "prompt" BY <1>1, <3>1, <3>2 DEF Handler
    <3> QED BY <3>3
  <2>6. CASE Address(g) BY <1>1, <2>1, <2>6 DEF Address
  <2>7. CASE Check(g) BY <1>1, <2>1, <2>7 DEF Check, Goes, Active, Its
  <2>8. CASE \/ \E r \in Runs : Deliver(g, r) \/ HandOff(g, r) \/ EnsureSpawnRun(g, r)
             \/ Settle(g) \/ Undelivered(g) \/ RefuseHandOff(g) \/ CreateBotFails(g) \/ FindSpawnRun(g)
    BY <2>1, <2>8 DEF Deliver, HandOff, EnsureSpawnRun, Settle, Undelivered, RefuseHandOff,
                      CreateBotFails, FindSpawnRun
  <2> QED BY <1>4, <2>2, <2>3, <2>4, <2>5, <2>6, <2>7, <2>8 DEF HandlerNext
<1>5. ASSUME NEW h \in Handlers, h # g, HandlerNext(h) PROVE handler'[g] = handler[g]
  BY <1>1, <1>5 DEF HandlerNext, Take, Deliver, HandOff, EnsureSpawnRun, Call, CreateBot, EndTurn,
     Settle, Address, Check, Undelivered, RefuseHandOff, FindSpawned, CreateBotFails, FindSpawnRun,
     Throws, Returns, Goes
<1>6. ASSUME NEW q \in Requests, RequestNext(q) PROVE UNCHANGED handler
  BY <1>6 DEF RequestNext, AskBot, AskGroup, Starts, Send, Stop, Clear, Archive, Restore,
     CancelDestroyed, Destroy, UpdateGroup, RemoveGroup, Fail
<1> QED BY <1>2, <1>4, <1>5, <1>6 DEF Next, vars

LEMMA HopStep == ASSUME Fits, Chains, [Next]_vars PROVE HopFits'
<1> SUFFICES ASSUME NEW h \in Handlers,
                    \/ handler'[h].step = "check" /\ run'[handler'[h].run].status \in {"queued", "running"}
                    \/ /\ handler'[h].step = "deliver"
                       /\ run'[handler'[h].run].status \notin {"cancelled", "gone"}
             PROVE  handler'[h].hop = depth'[handler'[h].run] + 1 /\ handler'[h].hop <= MaxHops
  BY DEF HopFits, At, MayWrite, Its, Active
<1> DEFINE r == handler[h].run
<1>1. handler[h] \in Handler BY DEF Fits, TypeOK
<1>2. handler[h].step # "idle" => r \in Runs /\ run[r].status # "new" /\ depth'[r] = depth[r]
  BY DepthStep DEF Fits, HandlersFit, At, Its
<1>3. \A o \in Runs : run[o].status # "new" => Keeps(o) \/ Vanishes(o)
  BY RunsChange DEF Comes
<1>4. \A o \in Runs : Vanishes(o) => run'[o].status = "gone" BY DEF Vanishes, NoRun
<1>5. CASE handler'[h] = handler[h]
  BY <1>2, <1>3, <1>4, <1>5 DEF Keeps, Active, Chains, HopFits, At, MayWrite, Its
<1>6. CASE /\ Address(h) /\ handler'[h] = [handler[h] EXCEPT !.step = "check", !.hop = NextHop(r)]
           /\ NextHop(r) <= MaxHops
  <2>1. handler'[h].run = r /\ handler'[h].hop = NextHop(r) /\ handler'[h].step = "check"
    BY <1>1, <1>6 DEF Handler
  <2>2. r \in Runs /\ run[r].status # "new" /\ depth'[r] = depth[r]
    BY <1>2, <1>6 DEF Address, At
  <2>3. Active(r) BY <1>3, <1>4, <2>1, <2>2 DEF Keeps
  <2>4. depth[r] = (IF run[r].trigger = "bot_message" THEN run[r].hop ELSE 0)
        /\ (run[r].trigger = "bot_message" => run[r].kept)
    BY <2>2, <2>3 DEF Chains, DepthIsHop, WokenIsKept
  <2>5. NextHop(r) = depth[r] + 1 BY <2>4 DEF NextHop
  <2> QED BY <1>6, <2>1, <2>2, <2>5
<1>7. CASE Check(h) /\ Active(r) /\ handler'[h] = [handler[h] EXCEPT !.step = "deliver"]
  <2>1. handler'[h].run = r /\ handler'[h].hop = handler[h].hop BY <1>1, <1>7 DEF Handler
  <2> QED BY <1>2, <1>7, <2>1 DEF Check, At, Chains, HopFits
<1> QED BY <1>5, <1>6, <1>7, HopMoves

\* Whoever clears his thread, or executes its call again, no bot is woken by a
\* chain of more than MaxHops messages.
THEOREM ChainsAreBounded == Spec => []ChainsEnd
<1>1. Init => Chains
  BY DelegationAssumption DEF Init, NoRun, Idle, Chains, WokenIsKept, DepthIsHop, HopFits, ChainsEnd,
     At, Active
<1>2. Fits /\ Once /\ Chains /\ [Next]_vars => Chains'
  BY OnceStep, DepthStep, HopStep DEF Chains, Once
<1>3. Init => Once
  BY DEF Init, NoRun, Once, WokenIsKept, OneInbound, OneSpawnRun
<1>4. Fits /\ Once /\ [Next]_vars => Once' BY OnceStep
<1>5. Chains => ChainsEnd BY DEF Chains
<1> QED BY <1>1, <1>2, <1>3, <1>4, <1>5, AlwaysFits, PTL DEF Spec

-----------------------------------------------------------------------------
(* The group.                                                              *)

LEMMA EnoughMore ==
  ASSUME NEW S \in SUBSET Bots, NEW T \in SUBSET S, Enough(T) PROVE Enough(S)
<1>1. IsFiniteSet(S) BY FS_Subset, DelegationAssumption
<1>2. /\ IsFiniteSet(T) /\ Cardinality(T) <= Cardinality(S)
  BY <1>1, FS_Subset
<1>3. Cardinality(T) \in Nat /\ Cardinality(S) \in Nat BY <1>1, <1>2, FS_CardinalityType
<1> QED BY <1>2, <1>3, DelegationAssumption DEF Enough

\* Who starts in the group's thread is a member.
LEMMA ComesToGroup ==
  ASSUME Fits, NEW r \in Runs, Comes(r), run'[r].thread = "group"
  PROVE  grouped /\ run'[r].bot \in members /\ UNCHANGED <<bot, grouped, members>>
<1>1. ASSUME NEW h \in Handlers, Deliver(h, r) PROVE FALSE
  <2>1. run'[r] = NewRun(handler[h].target, "home", "bot_message", handler[h].key, handler[h].hop)
    BY <1>1 DEF Deliver, Insert, Fits, TypeOK
  <2> QED BY <2>1 DEF NewRun
<1>2. ASSUME NEW h \in Handlers, EnsureSpawnRun(h, r) PROVE FALSE
  <2>1. run'[r] = NewRun(handler[h].target, "home", "spawn", handler[h].key, 0)
    BY <1>2 DEF EnsureSpawnRun, Insert, Fits, TypeOK
  <2> QED BY <2>1 DEF NewRun
<1>3. ASSUME NEW h \in Handlers, HandOff(h, r)
      PROVE  grouped /\ run'[r].bot \in members /\ UNCHANGED <<bot, grouped, members>>
  <2>1. run'[r] = NewRun(handler[h].target, "group", "user", None, 0)
    BY <1>3 DEF HandOff, Insert, Fits, TypeOK
  <2>2. run'[r].bot = handler[h].target BY <2>1 DEF NewRun
  <2> QED BY <1>3, <2>2 DEF HandOff, MayHandOff, ActiveMembers
<1>4. ASSUME NEW q \in Requests, NEW b \in Bots, Send(q, r, b)
      PROVE  grouped /\ run'[r].bot \in members /\ UNCHANGED <<bot, grouped, members>>
  <2> DEFINE thread == IF InGroup(q) THEN "group" ELSE "home"
  <2>1. run'[r] = NewRun(b, thread, "user", None, 0) BY <1>4 DEF Send, Cancelled
  <2>2. run'[r].bot = b /\ run'[r].thread = thread BY <2>1 DEF NewRun
  <2>3. InGroup(q) BY <2>2
  <2>4. b \in ActiveMembers /\ request[q].op = "send" /\ Allowed(q) BY <1>4, <2>3 DEF Send, Commits
  <2>5. grouped BY <2>3, <2>4 DEF Allowed
  <2> QED BY <1>4, <2>2, <2>4, <2>5 DEF Send, ActiveMembers
<1> QED BY <1>1, <1>2, <1>3, <1>4 DEF Comes

\* Nobody works for the group but its members.
WorkersBelong == \A r \in Runs :
  run[r].thread = "group" /\ Active(r) => grouped /\ run[r].bot \in members
MembersExist == grouped => Enough(members) /\ \A b \in members : Exists(b)

LEMMA GroupStep ==
  ASSUME Fits, WorkersBelong, MembersExist, [Next]_vars
  PROVE  WorkersBelong' /\ MembersExist'
<1>1. \A r \in Runs : Keeps(r) \/ Vanishes(r) \/ Comes(r) BY RunsChange
<1>2. \A r \in Runs : Vanishes(r) => run'[r].thread = "home" /\ run'[r].status = "gone"
  BY DEF Vanishes, NoRun
<1>3. CASE UNCHANGED <<grouped, members>> /\ \A b \in Bots : Exists(b) => bot'[b].stage \in {"live", "archived"}
  <2>1. WorkersBelong' BY <1>1, <1>2, <1>3, ComesToGroup DEF WorkersBelong, Keeps, Active
  <2>2. MembersExist' BY <1>3 DEF MembersExist, Exists, Enough, Fits, TypeOK
  <2> QED BY <2>1, <2>2
<1>4. ASSUME NEW q \in Requests, Destroy(q) PROVE WorkersBelong' /\ MembersExist'
  <2> DEFINE b == Target(q)
             doomed == RunsOf(b) \cup IF Dissolves(b) THEN GroupRuns ELSE {}
  <2>1. b \in Bots BY <1>4 DEF Destroy, Commits, Fits, RequestsFit, BotOps
  <2>2. run' = Deleted(doomed) BY <1>4 DEF Destroy, Cascade
  <2>3. \A r \in Runs : run'[r].thread = "group" =>
          run'[r] = run[r] /\ (r \in doomed => run[r].status = "new")
    BY <2>2, DeletedFacts DEF Fits, NoRun
  <2>4. CASE Dissolves(b)
    <3>1. ~grouped' BY <1>4, <2>4 DEF Destroy
    <3>2. \A r \in Runs : run'[r].thread = "group" => ~(run'[r].status \in {"queued", "running"})
      BY <2>3, <2>4 DEF GroupRuns
    <3> QED BY <3>1, <3>2 DEF WorkersBelong, MembersExist, Active
  <2>5. CASE ~Dissolves(b)
    <3>1. grouped' = grouped /\ members' = members \ {b}
      BY <1>4, <2>5 DEF Destroy, Fits, TypeOK
    <3>2. WorkersBelong'
      BY <2>3, <3>1 DEF WorkersBelong, Active, RunsOf
    <3>3. \A c \in Bots \ {b} : bot'[c] = bot[c] BY <1>4 DEF Destroy, Fits, TypeOK
    <3>4. grouped => Enough(members \ {b})
      <4>1. CASE b \notin members
        <5>1. members \ {b} = members BY <4>1
        <5> QED BY <5>1 DEF MembersExist
      <4>2. CASE b \in members
        <5>1. Enough(ActiveMembers \ {b}) BY <2>5, <4>2 DEF Dissolves
        <5>2. members \ {b} \in SUBSET Bots BY DEF Fits, TypeOK
        <5>3. ActiveMembers \ {b} \in SUBSET (members \ {b}) BY DEF ActiveMembers
        <5> QED BY <5>1, <5>2, <5>3, EnoughMore
      <4> QED BY <4>1, <4>2
    <3>5. MembersExist'
      BY <3>1, <3>3, <3>4 DEF MembersExist, Exists, Enough, Fits, TypeOK
    <3> QED BY <3>2, <3>5
  <2> QED BY <2>4, <2>5
<1>5. ASSUME NEW q \in Requests, UpdateGroup(q) PROVE WorkersBelong' /\ MembersExist'
  <2> DEFINE bots == request[q].bots
             doomed == {r \in GroupRuns : Active(r) /\ run[r].bot \in members \ bots}
  <2>1. /\ grouped' = grouped /\ bot' = bot /\ members' = bots /\ run' = Cancelled(doomed)
        /\ Enough(bots) /\ \A b \in bots : Exists(b)
    BY <1>5 DEF UpdateGroup, Commits, Allowed, Fits, RequestsFit
  <2>2. \A r \in Runs : run'[r].status \in {"queued", "running"} =>
          run'[r] = run[r] /\ r \notin doomed
    <3>1. \A r \in doomed : run[r].status # "gone" BY DEF Active
    <3>2. \A r \in doomed \cap Runs : run'[r].status \in {"cancelled", "gone"}
      BY <2>1, CancelledFacts DEF Fits
    <3>3. \A r \in Runs \ doomed : run'[r] = run[r] BY <2>1 DEF Cancelled
    <3> QED BY <3>2, <3>3
  <2>3. WorkersBelong' BY <2>1, <2>2 DEF WorkersBelong, Active, GroupRuns
  <2>4. MembersExist' BY <2>1 DEF MembersExist, Exists, Enough
  <2> QED BY <2>3, <2>4
<1>6. ASSUME NEW q \in Requests, RemoveGroup(q) PROVE WorkersBelong' /\ MembersExist'
  <2>1. run' = Deleted(GroupRuns) /\ ~grouped' BY <1>6 DEF RemoveGroup, Cascade
  <2>2. \A r \in Runs : run'[r].thread = "group" =>
          run'[r] = run[r] /\ (r \in GroupRuns => run[r].status = "new")
    BY <2>1, DeletedFacts DEF Fits, NoRun
  <2> QED BY <2>1, <2>2 DEF WorkersBelong, MembersExist, Active, GroupRuns
<1>7. \/ UNCHANGED <<grouped, members>> /\ \A b \in Bots : Exists(b) => bot'[b].stage \in {"live", "archived"}
      \/ \E q \in Requests : Destroy(q) \/ UpdateGroup(q) \/ RemoveGroup(q)
  <2>1. ASSUME NEW h \in Handlers, HandlerNext(h), ~ \E b \in Bots : CreateBot(h, b)
        PROVE  UNCHANGED <<bot, grouped, members>>
    BY <2>1 DEF HandlerNext, Take, Deliver, HandOff, EnsureSpawnRun, Call, EndTurn, Settle, Address,
       Check, Undelivered, RefuseHandOff, FindSpawned, CreateBotFails, FindSpawnRun, rows
  <2>2. ASSUME NEW h \in Handlers, NEW b \in Bots, CreateBot(h, b)
        PROVE  /\ UNCHANGED <<grouped, members>>
               /\ \A c \in Bots : Exists(c) => bot'[c].stage \in {"live", "archived"}
    BY <2>2 DEF CreateBot, Exists, Fits, TypeOK
  <2>3. ASSUME NEW q \in Requests, Archive(q) \/ Restore(q)
        PROVE  /\ UNCHANGED <<grouped, members>>
               /\ \A c \in Bots : Exists(c) => bot'[c].stage \in {"live", "archived"}
    <3>1. Target(q) \in Bots /\ bot[Target(q)] \in Bot
      BY <2>3 DEF Archive, Restore, Commits, Fits, TypeOK, RequestsFit, BotOps
    <3>2. bot'[Target(q)].stage \in {"live", "archived"}
      BY <2>3, <3>1 DEF Archive, Restore, Fits, TypeOK, Bot
    <3>3. \A c \in Bots \ {Target(q)} : bot'[c] = bot[c]
      BY <2>3 DEF Archive, Restore, Fits, TypeOK
    <3> QED BY <2>3, <3>2, <3>3 DEF Archive, Restore, Exists
  <2>4. ASSUME NEW q \in Requests, RequestNext(q),
               ~(Archive(q) \/ Restore(q) \/ Destroy(q) \/ UpdateGroup(q) \/ RemoveGroup(q))
        PROVE  UNCHANGED <<bot, grouped, members>>
    BY <2>4 DEF RequestNext, AskBot, AskGroup, Starts, Send, Stop, Clear, CancelDestroyed, Fail, rows
  <2>5. UNCHANGED vars => UNCHANGED <<bot, grouped, members>> BY DEF vars, rows
  <2>6. UNCHANGED bot => \A b \in Bots : Exists(b) => bot'[b].stage \in {"live", "archived"}
    BY DEF Exists
  <2> QED BY <2>1, <2>2, <2>3, <2>4, <2>5, <2>6 DEF Next
<1> QED BY <1>3, <1>4, <1>5, <1>6, <1>7

\* Whoever is destroyed, archived, added or removed, and whatever is handed
\* over or sent meanwhile, a group that exists has enough members, all of them
\* there, and nobody but them works in its thread.
THEOREM GroupsAreWhole == Spec => []GroupIsWhole
<1>1. Init => WorkersBelong /\ MembersExist
  BY DelegationAssumption DEF Init, NoRun, WorkersBelong, MembersExist, Exists, Enough, Active
<1>2. Fits /\ WorkersBelong /\ MembersExist /\ [Next]_vars => WorkersBelong' /\ MembersExist'
  BY GroupStep
<1>3. WorkersBelong /\ MembersExist => GroupIsWhole
  BY DEF WorkersBelong, MembersExist, GroupIsWhole, GroupRuns
<1> QED BY <1>1, <1>2, <1>3, AlwaysFits, PTL DEF Spec

-----------------------------------------------------------------------------
(* A spawn gives its bot the prompt.                                       *)

\* The bot of a tool call, from when it is found until the call is settled.
Prompts(h) == At(h, "prompt") \/ (At(h, "settle") /\ handler[h].target # None)
PromptsFit == \A h \in Handlers : Prompts(h) =>
  /\ handler[h].target \in Bots /\ bot[handler[h].target].stage # "new"
  /\ Exists(handler[h].target) => bot[handler[h].target].key = handler[h].key

OneBotPerKey == \A a, b \in Bots :
  Exists(a) /\ Exists(b) /\ bot[a].key = bot[b].key /\ bot[a].key \in Keys => a = b

\* A run that prompts a bot is that bot's, and goes with it.
PromptsBelong == \A r \in Runs : run[r].trigger = "spawn" =>
  /\ run[r].thread = "home" /\ run[r].bot \in Bots /\ run[r].key \in Keys
  /\ Exists(run[r].bot) /\ bot[run[r].bot].key = run[r].key

Prompted == PromptsFit /\ OneBotPerKey /\ PromptsBelong /\ SpawnIsWhole

\* What a step does to a bot: it creates it, destroys it, or keeps its key.
StaysBot(b) ==
  /\ bot'[b].key = bot[b].key
  /\ bot'[b].stage = "new" <=> bot[b].stage = "new"
  /\ bot'[b].stage \in {"live", "archived"} <=> bot[b].stage \in {"live", "archived"}
Destroyed(b) ==
  bot'[b].stage = "gone" /\ \E q \in Requests : Destroy(q) /\ Target(q) = b
Created(b) ==
  /\ bot[b].stage = "new"
  /\ \E h \in Handlers : CreateBot(h, b) /\ bot'[b] = [stage |-> "live", key |-> handler[h].key]

LEMMA BotsChange ==
  ASSUME Fits, [Next]_vars, NEW b \in Bots
  PROVE  StaysBot(b) \/ Destroyed(b) \/ Created(b)
<1>1. bot \in [Bots -> Bot] BY DEF Fits, TypeOK
<1>2. CASE UNCHANGED bot BY <1>2 DEF StaysBot
<1>3. ASSUME NEW h \in Handlers, NEW c \in Bots, CreateBot(h, c)
      PROVE  StaysBot(b) \/ Created(b)
  <2>1. CASE c = b BY <1>1, <1>3, <2>1 DEF CreateBot, Creates, Created
  <2>2. CASE c # b BY <1>1, <1>3, <2>2 DEF CreateBot, StaysBot
  <2> QED BY <2>1, <2>2
<1>4. ASSUME NEW q \in Requests, Archive(q) \/ Restore(q) PROVE StaysBot(b)
  <2>1. Exists(Target(q)) BY <1>4 DEF Archive, Restore, Commits, Allowed
  <2>2. PICK stage \in {"live", "archived"} : bot' = [bot EXCEPT ![Target(q)].stage = stage]
    BY <1>4 DEF Archive, Restore
  <2> QED BY <1>1, <2>1, <2>2 DEF StaysBot, Exists, Bot
<1>5. ASSUME NEW q \in Requests, Destroy(q) PROVE StaysBot(b) \/ Destroyed(b)
  <2>1. CASE Target(q) = b BY <1>1, <1>5, <2>1 DEF Destroy, Destroyed
  <2>2. CASE Target(q) # b BY <1>1, <1>5, <2>2 DEF Destroy, StaysBot
  <2> QED BY <2>1, <2>2
<1>6. ASSUME NEW h \in Handlers, HandlerNext(h) PROVE UNCHANGED bot \/ \E c \in Bots : CreateBot(h, c)
  BY <1>6 DEF HandlerNext, Take, Deliver, HandOff, EnsureSpawnRun, Call, EndTurn, Settle, Address,
     Check, Undelivered, RefuseHandOff, FindSpawned, CreateBotFails, FindSpawnRun, rows
<1>7. ASSUME NEW q \in Requests, RequestNext(q)
      PROVE  UNCHANGED bot \/ Archive(q) \/ Restore(q) \/ Destroy(q)
  BY <1>7 DEF RequestNext, AskBot, AskGroup, Starts, Send, Stop, Clear, CancelDestroyed, UpdateGroup,
     RemoveGroup, Fail, rows
<1> QED BY <1>2, <1>3, <1>4, <1>5, <1>6, <1>7 DEF Next, vars, rows

\* A run that prompts a bot is deleted only with that bot.
LEMMA PromptsVanish ==
  ASSUME Fits, PromptsBelong, [Next]_vars, NEW r \in Runs, run[r].trigger = "spawn", ~Keeps(r)
  PROVE  \E q \in Requests : Destroy(q) /\ Target(q) = run[r].bot
<1>1. run[r].status \notin {"new", "gone"} /\ run[r].thread = "home"
  BY DEF Fits, BlankRuns, PromptsBelong
<1>2. run'[r].status = "gone"
  <2>1. ~Comes(r) BY <1>1 DEF Comes
  <2>2. Vanishes(r) BY <2>1, RunsChange
  <2> QED BY <2>2 DEF Vanishes, NoRun
<1>3. ~UNCHANGED run BY <1>1, <1>2
<1>4. ASSUME NEW h \in Handlers, HandlerNext(h) PROVE FALSE
  <2>1. ~Comes(r) BY <1>1 DEF Comes
  <2> QED BY <1>4, <2>1, HandlersChangeRuns
<1>5. ASSUME NEW doomed, run' = Cancelled(doomed) PROVE FALSE
  BY <1>1, <1>2, <1>5 DEF Cancelled, Fits, TypeOK, Run
<1>6. ASSUME NEW q \in Requests, RequestNext(q)
      PROVE  Destroy(q) /\ Target(q) = run[r].bot
  <2>1. ASSUME NEW n \in Runs, NEW b \in Bots, Send(q, n, b) PROVE FALSE
    <3> DEFINE superseded == {o \in RunsOf(b) : /\ run[o].thread = IF InGroup(q) THEN "group" ELSE "home"
                                                /\ run[o].status = "queued"}
    <3>1. r # n BY <1>1, <2>1 DEF Send, NextId
    <3>2. run'[r] = Cancelled(superseded)[r] BY <2>1, <3>1 DEF Send
    <3> HIDE DEF superseded
    <3> QED BY <1>1, <1>2, <3>2 DEF Cancelled, Fits, TypeOK, Run
  <2>2. CASE Stop(q) \/ Archive(q) \/ CancelDestroyed(q) \/ UpdateGroup(q)
    BY <1>5, <2>2 DEF Stop, Archive, CancelDestroyed, UpdateGroup
  <2>3. CASE Clear(q)
    <3>1. run'[r] = run[r] \/ run'[r] = [Cleared(Target(q))[r] EXCEPT !.kept = FALSE]
      BY <2>3 DEF Clear
    <3>2. Cleared(Target(q))[r] \in Run /\ Cleared(Target(q))[r].status # "gone"
      <4> DEFINE doomed == {o \in HomeRuns(Target(q)) : Active(o)}
      <4>1. run[r] \in Run BY DEF Fits, TypeOK
      <4>2. \/ Cancelled(doomed)[r] = run[r]
            \/ Cancelled(doomed)[r] = [run[r] EXCEPT !.status = "cancelled", !.owner = None]
        BY DEF Cancelled
      <4>3. Cancelled(doomed)[r] \in Run /\ Cancelled(doomed)[r].status # "gone"
        BY <1>1, <4>1, <4>2 DEF Run, Statuses
      <4> QED BY <4>3 DEF Cleared
    <3> QED BY <1>1, <1>2, <3>1, <3>2 DEF Run
  <2>4. CASE RemoveGroup(q)
    BY <1>1, <1>2, <2>4 DEF RemoveGroup, Cascade, Deleted, GroupRuns
  <2>5. CASE Destroy(q)
    BY <1>1, <1>2, <2>5 DEF Destroy, Cascade, Deleted, GroupRuns, RunsOf
  <2> QED BY <1>3, <1>6, <2>1, <2>2, <2>3, <2>4, <2>5 DEF RequestNext, AskBot, AskGroup, Starts,
        Restore, Fail, rows
<1> QED BY <1>3, <1>4, <1>6 DEF Next, vars, rows

\* A handler finds or creates the bot it prompts, and then the run.
PromptsNot(g) ==
  \/ handler'[g].step \notin {"prompt", "settle"}
  \/ handler'[g].step = "settle" /\ handler'[g].target = None
PromptsNext(g) ==
  /\ handler'[g].step = "prompt" /\ handler'[g].key = handler[g].key
  /\ \/ handler'[g].target \in Bots /\ CreateBot(g, handler'[g].target)
     \/ handler'[g].target \in Spawned(g) /\ UNCHANGED bot
PromptsNow(g) ==
  /\ At(g, "prompt") /\ handler'[g].step = "settle" /\ UNCHANGED bot
  /\ handler'[g].key = handler[g].key /\ handler'[g].target = handler[g].target
  /\ \/ \E r \in Runs : EnsureSpawnRun(g, r)
     \/ SpawnRuns(g) # {} /\ UNCHANGED run

LEMMA PromptMoves ==
  ASSUME Fits, [Next]_vars, NEW g \in Handlers
  PROVE  \/ handler'[g] = handler[g]
         \/ PromptsNot(g) \/ PromptsNext(g) \/ PromptsNow(g)
<1>1. handler \in [Handlers -> Handler] BY DEF Fits, TypeOK
<1>2. CASE UNCHANGED handler BY <1>2
<1>3. ASSUME NEW b, Returns(g, b)
      PROVE  handler'[g].step = "settle" /\ handler'[g].target = b /\ handler'[g].key = handler[g].key
  BY <1>1, <1>3 DEF Returns, Turn, Idle
<1>4. ASSUME Throws(g) \/ Returns(g, None) PROVE PromptsNot(g)
  <2>1. Throws(g) => handler'[g].step = "turn" BY <1>1 DEF Throws, Turn, Idle
  <2> QED BY <1>3, <1>4, <2>1 DEF PromptsNot
<1>5. ASSUME NEW k \in Keys, NEW op \in Ops, NEW b \in Bots, Call(g, k, op, b)
      PROVE  PromptsNot(g)
  <2>1. First(op) \in {"address", "hand", "create"} BY DEF First, Ops
  <2>2. handler'[g].step = First(op) BY <1>1, <1>5 DEF Call, Handler
  <2> QED BY <2>1, <2>2 DEF PromptsNot
<1>6. ASSUME NEW r \in Runs, Take(g, r) PROVE PromptsNot(g)
  <2>1. handler'[g].step = "turn" BY <1>1, <1>6 DEF Take, Turn, Idle
  <2> QED BY <2>1 DEF PromptsNot
<1>7. ASSUME EndTurn(g) PROVE PromptsNot(g)
  <2>1. handler'[g].step = "idle" BY <1>1, <1>7 DEF EndTurn, Idle
  <2> QED BY <2>1 DEF PromptsNot
<1>8. ASSUME Address(g) \/ Check(g) PROVE PromptsNot(g)
  <2>1. handler'[g].step \in {"check", "deliver"} \/ Returns(g, None)
    BY <1>1, <1>8 DEF Address, Check, Goes, Handler
  <2> QED BY <1>4, <2>1 DEF PromptsNot
<1>9. ASSUME \/ \E r \in Runs : Deliver(g, r) \/ HandOff(g, r)
             \/ Undelivered(g) \/ RefuseHandOff(g) \/ Settle(g) \/ CreateBotFails(g)
      PROVE  PromptsNot(g)
  <2>1. Throws(g) \/ Returns(g, None)
    BY <1>9 DEF Deliver, HandOff, Undelivered, RefuseHandOff, Settle, CreateBotFails
  <2> QED BY <1>4, <2>1
<1>10. ASSUME NEW b \in Bots, CreateBot(g, b) PROVE PromptsNext(g)
  <2>1. handler'[g].step = "prompt" /\ handler'[g].key = handler[g].key /\ handler'[g].target = b
    BY <1>1, <1>10 DEF CreateBot, Handler
  <2> QED BY <1>10, <2>1 DEF PromptsNext
<1>11. ASSUME FindSpawned(g) PROVE PromptsNext(g)
  <2>1. PICK b \in Spawned(g) : handler' = [handler EXCEPT ![g] =
                                  [handler[g] EXCEPT !.step = "prompt", !.target = b]]
    BY <1>11 DEF FindSpawned
  <2>2. handler'[g].step = "prompt" /\ handler'[g].key = handler[g].key /\ handler'[g].target = b
    BY <1>1, <2>1 DEF Handler
  <2> QED BY <1>11, <2>1, <2>2 DEF FindSpawned, PromptsNext, rows
<1>12. ASSUME NEW r \in Runs, EnsureSpawnRun(g, r) PROVE PromptsNow(g)
  BY <1>3, <1>12 DEF EnsureSpawnRun, PromptsNow
<1>13. ASSUME FindSpawnRun(g) PROVE PromptsNot(g) \/ PromptsNow(g)
  BY <1>3, <1>4, <1>13 DEF FindSpawnRun, PromptsNow, rows
<1>14. ASSUME NEW h \in Handlers, h # g, HandlerNext(h) PROVE handler'[g] = handler[g]
  BY <1>1, <1>14 DEF HandlerNext, Take, Deliver, HandOff, EnsureSpawnRun, Call, CreateBot, EndTurn,
     Settle, Address, Check, Undelivered, RefuseHandOff, FindSpawned, CreateBotFails, FindSpawnRun,
     Throws, Returns, Goes
<1>15. ASSUME NEW q \in Requests, RequestNext(q) PROVE UNCHANGED handler
  BY <1>15 DEF RequestNext, AskBot, AskGroup, Starts, Send, Stop, Clear, Archive, Restore,
     CancelDestroyed, Destroy, UpdateGroup, RemoveGroup, Fail
<1>16. ASSUME HandlerNext(g) PROVE PromptsNot(g) \/ PromptsNext(g) \/ PromptsNow(g)
  BY <1>5, <1>6, <1>7, <1>8, <1>9, <1>10, <1>11, <1>12, <1>13, <1>16 DEF HandlerNext
<1> QED BY <1>2, <1>14, <1>15, <1>16 DEF Next, vars

LEMMA KeysStayUnique == ASSUME Fits, OneBotPerKey, [Next]_vars PROVE OneBotPerKey'
<1> SUFFICES ASSUME NEW a \in Bots, NEW b \in Bots, a # b,
                    bot'[a].stage \in {"live", "archived"}, bot'[b].stage \in {"live", "archived"},
                    bot'[a].key = bot'[b].key, bot'[a].key \in Keys
             PROVE  FALSE
  BY DEF OneBotPerKey, Exists
<1>1. ASSUME NEW c \in Bots, NEW d \in Bots, c # d, bot'[c].key = bot'[d].key,
             bot'[d].stage \in {"live", "archived"}, Created(c)
      PROVE  FALSE
  <2>1. PICK h \in Handlers : CreateBot(h, c) /\ bot'[c] = [stage |-> "live", key |-> handler[h].key]
    BY <1>1 DEF Created
  <2>2. bot'[d] = bot[d] BY <1>1, <2>1 DEF CreateBot, Fits, TypeOK
  <2>3. d \in Spawned(h) BY <1>1, <2>1, <2>2 DEF Spawned, Exists
  <2> QED BY <2>1, <2>3 DEF CreateBot, Creates
<1>2. StaysBot(a) /\ StaysBot(b) BY <1>1, BotsChange DEF Destroyed
<1> QED BY <1>2 DEF StaysBot, OneBotPerKey, Exists

LEMMA PromptsStayBelong ==
  ASSUME Fits, PromptsFit, PromptsBelong, [Next]_vars PROVE PromptsBelong'
<1> SUFFICES ASSUME NEW r \in Runs, run'[r].trigger = "spawn"
             PROVE  /\ run'[r].thread = "home" /\ run'[r].bot \in Bots /\ run'[r].key \in Keys
                    /\ bot'[run'[r].bot].stage \in {"live", "archived"}
                    /\ bot'[run'[r].bot].key = run'[r].key
  BY DEF PromptsBelong, Exists
<1>1. ~Vanishes(r) BY DEF Vanishes, NoRun
<1>2. CASE Keeps(r)
  <2> DEFINE b == run[r].bot
  <2>1. /\ run[r].trigger = "spawn" /\ run'[r].bot = b /\ run'[r].key = run[r].key
        /\ run'[r].thread = run[r].thread
    BY <1>2 DEF Keeps
  <2>2. b \in Bots /\ run[r].key \in Keys /\ run[r].thread = "home"
        /\ bot[b].stage \in {"live", "archived"} /\ bot[b].key = run[r].key
    BY <2>1 DEF PromptsBelong, Exists
  <2>3. ~Destroyed(b)
    <3> SUFFICES ASSUME NEW q \in Requests, Destroy(q), Target(q) = b PROVE FALSE BY DEF Destroyed
    <3>1. r \in RunsOf(b) BY DEF RunsOf
    <3>2. run[r].status # "new" BY <2>1 DEF Fits, BlankRuns
    <3>3. run'[r].trigger = "user" BY <3>1, <3>2 DEF Destroy, Cascade, Deleted, NoRun
    <3> QED BY <3>3
  <2>4. StaysBot(b) BY <2>2, <2>3, BotsChange DEF Created
  <2> QED BY <2>1, <2>2, <2>4 DEF StaysBot
<1>3. CASE Comes(r)
  <2>1. PICK h \in Handlers :
          EnsureSpawnRun(h, r) /\ run'[r] = NewRun(handler[h].target, "home", "spawn", handler[h].key, 0)
    <3>1. \A h \in Handlers :
            run'[r] = NewRun(handler[h].target, "home", "bot_message", handler[h].key, handler[h].hop) =>
              run'[r].trigger = "bot_message"
      BY DEF NewRun
    <3>2. run'[r].trigger \notin {"user", "bot_message"} OBVIOUS
    <3> QED BY <1>3, <3>1, <3>2, ComesAs
  <2>2. handler[h].key \in Keys BY <2>1 DEF EnsureSpawnRun, At, Fits, HandlersFit
  <2>3. handler[h].target \in Bots /\ Exists(handler[h].target)
        /\ bot[handler[h].target].key = handler[h].key /\ bot' = bot
    BY <2>1 DEF EnsureSpawnRun, PromptsFit, Prompts
  <2>4. run'[r].bot = handler[h].target /\ run'[r].thread = "home" /\ run'[r].key = handler[h].key
    BY <2>1 DEF NewRun
  <2> QED BY <2>2, <2>3, <2>4 DEF Exists
<1> QED BY <1>1, <1>2, <1>3, RunsChange

LEMMA PromptStep == ASSUME Fits, Prompted, [Next]_vars PROVE PromptsFit' /\ SpawnIsWhole'
<1> SUFFICES ASSUME NEW g \in Handlers,
                    \/ handler'[g].step = "prompt"
                    \/ handler'[g].step = "settle" /\ handler'[g].target # None
             PROVE  /\ handler'[g].target \in Bots /\ bot'[handler'[g].target].stage # "new"
                    /\ bot'[handler'[g].target].stage \in {"live", "archived"} =>
                         /\ bot'[handler'[g].target].key = handler'[g].key
                         /\ handler'[g].step = "settle" =>
                              \E r \in Runs : /\ run'[r].status \notin {"new", "gone"}
                                              /\ run'[r].trigger = "spawn" /\ run'[r].key = handler'[g].key
  BY DEF PromptsFit, Prompts, SpawnIsWhole, SpawnRuns, At, Exists
<1> DEFINE b == handler[g].target
<1>1. CASE handler'[g] = handler[g]
  <2>1. b \in Bots /\ bot[b].stage # "new" /\ handler[g].key \in Keys
        /\ (Exists(b) => bot[b].key = handler[g].key)
    BY <1>1 DEF Prompted, PromptsFit, Prompts, At, Fits, HandlersFit
  <2>2. bot'[b].stage # "new" /\
        (bot'[b].stage \in {"live", "archived"} => StaysBot(b) /\ bot[b].stage \in {"live", "archived"})
    BY <2>1, BotsChange DEF StaysBot, Destroyed, Created
  <2>3. ASSUME bot'[b].stage \in {"live", "archived"}, handler[g].step = "settle"
        PROVE  \E r \in Runs : /\ run'[r].status \notin {"new", "gone"}
                               /\ run'[r].trigger = "spawn" /\ run'[r].key = handler[g].key
    <3>1. Exists(b) /\ bot[b].key = handler[g].key BY <2>1, <2>2, <2>3 DEF Exists
    <3>2. PICK r \in Runs : /\ run[r].status \notin {"new", "gone"}
                            /\ run[r].trigger = "spawn" /\ run[r].key = handler[g].key
      BY <1>1, <2>3, <3>1 DEF Prompted, SpawnIsWhole, At, SpawnRuns
    <3>3. run[r].bot = b
      BY <2>1, <3>1, <3>2 DEF Prompted, PromptsBelong, OneBotPerKey
    <3>4. \A q \in Requests : ~(Destroy(q) /\ Target(q) = b)
      BY <2>1, <2>3 DEF Destroy, Fits, TypeOK
    <3>5. Keeps(r) BY <3>2, <3>3, <3>4, PromptsVanish DEF Prompted
    <3> QED BY <3>2, <3>5 DEF Keeps
  <2> QED BY <1>1, <2>1, <2>2, <2>3 DEF StaysBot, Exists
<1>2. CASE PromptsNext(g)
  <2>1. CASE handler'[g].target \in Spawned(g) /\ UNCHANGED bot
    BY <1>2, <2>1 DEF PromptsNext, Spawned, Exists
  <2>2. CASE handler'[g].target \in Bots /\ CreateBot(g, handler'[g].target)
    BY <1>2, <2>2 DEF PromptsNext, CreateBot, Fits, TypeOK
  <2> QED BY <1>2, <2>1, <2>2 DEF PromptsNext
<1>3. CASE PromptsNow(g)
  <2> USE DEF PromptsNow
  <2>1. b \in Bots /\ bot[b].stage # "new" /\ (Exists(b) => bot[b].key = handler[g].key)
    BY <1>3 DEF Prompted, PromptsFit, Prompts
  <2>2. \E r \in Runs : /\ run'[r].status \notin {"new", "gone"}
                        /\ run'[r].trigger = "spawn" /\ run'[r].key = handler[g].key
    <3>1. CASE SpawnRuns(g) # {} /\ UNCHANGED run BY <3>1 DEF SpawnRuns
    <3>2. ASSUME NEW r \in Runs, EnsureSpawnRun(g, r)
          PROVE  /\ run'[r].status \notin {"new", "gone"}
                 /\ run'[r].trigger = "spawn" /\ run'[r].key = handler[g].key
      <4>1. DOMAIN run = Runs BY DEF Fits, TypeOK
      <4>2. run'[r] = NewRun(handler[g].target, "home", "spawn", handler[g].key, 0)
        BY <3>2, <4>1 DEF EnsureSpawnRun, Insert
      <4> QED BY <4>2 DEF NewRun
    <3> QED BY <1>3, <3>1, <3>2
  <2> QED BY <1>3, <2>1, <2>2 DEF Exists
<1> QED BY <1>1, <1>2, <1>3, PromptMoves DEF PromptsNot

\* However often a spawn is interrupted, a lease lapses or a request comes in
\* between, the tool does not report a bot that was never given its prompt.
THEOREM SpawnsAreWhole == Spec => []SpawnIsWhole
<1>1. Init => Prompted
  <2> SUFFICES ASSUME Init PROVE Prompted OBVIOUS
  <2>1. /\ \A h \in Handlers : handler[h].step \notin {"prompt", "settle"}
        /\ \A r \in Runs : run[r].trigger = "user"
    BY DEF Init, NoRun, Idle
  <2>2. OneBotPerKey BY DelegationAssumption DEF Init, OneBotPerKey, Exists
  <2> QED BY <2>1, <2>2 DEF Prompted, PromptsFit, Prompts, PromptsBelong, SpawnIsWhole, At
<1>2. Fits /\ Prompted /\ [Next]_vars => Prompted'
  <2> SUFFICES ASSUME Fits, Prompted, [Next]_vars PROVE Prompted' OBVIOUS
  <2>1. OneBotPerKey' BY KeysStayUnique DEF Prompted
  <2>2. PromptsBelong' BY PromptsStayBelong DEF Prompted
  <2>3. PromptsFit' /\ SpawnIsWhole' BY PromptStep
  <2> QED BY <2>1, <2>2, <2>3 DEF Prompted
<1>3. Prompted => SpawnIsWhole BY DEF Prompted
<1> QED BY <1>1, <1>2, <1>3, AlwaysFits, PTL DEF Spec
=============================================================================
