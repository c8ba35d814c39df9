----------------------------- MODULE Delegation -----------------------------
(***************************************************************************)
(* Bots that give each other work: a run of one spawns a bot, messages     *)
(* another or hands a group's thread over to a member, while users send,   *)
(* clear, stop, archive, restore and destroy bots and edit the group.      *)
(* Each of these looks first and commits later, and a run that lost its    *)
(* lease calls the same tool once more.                                    *)
(***************************************************************************)
EXTENDS Integers, FiniteSets

CONSTANTS
  Bots,        \* ids of bots, those a spawn may still create included
  Founders,    \* the bots there are at first, all members of the group
  Runs,        \* ids of runs, in the order they are created
  Keys,        \* executionIds of tool calls
  Handlers,    \* slots that execute continueRun
  Requests,    \* slots of the API
  MaxHops,     \* BOT_MESSAGE_MAX_HOPS
  MinMembers,  \* GROUP_MEMBER_MIN
  MaxRequests, MaxLapses,  \* bounds
  None

ASSUME DelegationAssumption ==
  /\ IsFiniteSet(Bots) /\ Founders \subseteq Bots
  /\ Runs \subseteq Nat
  /\ MaxHops \in Nat /\ MinMembers \in Nat \ {0}
  /\ MinMembers <= Cardinality(Founders)
  /\ MaxRequests \in Nat /\ MaxLapses \in Nat
  /\ None \notin Bots \cup Runs \cup Keys \cup Handlers

VARIABLES
  bot,      \* each bot's row
  grouped,  \* does the group exist?
  members,  \* its members
  run,      \* each run's row, and what is left of the message that woke it
  effect,   \* each tool call's external effect: its run and its status
  handler,  \* each slot: the run it executes and the tool call it is in
  request,  \* each slot of the API: the locals of its request
  depth,    \* history: messages in a row that led to a run
  asked, lapses  \* number of requests and lapsed leases so far

rows == <<bot, grouped, members, run, effect>>
vars == <<rows, handler, request, depth, asked, lapses>>

Bot == [stage : {"new", "live", "archived", "gone"}, key : Keys \cup {None}]
Exists(b) == bot[b].stage \in {"live", "archived"}
Live(b) == bot[b].stage = "live"

Statuses == {"new", "queued", "running", "completed", "cancelled", "gone"}
Run == [status : Statuses, bot : Bots \cup {None}, thread : {"home", "group"},
        trigger : {"user", "bot_message", "spawn"}, key : Keys \cup {None},
        hop : Nat, kept : BOOLEAN, owner : Handlers \cup {None}]
Active(r) == run[r].status \in {"queued", "running"}

Effect == [run : Runs \cup {None},
           status : {"none", "intended", "executing", "completed", "deleted"}]
NoEffect == [run |-> None, status |-> "none"]

\* findMany's where: { bot: { archivedAt: null } }.
ActiveMembers == {b \in members : Live(b)}

-----------------------------------------------------------------------------
(* Runs.                                                                   *)

NoRun == [status |-> "new", bot |-> None, thread |-> "home", trigger |-> "user",
          key |-> None, hop |-> 0, kept |-> FALSE, owner |-> None]

\* Ids are used in order.
NextId(r) == run[r].status = "new" /\ \A o \in Runs : o < r => run[o].status # "new"

NewRun(b, thread, trigger, key, hop) ==
  [status |-> "queued", bot |-> b, thread |-> thread, trigger |-> trigger,
   key |-> key, hop |-> hop, kept |-> trigger = "bot_message", owner |-> None]
Insert(r, new) == NextId(r) /\ run' = [run EXCEPT ![r] = new]

Cancelled(doomed) == [r \in Runs |->
  IF r \in doomed /\ run[r].status # "gone"
  THEN [run[r] EXCEPT !.status = "cancelled", !.owner = None] ELSE run[r]]

\* onDelete: Cascade.
Deleted(doomed) == [r \in Runs |->
  IF r \in doomed /\ run[r].status # "new"
  THEN [NoRun EXCEPT !.status = "gone"] ELSE run[r]]

RunsOf(b) == {r \in Runs : run[r].bot = b}
HomeRuns(b) == {r \in RunsOf(b) : run[r].thread = "home"}
GroupRuns == {r \in Runs : run[r].thread = "group" /\ run[r].status # "new"}

-----------------------------------------------------------------------------
(* A handler executes a run; what the model does is a choice.              *)

Ops == {"message", "handoff", "spawn"}
Steps == {"idle", "turn", "address", "check", "deliver", "hand", "create",
          "prompt", "settle"}
Handler == [step : Steps, run : Runs \cup {None}, op : Ops \cup {None},
            target : Bots \cup {None}, key : Keys \cup {None}, hop : Nat,
            claimed : BOOLEAN]
Idle == [step |-> "idle", run |-> None, op |-> None, target |-> None,
         key |-> None, hop |-> 0, claimed |-> FALSE]

At(h, step) == handler[h].step = step
Its(h) == run[handler[h].run]
Goes(h, step) == handler' = [handler EXCEPT ![h] = [handler[h] EXCEPT !.step = step]]

Turn(r) == [Idle EXCEPT !.step = "turn", !.run = r]

\* The tool returns, or it throws.  A result is an effect to complete.
Returns(h, b) == handler' = [handler EXCEPT ![h] =
  [Turn(handler[h].run) EXCEPT !.step = "settle", !.target = b,
                               !.key = handler[h].key, !.claimed = handler[h].claimed]]
Throws(h) == handler' = [handler EXCEPT ![h] = Turn(handler[h].run)]

\* A slot claims a run, or one whose lease lapsed under its handler.
Take(h, r) ==
  /\ At(h, "idle")
  /\ \/ run[r].status = "queued" /\ lapses' = lapses
     \/ run[r].status = "running" /\ lapses < MaxLapses /\ lapses' = lapses + 1
  /\ run' = [run EXCEPT ![r] = [run[r] EXCEPT !.status = "running", !.owner = h]]
  /\ handler' = [handler EXCEPT ![h] = Turn(r)]
  /\ UNCHANGED <<bot, grouped, members, effect, request, depth, asked>>

\* finalizeRun, which only the holder of the lease passes.
EndTurn(h) ==
  /\ At(h, "turn")
  /\ run' = IF Its(h).status = "running" /\ Its(h).owner = h
            THEN [run EXCEPT ![handler[h].run] = [Its(h) EXCEPT !.status = "completed", !.owner = None]]
            ELSE run
  /\ handler' = [handler EXCEPT ![h] = Idle]
  /\ UNCHANGED <<bot, grouped, members, effect, request, depth, asked, lapses>>

\* filterBuiltinToolsForThread.
Offered(h) == IF Its(h).thread = "group" THEN {"handoff", "spawn"} ELSE {"message", "spawn"}

First(op) == CASE op = "message" -> "address"
               [] op = "handoff" -> "hand"
               [] op = "spawn" -> "create"

\* A call whose effect was recorded but not completed is executed again, by
\* the one that claims it; a third is told that the outcome is uncertain.
\* The model names some bot that exists.
Call(h, k, op, b) ==
  /\ At(h, "turn") /\ op \in Offered(h) /\ Its(h).status # "gone" /\ Exists(b)
  /\ \/ effect[k].status = "none"
     \/ effect[k].status = "intended" /\ effect[k].run = handler[h].run
  /\ effect' = [effect EXCEPT ![k] =
       [run |-> handler[h].run,
        status |-> IF effect[k].status = "none" THEN "intended" ELSE "executing"]]
  /\ handler' = [handler EXCEPT ![h] =
       [handler[h] EXCEPT !.step = First(op), !.op = op, !.key = k,
                          !.target = IF op = "spawn" THEN None ELSE b,
                          !.claimed = effect[k].status = "intended"]]
  /\ UNCHANGED <<bot, grouped, members, run, request, depth, asked, lapses>>

\* finish: completeEffect.
Settle(h) ==
  /\ At(h, "settle")
  /\ effect' = IF effect[handler[h].key].status =
                  (IF handler[h].claimed THEN "executing" ELSE "intended")
               THEN [effect EXCEPT ![handler[h].key].status = "completed"] ELSE effect
  /\ Throws(h)
  /\ UNCHANGED <<bot, grouped, members, run, request, depth, asked, lapses>>

-----------------------------------------------------------------------------
(* messageBot.                                                             *)

\* currentBotMessageHop and nextBotMessageHop: the hop is in the message that
\* woke the sender, if that message is still there.
NextHop(r) ==
  IF run[r].trigger = "bot_message" /\ run[r].kept THEN run[r].hop + 1 ELSE 1

\* botMessageHopExhausted, then resolveBotAddress.
Address(h) ==
  /\ At(h, "address")
  /\ LET hop == NextHop(handler[h].run)
         good == hop <= MaxHops /\ Live(handler[h].target) /\ handler[h].target # Its(h).bot
     IN IF good
        THEN handler' = [handler EXCEPT ![h] = [handler[h] EXCEPT !.step = "check", !.hop = hop]]
        ELSE Returns(h, None)
  /\ UNCHANGED <<rows, request, depth, asked, lapses>>

\* The message with the key as its clientNonce.
Inbound(h) == {r \in Runs :
  /\ run[r].status \notin {"new", "gone"} /\ run[r].kept
  /\ run[r].trigger = "bot_message" /\ run[r].key = handler[h].key
  /\ run[r].bot = handler[h].target}

\* The transaction looks before it takes a lock.
Check(h) ==
  /\ At(h, "check")
  /\ IF Inbound(h) # {} THEN Returns(h, None)
     ELSE IF Its(h).status = "running" /\ Live(handler[h].target) THEN Goes(h, "deliver")
     ELSE Returns(h, None)
  /\ UNCHANGED <<rows, request, depth, asked, lapses>>

\* assertRunCanWriteHistory, under the lock of the thread it writes to.
MayWrite(h) == Its(h).status \notin {"cancelled", "gone"}

\* Mutant of Delivered: no clientNonce, so no unique constraint.
DeliveredNever(h) == FALSE
Delivered(h) == Inbound(h) # {}

\* Both threads are locked from here on.  A unique or a foreign key may
\* refuse the message; the echo refuses a sender that was cancelled.
Deliver(h, r) ==
  /\ At(h, "deliver")
  /\ ~Delivered(h) /\ Exists(handler[h].target) /\ MayWrite(h)
  /\ Insert(r, NewRun(handler[h].target, "home", "bot_message", handler[h].key, handler[h].hop))
  /\ depth' = [depth EXCEPT ![r] = depth[handler[h].run] + 1]
  /\ Returns(h, None)
  /\ UNCHANGED <<bot, grouped, members, effect, request, asked, lapses>>

\* Two bots that message each other lock their threads in opposite orders.
Crosses(h, g) ==
  /\ At(g, "deliver")
  /\ handler[g].target = Its(h).bot /\ handler[h].target = Its(g).bot

Undelivered(h) ==
  /\ At(h, "deliver")
  /\ \/ Delivered(h) /\ Returns(h, None)
     \/ (\E g \in Handlers : Crosses(h, g)) /\ Throws(h)
     \/ ~Delivered(h) /\ ~(Exists(handler[h].target) /\ MayWrite(h)) /\ Throws(h)
  /\ UNCHANGED <<rows, request, depth, asked, lapses>>

-----------------------------------------------------------------------------
(* handoffToGroupBot, a transaction that holds the lock of the group.      *)

\* Mutant of MayHandOff: the members are not looked at again under the lock.
MayHandOffAnyway(h) == grouped /\ Its(h).status = "running" /\ Live(handler[h].target)
MayHandOff(h) ==
  /\ grouped /\ Its(h).status = "running"
  /\ {Its(h).bot, handler[h].target} \subseteq ActiveMembers
  /\ handler[h].target # Its(h).bot

HandOff(h, r) ==
  /\ At(h, "hand") /\ MayHandOff(h)
  /\ Insert(r, NewRun(handler[h].target, "group", "user", None, 0))
  /\ Returns(h, None)
  /\ UNCHANGED <<bot, grouped, members, effect, request, depth, asked, lapses>>

RefuseHandOff(h) ==
  /\ At(h, "hand") /\ ~MayHandOff(h)
  /\ Returns(h, None)
  /\ UNCHANGED <<rows, request, depth, asked, lapses>>

-----------------------------------------------------------------------------
(* spawnBot, with a prompt.                                                *)

Spawned(h) == {b \in Bots : Exists(b) /\ bot[b].key = handler[h].key}

Creates(h, b) ==
  /\ Spawned(h) = {} /\ bot[b].stage = "new" /\ MayWrite(h) /\ Exists(Its(h).bot)

\* createBot.  The parent may be archived.
CreateBot(h, b) ==
  /\ At(h, "create") /\ Creates(h, b)
  /\ bot' = [bot EXCEPT ![b] = [stage |-> "live", key |-> handler[h].key]]
  /\ handler' = [handler EXCEPT ![h] = [handler[h] EXCEPT !.step = "prompt", !.target = b]]
  /\ UNCHANGED <<grouped, members, run, effect, request, depth, asked, lapses>>

\* Mutant of FindSpawned: a bot that is there already was given its prompt.
FindSpawnedOnly(h) ==
  /\ At(h, "create")
  /\ \E b \in Spawned(h) : Returns(h, b)
  /\ UNCHANGED <<rows, request, depth, asked, lapses>>
FindSpawned(h) ==
  /\ At(h, "create")
  /\ \E b \in Spawned(h) : handler' = [handler EXCEPT ![h] =
       [handler[h] EXCEPT !.step = "prompt", !.target = b]]
  /\ UNCHANGED <<rows, request, depth, asked, lapses>>

CreateBotFails(h) ==
  /\ At(h, "create") /\ Spawned(h) = {}
  /\ ~(MayWrite(h) /\ Exists(Its(h).bot))
  /\ Throws(h)
  /\ UNCHANGED <<rows, request, depth, asked, lapses>>

\* The run with the key in its clientNonce.
SpawnRuns(h) == {r \in Runs :
  run[r].status \notin {"new", "gone"} /\ run[r].trigger = "spawn" /\ run[r].key = handler[h].key}

\* ensureSpawnRun: the bot may have been destroyed, the source run cancelled.
EnsureSpawnRun(h, r) ==
  /\ At(h, "prompt") /\ SpawnRuns(h) = {}
  /\ Exists(handler[h].target) /\ MayWrite(h)
  /\ Insert(r, NewRun(handler[h].target, "home", "spawn", handler[h].key, 0))
  /\ Returns(h, handler[h].target)
  /\ UNCHANGED <<bot, grouped, members, effect, request, depth, asked, lapses>>

FindSpawnRun(h) ==
  /\ At(h, "prompt")
  /\ \/ SpawnRuns(h) # {} /\ Returns(h, handler[h].target)
     \/ SpawnRuns(h) = {} /\ ~(Exists(handler[h].target) /\ MayWrite(h)) /\ Throws(h)
  /\ UNCHANGED <<rows, request, depth, asked, lapses>>

-----------------------------------------------------------------------------
(* Requests of the user.  Each looks at its target first: a bot, or the    *)
(* group if there is None.  A parent's archive_bot does what archive does. *)

ThreadOps == {"send", "stop"}
BotOps    == {"clear", "archive", "restore", "destroy"}
GroupOps  == {"update", "remove"}
Request == [step : {"idle", "cancel", "commit"},
            op : ThreadOps \cup BotOps \cup GroupOps \cup {None},
            bot : Bots \cup {None}, bots : SUBSET Bots, seen : SUBSET Runs]
NoRequest == [step |-> "idle", op |-> None, bot |-> None, bots |-> {}, seen |-> {}]

Enough(bots) == Cardinality(bots) >= MinMembers
MayAsk(q) == request[q].step = "idle" /\ asked < MaxRequests
Starts(q, record) ==
  /\ request' = [request EXCEPT ![q] = record]
  /\ asked' = asked + 1
  /\ UNCHANGED <<rows, handler, depth, lapses>>

\* getBot, which finds an archived bot only for the last three operations.
\* archiveBot and destroyBot read the active runs before they lock anything.
AskBot(q, op, b) ==
  /\ MayAsk(q)
  /\ IF op \in ThreadOps \cup {"clear"} THEN Live(b) ELSE Exists(b)
  /\ op = "restore" => ~Live(b)
  /\ Starts(q, [step |-> IF op = "destroy" THEN "cancel" ELSE "commit",
                op |-> op, bot |-> b, bots |-> {},
                seen |-> IF op \in {"archive", "destroy"}
                         THEN {r \in RunsOf(b) : Active(r)} ELSE {}])

\* getGroupTarget, and assertOwnedBots for an update.
AskGroup(q, op, bots) ==
  /\ MayAsk(q)
  /\ op \in ThreadOps => grouped /\ Enough(ActiveMembers)
  /\ IF op = "update" THEN Enough(bots) /\ \A b \in bots : Live(b) ELSE bots = {}
  /\ Starts(q, [step |-> "commit", op |-> op, bot |-> None, bots |-> bots, seen |-> {}])

Target(q) == request[q].bot
InGroup(q) == Target(q) = None
Done(q) == request' = [request EXCEPT ![q] = NoRequest]

\* What the transaction of a request needs, its foreign keys included.
Allowed(q) ==
  CASE request[q].op = "stop" -> TRUE
    [] request[q].op = "send" /\ InGroup(q) -> grouped /\ Enough(ActiveMembers)
    [] request[q].op = "update" -> grouped /\ \A b \in request[q].bots : Exists(b)
    [] request[q].op = "remove" -> grouped
    [] OTHER -> Exists(Target(q))
Commits(q, op) == request[q].step = "commit" /\ request[q].op = op /\ Allowed(q) /\ Done(q)

Fail(q) ==
  /\ request[q].step = "commit" /\ ~Allowed(q) /\ Done(q)
  /\ UNCHANGED <<rows, handler, depth, asked, lapses>>

\* sendThreadMessage, and cancelSupersededQueuedRuns.
Send(q, r, b) ==
  /\ Commits(q, "send")
  /\ IF InGroup(q) THEN b \in ActiveMembers ELSE b = Target(q)
  /\ LET thread == IF InGroup(q) THEN "group" ELSE "home"
         superseded == {o \in RunsOf(b) : run[o].thread = thread /\ run[o].status = "queued"}
     IN /\ NextId(r)
        /\ run' = [Cancelled(superseded) EXCEPT ![r] = NewRun(b, thread, "user", None, 0)]
  /\ UNCHANGED <<bot, grouped, members, effect, handler, depth, asked, lapses>>

\* stopThreadRuns.
Stop(q) ==
  /\ Commits(q, "stop")
  /\ run' = Cancelled({r \in IF InGroup(q) THEN GroupRuns ELSE HomeRuns(Target(q)) : Active(r)})
  /\ UNCHANGED <<bot, grouped, members, effect, handler, depth, asked, lapses>>

\* clearThread: the messages go, and with them what woke the runs.
\* Mutant of Cleared: the run that works is left to end.
ClearedQueued(b) == Cancelled({r \in HomeRuns(b) : run[r].status = "queued"})
Cleared(b) == Cancelled({r \in HomeRuns(b) : Active(r)})
Clear(q) ==
  /\ Commits(q, "clear")
  /\ run' = [r \in Runs |-> IF r \in HomeRuns(Target(q))
                            THEN [Cleared(Target(q))[r] EXCEPT !.kept = FALSE] ELSE run[r]]
  /\ UNCHANGED <<bot, grouped, members, effect, handler, depth, asked, lapses>>

\* archiveBot cancels what it saw, whatever became of it.
Archive(q) ==
  /\ Commits(q, "archive")
  /\ run' = Cancelled(request[q].seen)
  /\ bot' = [bot EXCEPT ![Target(q)].stage = "archived"]
  /\ UNCHANGED <<grouped, members, effect, handler, depth, asked, lapses>>

Restore(q) ==
  /\ Commits(q, "restore")
  /\ bot' = [bot EXCEPT ![Target(q)].stage = "live"]
  /\ UNCHANGED <<grouped, members, run, effect, handler, depth, asked, lapses>>

\* destroyBot cancels what it saw in a statement of its own.
CancelDestroyed(q) ==
  /\ request[q].step = "cancel"
  /\ run' = Cancelled(request[q].seen)
  /\ request' = [request EXCEPT ![q].step = "commit"]
  /\ UNCHANGED <<bot, grouped, members, effect, handler, depth, asked, lapses>>

\* Effects are deleted with their runs; no call has their key again.
Cascade(doomed) ==
  /\ run' = Deleted(doomed)
  /\ effect' = [k \in Keys |-> IF effect[k].run \in doomed
                         THEN [run |-> None, status |-> "deleted"] ELSE effect[k]]

\* detachBotFromGroups: does the group go with the bot?
Dissolves(b) == b \in members /\ ~Enough(ActiveMembers \ {b})

Destroy(q) ==
  /\ Commits(q, "destroy")
  /\ bot' = [bot EXCEPT ![Target(q)] = [stage |-> "gone", key |-> None]]
  /\ grouped' = (grouped /\ ~Dissolves(Target(q)))
  /\ members' = IF Dissolves(Target(q)) THEN {} ELSE members \ {Target(q)}
  /\ Cascade(RunsOf(Target(q)) \cup IF Dissolves(Target(q)) THEN GroupRuns ELSE {})
  /\ UNCHANGED <<handler, depth, asked, lapses>>

\* updateGroup cancels the runs of those it removes.
UpdateGroup(q) ==
  /\ Commits(q, "update")
  /\ members' = request[q].bots
  /\ run' = Cancelled({r \in GroupRuns : Active(r) /\ run[r].bot \in members \ request[q].bots})
  /\ UNCHANGED <<bot, grouped, effect, handler, depth, asked, lapses>>

RemoveGroup(q) ==
  /\ Commits(q, "remove")
  /\ grouped' = FALSE /\ members' = {}
  /\ Cascade(GroupRuns)
  /\ UNCHANGED <<bot, handler, depth, asked, lapses>>

-----------------------------------------------------------------------------
Init ==
  /\ bot = [b \in Bots |-> [stage |-> IF b \in Founders THEN "live" ELSE "new", key |-> None]]
  /\ grouped = TRUE /\ members = Founders
  /\ run = [r \in Runs |-> NoRun]
  /\ effect = [k \in Keys |-> NoEffect]
  /\ handler = [h \in Handlers |-> Idle]
  /\ request = [q \in Requests |-> NoRequest]
  /\ depth = [r \in Runs |-> 0]
  /\ asked = 0 /\ lapses = 0

HandlerNext(h) ==
  \/ \E r \in Runs : Take(h, r) \/ Deliver(h, r) \/ HandOff(h, r) \/ EnsureSpawnRun(h, r)
  \/ \E k \in Keys, op \in Ops, b \in Bots : Call(h, k, op, b)
  \/ \E b \in Bots : CreateBot(h, b)
  \/ EndTurn(h) \/ Settle(h)
  \/ Address(h) \/ Check(h) \/ Undelivered(h)
  \/ RefuseHandOff(h)
  \/ FindSpawned(h) \/ CreateBotFails(h) \/ FindSpawnRun(h)

RequestNext(q) ==
  \/ \E op \in ThreadOps \cup BotOps, b \in Bots : AskBot(q, op, b)
  \/ \E op \in ThreadOps \cup GroupOps, bots \in SUBSET Bots : AskGroup(q, op, bots)
  \/ \E r \in Runs, b \in Bots : Send(q, r, b)
  \/ Stop(q) \/ Clear(q) \/ Archive(q) \/ Restore(q)
  \/ CancelDestroyed(q) \/ Destroy(q)
  \/ UpdateGroup(q) \/ RemoveGroup(q) \/ Fail(q)

Next == (\E h \in Handlers : HandlerNext(h)) \/ (\E q \in Requests : RequestNext(q))

Spec == Init /\ [][Next]_vars

-----------------------------------------------------------------------------
TypeOK ==
  /\ bot \in [Bots -> Bot] /\ grouped \in BOOLEAN /\ members \subseteq Bots
  /\ run \in [Runs -> Run] /\ effect \in [Keys -> Effect]
  /\ handler \in [Handlers -> Handler] /\ request \in [Requests -> Request]
  /\ depth \in [Runs -> Nat] /\ asked \in Nat /\ lapses \in Nat

\* 'Without this the recipient is messaged twice and woken twice'
\* (bot-messages.ts:79), and child-bots.ts keys a spawn the same way: however
\* often a tool call is executed, and whatever is cleared in between, one
\* run at most works on it.
WokenOnce ==
  \A p, r \in Runs :
    /\ Active(p) /\ Active(r) /\ run[p].trigger = run[r].trigger
    /\ run[p].trigger \in {"bot_message", "spawn"} /\ run[p].key = run[r].key
    /\ run[p].trigger = "bot_message" => run[p].bot = run[r].bot
    => p = r

\* Messages wake no more than MaxHops bots in a row ('nothing stops two bots
\* replying to each other forever', core/bot-messages.ts:7), although the
\* hop is kept in a message that the user can clear away.
ChainsEnd == \A r \in Runs : depth[r] <= MaxHops

\* A group that exists has enough members, all of them existing bots, and
\* nobody else works in its thread.
GroupIsWhole ==
  /\ grouped => Enough(members) /\ \A b \in members : Exists(b)
  /\ \A r \in GroupRuns : Active(r) => grouped /\ run[r].bot \in members

\* A spawn that reports success (only it returns a bot) has given its bot the
\* prompt, however often it was interrupted, unless the bot was destroyed.
SpawnIsWhole ==
  \A h \in Handlers :
    At(h, "settle") /\ handler[h].target # None =>
      SpawnRuns(h) # {} \/ ~Exists(handler[h].target)
=============================================================================
