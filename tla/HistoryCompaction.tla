------------------------- MODULE HistoryCompaction --------------------------
(***************************************************************************)
(* The history of one thread: messages are appended and cleared, jobs      *)
(* (compactHistory) fold the oldest ones into a summary with a compare-    *)
(* and-set and save them verbatim in an external memory, and a run reads   *)
(* summary and messages in separate statements to build its context.       *)
(***************************************************************************)
EXTENDS Integers

CONSTANTS
  Workers,          \* slots that execute history.compact jobs
  WindowSize,       \* HISTORY_WINDOW_SIZE
  BatchSize,        \* COMPACTION_BATCH_SIZE
  LegacyWindowSize, \* LEGACY_HISTORY_WINDOW_SIZE
  LegacyThreads,    \* threads compacted before there were local summaries
  MaxMessages, MaxClears, \* bounds on messages and generations
  Faults, MaxFaults

FaultKinds == {"summarizer", "declined", "crash", "save", "purge", "enqueue"}

ASSUME CompactionAssumption ==
  /\ WindowSize \in Nat /\ BatchSize \in Nat \ {0}
  /\ LegacyWindowSize \in Nat \ {0} /\ WindowSize <= LegacyWindowSize
  /\ LegacyThreads \subseteq [base : Nat, cursor : Nat, next : Nat]
  /\ \A t \in LegacyThreads : t.base <= t.cursor + 1 /\ t.cursor < t.next
  /\ MaxMessages \in Nat /\ MaxClears \in Nat
  /\ Faults \subseteq FaultKinds /\ MaxFaults \in Nat

VARIABLES
  base,       \* the thread's messages are numbered from base
  next,       \* threads.nextMessageSeq
  cursor,     \* threads.historyCompactedUpToSeq, -1 for null
  summary,    \* the messages the summary stands for, {} for null
  generation, \* threads.historyCompactionGeneration
  job,        \* is a history.compact job queued?
  worker,     \* each slot: the local variables of compactHistory
  store,      \* verbatim history in the external memory: <<generation, message>>
  purging,    \* generations that requests which cleared the thread will purge
  run,        \* the run at work in the thread, and the context it read
  declined,   \* history: a job ended without compacting what was due
  leaked,     \* history: generations whose purge failed
  faults

thread  == <<base, next, cursor, summary, generation>>
history == <<declined, leaked, faults>>
vars    == <<thread, job, worker, store, purging, run, history>>

\* Message numbers are taken under the lock of the thread's row and only a
\* clear deletes messages, so they have no gaps.
Messages == base .. next - 1

Steps == {"idle", "thread", "batch", "saving", "saved", "stale", "requeue"}
Worker == [step : Steps, cursor : Int, gen : Nat, summary : SUBSET Nat,
           batch : SUBSET Nat, bootstrap : BOOLEAN, due : BOOLEAN]
Idle == [step |-> "idle", cursor |-> -1, gen |-> 0, summary |-> {},
         batch |-> {}, bootstrap |-> FALSE, due |-> FALSE]

\* "reading" awaits the thread or its messages, "working" has its context.
Run == [step : {"off", "reading", "working"}, hasThread : BOOLEAN,
        hasMessages : BOOLEAN, cursor : Int, summary : SUBSET Nat,
        messages : SUBSET Nat, recalled : BOOLEAN]
NoRun == [step |-> "off", hasThread |-> FALSE, hasMessages |-> FALSE,
          cursor |-> -1, summary |-> {}, messages |-> {}, recalled |-> FALSE]

At(w, step) == worker[w].step = step
Fault(kind) == kind \in Faults /\ faults < MaxFaults /\ faults' = faults + 1

\* shouldEnqueueCompaction, of a thread with these fields.
Due(n, c) == n - c - 1 >= WindowSize + BatchSize

-----------------------------------------------------------------------------
(* The thread.                                                             *)

\* createThreadMessageInTransaction, for a user or a bot.
Send ==
  /\ next < MaxMessages
  /\ next' = next + 1
  /\ UNCHANGED <<base, cursor, summary, generation, job, worker, store,
                 purging, run, history>>

NewGeneration == generation + 1

ClearedUpTo == IF next > 0 THEN next - 1 ELSE cursor

\* clearThread: in one transaction the messages go, the cursor is moved past
\* them, and the runs of the thread that have not ended are cancelled.
ClearThread ==
  /\ generation < MaxClears
  /\ base' = next
  /\ cursor' = ClearedUpTo
  /\ summary' = {}
  /\ generation' = NewGeneration
  /\ run' = NoRun
  /\ purging' = purging \cup {generation}
  /\ UNCHANGED <<next, job, worker, store, history>>

\* After the commit the request purges the generation it ended, and the one
\* before.
PurgeCleared ==
  /\ \E g \in purging :
       /\ store' = {e \in store : e[1] \notin {g - 1, g}}
       /\ purging' = purging \ {g}
  /\ UNCHANGED <<thread, job, worker, run, history>>

\* The memory cannot be reached, or the process dies first.
PurgeClearedFails ==
  /\ \E g \in purging : purging' = purging \ {g} /\ leaked' = leaked \cup {g}
  /\ Fault("purge")
  /\ UNCHANGED <<thread, job, worker, store, run, declined>>

-----------------------------------------------------------------------------
(* A run and its context.                                                  *)

StartRun ==
  /\ run.step = "off"
  /\ run' = [NoRun EXCEPT !.step = "reading"]
  /\ UNCHANGED <<thread, job, worker, store, purging, history>>

\* The statements of one Promise.all, each on a connection of its own.
ReadThread ==
  /\ run.step = "reading" /\ ~run.hasThread
  /\ run' = [run EXCEPT !.hasThread = TRUE, !.cursor = cursor, !.summary = summary]
  /\ UNCHANGED <<thread, job, worker, store, purging, history>>

ReadMessages ==
  /\ run.step = "reading" /\ ~run.hasMessages
  /\ run' = [run EXCEPT !.hasMessages = TRUE,
       !.messages = {m \in Messages : m >= next - LegacyWindowSize}]
  /\ UNCHANGED <<thread, job, worker, store, purging, history>>

\* selectCompactedHistory: the summary is used only if the messages past the
\* cursor follow it without a gap.
Uncompacted(r) == {m \in r.messages : m > r.cursor}

\* Mutant of UsesSummary: without the check of the sequence numbers.
UsesAnySummary(r) == r.summary # {}

UsesSummary(r) ==
  /\ r.summary # {}
  /\ Uncompacted(r) = {} \/ r.cursor + 1 \in r.messages

\* historyWindowSize, where no summary is used.
Shown(r) ==
  IF UsesSummary(r) THEN Uncompacted(r)
  ELSE IF r.recalled THEN {m \in r.messages : \A n \in r.messages : n < m + WindowSize}
  ELSE r.messages

\* The memory is only asked if something was compacted, and shortens the
\* window only if there is no summary.
BuildContext ==
  /\ run.step = "reading" /\ run.hasThread /\ run.hasMessages
  /\ \E recalled \in BOOLEAN :
       /\ recalled => run.cursor >= 0 /\ run.summary = {}
       /\ run' = [run EXCEPT !.step = "working", !.recalled = recalled]
  /\ UNCHANGED <<thread, job, worker, store, purging, history>>

\* The end of a completed run enqueues a job if one is due.
CompleteRun ==
  /\ run.step = "working"
  /\ run' = NoRun
  /\ job' = (job \/ Due(next, cursor))
  /\ UNCHANGED <<thread, worker, store, purging, history>>

EnqueueFails ==
  /\ run.step = "working"
  /\ Fault("enqueue")
  /\ run' = NoRun
  /\ UNCHANGED <<thread, job, worker, store, purging, declined, leaked>>

-----------------------------------------------------------------------------
(* compactHistory in a slot of the worker.                                 *)

Become(w, r) == worker' = [worker EXCEPT ![w] = r]
Return(w) == Become(w, Idle)

TakeJob(w) ==
  /\ At(w, "idle") /\ job
  /\ job' = FALSE
  /\ Become(w, [Idle EXCEPT !.step = "thread",
       !.cursor = cursor, !.gen = generation, !.summary = summary])
  /\ UNCHANGED <<thread, store, purging, run, history>>

\* A thread compacted before there were summaries gets one of everything up
\* to its cursor, if those messages are there.
Bootstraps(w) ==
  /\ worker[w].gen = 0 /\ worker[w].cursor >= 0 /\ worker[w].summary = {}
  /\ base <= worker[w].cursor /\ base < next

\* The last of them are there, from the first on, and they are not too many.
Rebuildable(w) ==
  /\ worker[w].cursor < next
  /\ worker[w].cursor - base < LegacyWindowSize

\* Otherwise the next messages are taken, which must follow the cursor.
NextBatch(w) ==
  LET c == worker[w].cursor
  IN  {m \in Messages : m > c /\ m <= c + BatchSize}

Contiguous(w) == base <= worker[w].cursor + 1

\* Of a batch that exceeds the transcript's budget a part is taken.
ReadBatch(w) ==
  /\ At(w, "thread")
  /\ \/ /\ Bootstraps(w) /\ Rebuildable(w)
        /\ Become(w, [worker[w] EXCEPT !.step = "batch", !.bootstrap = TRUE,
                                       !.batch = base .. worker[w].cursor])
     \/ /\ ~Bootstraps(w) /\ Contiguous(w)
        /\ \E last \in NextBatch(w) : Become(w, [worker[w] EXCEPT !.step = "batch",
             !.bootstrap = FALSE, !.batch = {m \in NextBatch(w) : m <= last}])
  /\ UNCHANGED <<thread, job, store, purging, run, history>>

\* There is nothing to compact, or the messages do not fit the cursor.
Refuse(w) ==
  /\ At(w, "thread")
  /\ \/ Bootstraps(w) /\ ~Rebuildable(w)
     \/ ~Bootstraps(w) /\ (NextBatch(w) = {} \/ ~Contiguous(w))
  /\ Return(w)
  /\ declined' = (declined \/ worker[w].gen = generation)
  /\ UNCHANGED <<thread, job, store, purging, run, leaked, faults>>

\* No usable model, a first message beyond the budget, a summary too large.
Decline(w) ==
  /\ At(w, "batch")
  /\ Fault("declined")
  /\ Return(w)
  /\ declined' = TRUE
  /\ UNCHANGED <<thread, job, store, purging, run, leaked>>

\* The summarizer reports a failure or nothing: the job is retried.
SummarizerFails(w) ==
  /\ At(w, "batch")
  /\ Fault("summarizer")
  /\ Return(w)
  /\ job' = TRUE
  /\ UNCHANGED <<thread, store, purging, run, declined, leaked>>

\* The where clause of the update.
\* Mutants of Unchanged: only the cursor, only the generation is compared.
SameCursor(w) == worker[w].cursor = cursor
SameConversation(w) == worker[w].gen = generation
Unchanged(w) == worker[w].cursor = cursor /\ worker[w].gen = generation

\* The summary written is the summarizer's, made of the old one and the batch.
Advance(w) ==
  /\ At(w, "batch") /\ Unchanged(w)
  /\ \E last \in worker[w].batch :
       /\ \A m \in worker[w].batch : m <= last
       /\ cursor' = last
  /\ summary' = worker[w].summary \cup worker[w].batch
  /\ Become(w, [worker[w] EXCEPT !.step = "saving", !.cursor = -1, !.summary = {}])
  /\ UNCHANGED <<base, next, generation, job, store, purging, run, history>>

LoseAdvance(w) ==
  /\ At(w, "batch") /\ ~Unchanged(w)
  /\ Return(w)
  /\ UNCHANGED <<thread, job, store, purging, run, history>>

\* Mutant of SavedAs: the history is saved under the generation of the moment.
SavedAsCurrent(w) == {generation} \X worker[w].batch
SavedAs(w) == {worker[w].gen} \X worker[w].batch

Saved(w) == Become(w, [worker[w] EXCEPT !.step = "saved", !.batch = {}, !.bootstrap = FALSE])

\* The batch goes to the external memory.
SaveVerbatim(w) ==
  /\ At(w, "saving")
  /\ Saved(w)
  /\ store' = store \cup SavedAs(w)
  /\ UNCHANGED <<thread, job, purging, run, history>>

\* There is none or it fails, which is ignored.
SaveFails(w) ==
  /\ At(w, "saving")
  /\ Fault("save")
  /\ Saved(w)
  /\ UNCHANGED <<thread, job, store, purging, run, declined, leaked>>

\* The thread is read again.  If it was cleared meanwhile, what was saved is
\* purged (without a memory there is nothing to purge).
\* Mutant of Recheck: no purge of a late save.
RecheckBacklog(w) ==
  /\ At(w, "saved")
  /\ Become(w, [worker[w] EXCEPT !.step = "requeue", !.due = Due(next, cursor)])
  /\ UNCHANGED <<thread, job, store, purging, run, history>>

Recheck(w) ==
  /\ At(w, "saved")
  /\ Become(w, [worker[w] EXCEPT !.due = Due(next, cursor),
       !.step = IF generation # worker[w].gen THEN "stale" ELSE "requeue"])
  /\ UNCHANGED <<thread, job, store, purging, run, history>>

PurgeStale(w) ==
  /\ At(w, "stale")
  /\ Become(w, [worker[w] EXCEPT !.step = "requeue"])
  /\ store' = {e \in store : e[1] # worker[w].gen}
  /\ UNCHANGED <<thread, job, purging, run, history>>

PurgeStaleFails(w) ==
  /\ At(w, "stale")
  /\ Fault("purge")
  /\ Become(w, [worker[w] EXCEPT !.step = "requeue"])
  /\ leaked' = leaked \cup {worker[w].gen}
  /\ UNCHANGED <<thread, job, store, purging, run, declined>>

\* A backlog is drained at queue speed.  If the enqueue fails, the job throws
\* and is retried, which comes to the same.
\* Mutant of Requeue: the next run has to notice the backlog.
RequeueNothing(w) ==
  /\ At(w, "requeue")
  /\ Return(w)
  /\ UNCHANGED <<thread, job, store, purging, run, history>>

Requeue(w) ==
  /\ At(w, "requeue")
  /\ Return(w)
  /\ job' = (job \/ worker[w].due)
  /\ UNCHANGED <<thread, store, purging, run, history>>

\* The process dies: the job is redelivered, what was not purged may stay.
Crash(w) ==
  /\ ~At(w, "idle")
  /\ Fault("crash")
  /\ Return(w)
  /\ job' = TRUE
  /\ leaked' = IF worker[w].step \in {"saved", "stale"}
               THEN leaked \cup {worker[w].gen} ELSE leaked
  /\ UNCHANGED <<thread, store, purging, run, declined>>

-----------------------------------------------------------------------------
Init ==
  /\ \E t \in LegacyThreads \cup {[base |-> 0, cursor |-> -1, next |-> 0]} :
       base = t.base /\ cursor = t.cursor /\ next = t.next
  /\ summary = {} /\ generation = 0
  /\ job = FALSE /\ worker = [w \in Workers |-> Idle]
  /\ store = {} /\ purging = {} /\ run = NoRun
  /\ declined = FALSE /\ leaked = {} /\ faults = 0

RunStep == StartRun \/ ReadThread \/ ReadMessages \/ BuildContext \/ CompleteRun

WorkerStep(w) ==
  \/ TakeJob(w) \/ ReadBatch(w) \/ Refuse(w) \/ Advance(w) \/ LoseAdvance(w)
  \/ SaveVerbatim(w) \/ Recheck(w) \/ PurgeStale(w) \/ Requeue(w)

WorkerFails(w) ==
  Decline(w) \/ SummarizerFails(w) \/ SaveFails(w) \/ PurgeStaleFails(w) \/ Crash(w)

Next ==
  \/ Send \/ ClearThread \/ PurgeCleared \/ PurgeClearedFails
  \/ RunStep \/ EnqueueFails
  \/ \E w \in Workers : WorkerStep(w) \/ WorkerFails(w)

Spec == Init /\ [][Next]_vars

\* The slots of the worker run on.
FairSpec == Spec /\ \A w \in Workers : WF_vars(WorkerStep(w))

-----------------------------------------------------------------------------
(* Correctness.                                                            *)

\* The types of the state; the cursor lies in the conversation or before it.
TypeOK ==
  /\ base \in Nat /\ next \in Nat /\ generation \in Nat
  /\ cursor \in Int /\ base - 1 <= cursor /\ base <= next /\ cursor < next
  /\ summary \in SUBSET Nat /\ job \in BOOLEAN
  /\ worker \in [Workers -> Worker] /\ run \in Run
  /\ store \in SUBSET (Nat \X Nat) /\ purging \in SUBSET Nat
  /\ declined \in BOOLEAN /\ leaked \in SUBSET Nat
  /\ faults \in Nat

\* The summary stands for exactly the messages from the first of the
\* conversation to the cursor: nothing twice, nothing skipped and nothing
\* that was cleared, however late a job writes its summary.
SummaryIsFaithful == summary # {} => summary = base .. cursor

\* A run that was not cancelled works with a context without a hole,
\* although thread and messages are read in separate statements: the summary
\* and the messages shown meet, or no summary is used and the last messages
\* are shown; the whole legacy window unless the memory answered.
ContextIsWhole ==
  run.step = "working" =>
    IF UsesSummary(run)
    THEN /\ run.summary \cap Shown(run) = {}
         /\ \A m \in run.messages \cup {run.cursor} :
              base .. m \subseteq run.summary \cup Shown(run)
    ELSE \A m \in run.messages \ Shown(run) : run.recalled

\* Recall asks for the current generation, and what is stored under it is
\* never of a conversation that was cleared, however late it was saved.
RecallIsCurrent == \A e \in store : e[1] = generation => e[2] >= base

\* 'Saving only after the compare-and-set also prevents losing workers from
\* creating duplicates': what a job is about to save is not in the memory
\* and no other job is about to save it.  (Rebuilding the summary of a
\* legacy thread does not move the cursor, so two jobs may both save it.)
SavedOnce ==
  \A w \in Workers : At(w, "saving") /\ ~worker[w].bootstrap =>
    /\ SavedAs(w) \cap store = {}
    /\ \A v \in Workers \ {w} : At(v, "saving") => SavedAs(w) \cap SavedAs(v) = {}

\* What is kept of a conversation that was cleared will still be purged, by
\* the request that cleared it or by the job that saved it too late, unless
\* that purge fails.
ClearedIsPurged ==
  \A e \in store : e[1] < generation =>
    \/ e[1] \in purging \cup leaked
    \/ \E w \in Workers : worker[w].gen = e[1] /\ worker[w].step \in {"saved", "stale"}

\* Runs see the summary grow along the conversation until it is forgotten.
Memory == INSTANCE MemoryContract WITH first <- base, told <- summary
ImplementsMemory == Memory!Spec

\* A due job is followed by jobs until nothing is due, or one declines.
Drains == job /\ Due(next, cursor) ~> declined \/ ~Due(next, cursor)
=============================================================================
