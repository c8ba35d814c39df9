---------------------- MODULE HistoryCompactionProofs -----------------------
(***************************************************************************)
(* Proofs about HistoryCompaction, for any number of jobs, messages,       *)
(* clears and failures and any sizes: the summary stands for the beginning *)
(* of the conversation, contexts have no hole, the external memory keeps   *)
(* conversations apart and nothing is saved twice.                         *)
(***************************************************************************)
EXTENDS HistoryCompaction, TLAPS

\* A job at work on the summary, before its compare-and-set.
Summarizing(w) == worker[w].step \in {"thread", "batch"}

\* Nobody knows a generation to come, and nothing is stored under one.
PastOnly ==
  /\ \A w \in Workers : worker[w].gen <= generation
  /\ \A e \in store : e[1] <= generation

\* Only a thread that was never cleared since there are generations has
\* compacted messages and no summary.
Cleared == generation > 0 /\ summary = {} => cursor = base - 1

\* What a job read is an earlier state of the conversation, if it is still
\* the same conversation.
ReadEarlier ==
  \A w \in Workers : Summarizing(w) /\ worker[w].gen = generation =>
    /\ base - 1 <= worker[w].cursor /\ worker[w].cursor <= cursor
    /\ worker[w].summary # {} => worker[w].summary = base .. worker[w].cursor
    /\ generation > 0 /\ worker[w].summary = {} => worker[w].cursor = base - 1

\* A batch starts the conversation or follows what the job read.
BatchFollows ==
  \A w \in Workers : At(w, "batch") /\ worker[w].gen = generation =>
    \/ /\ worker[w].bootstrap /\ worker[w].summary = {}
       /\ base <= worker[w].cursor
       /\ worker[w].batch = base .. worker[w].cursor
    \/ /\ ~worker[w].bootstrap
       /\ worker[w].summary = {} => worker[w].cursor = base - 1
       /\ \E last \in worker[w].cursor + 1 .. next - 1 :
            worker[w].batch = worker[w].cursor + 1 .. last

IInv == TypeOK /\ PastOnly /\ Cleared /\ SummaryIsFaithful /\ ReadEarlier /\ BatchFollows

\* What the update writes, shown once for all the lemmas that need it.
LEMMA Advances ==
  ASSUME IInv, NEW w \in Workers, Advance(w)
  PROVE  /\ cursor' \in Int /\ cursor <= cursor' /\ base <= cursor' /\ cursor' < next
         /\ summary' = base .. cursor'
         /\ worker[w].gen = generation /\ worker[w].cursor = cursor
         /\ worker[w].batch \subseteq base .. cursor'
         /\ ~worker[w].bootstrap => \A m \in worker[w].batch : cursor < m
         /\ worker[w].bootstrap => worker[w].summary = {} /\ worker[w].batch = base .. cursor
<1> USE DEF IInv, TypeOK, Worker, At
<1>1. worker[w].gen = generation /\ worker[w].cursor = cursor /\ At(w, "batch")
  BY DEF Advance, Unchanged
<1>2. PICK last \in worker[w].batch :
        (\A m \in worker[w].batch : m <= last) /\ cursor' = last
  BY DEF Advance
<1>3. summary' = worker[w].summary \cup worker[w].batch BY DEF Advance
<1>4. worker[w].summary # {} => worker[w].summary = base .. cursor
  BY <1>1 DEF ReadEarlier, Summarizing
<1>5. CASE worker[w].bootstrap /\ worker[w].summary = {} /\ base <= cursor
           /\ worker[w].batch = base .. cursor
  <2>1. cursor \in worker[w].batch BY <1>5
  <2>2. last = cursor BY <1>2, <1>5, <2>1
  <2> QED BY <1>1, <1>2, <1>3, <1>5, <2>2
<1>6. CASE ~worker[w].bootstrap /\ (worker[w].summary = {} => cursor = base - 1)
           /\ \E l \in cursor + 1 .. next - 1 : worker[w].batch = cursor + 1 .. l
  <2>1. PICK l \in cursor + 1 .. next - 1 : worker[w].batch = cursor + 1 .. l BY <1>6
  <2>2. l \in worker[w].batch BY <2>1
  <2>3. last = l BY <1>2, <2>1, <2>2
  <2>4. summary' = base .. l
    <3>1. CASE worker[w].summary = {} BY <3>1, <1>3, <1>6, <2>1
    <3>2. CASE worker[w].summary # {}
      <4>1. summary' = (base .. cursor) \cup (cursor + 1 .. l) BY <3>2, <1>3, <1>4, <2>1
      <4> QED BY <4>1, <2>1
    <3> QED BY <3>1, <3>2
  <2> QED BY <1>1, <1>2, <1>6, <2>1, <2>3, <2>4
<1> QED BY <1>1, <1>5, <1>6 DEF BatchFollows

-----------------------------------------------------------------------------
LEMMA InitInvariant == Init => IInv
<1> SUFFICES ASSUME Init PROVE IInv OBVIOUS
<1> USE CompactionAssumption DEF Init
<1>1. base \in Nat /\ next \in Nat /\ cursor \in Int /\ base - 1 <= cursor
      /\ base <= next /\ (cursor < next)
  <2>1. PICK t \in LegacyThreads \cup {[base |-> 0, cursor |-> -1, next |-> 0]} :
          base = t.base /\ cursor = t.cursor /\ next = t.next OBVIOUS
  <2>2. CASE t \in LegacyThreads
    <3>1. t.base \in Nat /\ t.cursor \in Nat /\ t.next \in Nat BY <2>2
    <3> QED BY <2>1, <2>2, <3>1
  <2>3. CASE t = [base |-> 0, cursor |-> -1, next |-> 0] BY <2>1, <2>3
  <2> QED BY <2>1, <2>2, <2>3
<1>2. worker \in [Workers -> Worker] BY DEF Worker, Steps, Idle
<1>3. run \in Run BY DEF Run, NoRun
<1>4. TypeOK BY <1>1, <1>2, <1>3 DEF TypeOK
<1> QED BY <1>4 DEF IInv, PastOnly, Cleared, SummaryIsFaithful, ReadEarlier, BatchFollows,
                    Summarizing, At, Idle

LEMMA Becomes ==
  ASSUME worker \in [Workers -> Worker], NEW w \in Workers, NEW r \in Worker, Become(w, r)
  PROVE  /\ worker' \in [Workers -> Worker] /\ worker'[w] = r
         /\ \A v \in Workers \ {w} : worker'[v] = worker[v]
BY DEF Become

\* Every step of a job makes it a job; other jobs are left alone.
LEMMA JobStep ==
  ASSUME TypeOK, NEW w \in Workers, WorkerStep(w) \/ WorkerFails(w)
  PROVE  /\ worker' \in [Workers -> Worker]
         /\ \A v \in Workers \ {w} : worker'[v] = worker[v]
<1> DEFINE Goal == /\ worker' \in [Workers -> Worker]
                   /\ \A v \in Workers \ {w} : worker'[v] = worker[v]
<1> USE DEF TypeOK
<1>1. ASSUME NEW r \in Worker, Become(w, r) PROVE Goal BY <1>1, Becomes
<1>2. CASE Return(w)
  <2>1. Idle \in Worker BY DEF Idle, Worker, Steps
  <2> QED BY <1>1, <1>2, <2>1 DEF Return
<1>3. CASE TakeJob(w)
  <2>1. [Idle EXCEPT !.step = "thread", !.cursor = cursor, !.gen = generation,
                     !.summary = summary] \in Worker
    BY DEF Idle, Worker, Steps
  <2> QED BY <1>1, <1>3, <2>1 DEF TakeJob
<1>4. CASE ReadBatch(w)
  <2>1. base .. worker[w].cursor \in SUBSET Nat BY DEF Worker
  <2>2. [worker[w] EXCEPT !.step = "batch", !.bootstrap = TRUE,
                          !.batch = base .. worker[w].cursor] \in Worker
    BY <2>1 DEF Worker, Steps
  <2>3. ASSUME NEW last
        PROVE  [worker[w] EXCEPT !.step = "batch", !.bootstrap = FALSE,
                  !.batch = {m \in NextBatch(w) : m <= last}] \in Worker
    <3>1. {m \in NextBatch(w) : m <= last} \in SUBSET Nat BY DEF NextBatch, Messages
    <3> QED BY <3>1 DEF Worker, Steps
  <2>4. CASE Become(w, [worker[w] EXCEPT !.step = "batch", !.bootstrap = TRUE,
                                         !.batch = base .. worker[w].cursor])
    BY <1>1, <2>2, <2>4
  <2>5. ASSUME NEW last,
               Become(w, [worker[w] EXCEPT !.step = "batch", !.bootstrap = FALSE,
                            !.batch = {m \in NextBatch(w) : m <= last}])
        PROVE  Goal
    BY <1>1, <2>3, <2>5
  <2> QED BY <1>4, <2>4, <2>5 DEF ReadBatch
<1>5. CASE Advance(w)
  <2>1. worker[w] \in Worker /\ -1 \in Int /\ {} \in SUBSET Nat OBVIOUS
  <2>2. [worker[w] EXCEPT !.step = "saving", !.cursor = -1, !.summary = {}] \in Worker
    BY <2>1 DEF Worker, Steps
  <2> QED BY <1>1, <1>5, <2>2 DEF Advance
<1>6. CASE SaveVerbatim(w) \/ SaveFails(w)
  <2>1. [worker[w] EXCEPT !.step = "saved", !.batch = {}, !.bootstrap = FALSE] \in Worker
    BY DEF Worker, Steps
  <2> QED BY <1>1, <1>6, <2>1 DEF SaveVerbatim, SaveFails, Saved
<1>7. CASE Recheck(w)
  <2>1. Due(next, cursor) \in BOOLEAN BY DEF Due
  <2>2. (IF generation # worker[w].gen THEN "stale" ELSE "requeue") \in Steps BY DEF Steps
  <2>3. ASSUME NEW due \in BOOLEAN, NEW step \in Steps
        PROVE  [worker[w] EXCEPT !.due = due, !.step = step] \in Worker
    BY DEF Worker
  <2> QED BY <1>1, <1>7, <2>1, <2>2, <2>3 DEF Recheck
<1>8. CASE PurgeStale(w) \/ PurgeStaleFails(w)
  <2>1. [worker[w] EXCEPT !.step = "requeue"] \in Worker BY DEF Worker, Steps
  <2> QED BY <1>1, <1>8, <2>1 DEF PurgeStale, PurgeStaleFails
<1> QED BY <1>2, <1>3, <1>4, <1>5, <1>6, <1>7, <1>8
       DEF WorkerStep, WorkerFails, Refuse, Decline, SummarizerFails, LoseAdvance, Requeue, Crash

LEMMA TypeStep == IInv /\ [Next]_vars => TypeOK'
<1> SUFFICES ASSUME IInv, [Next]_vars PROVE TypeOK' OBVIOUS
<1> USE CompactionAssumption DEF IInv, TypeOK
<1>0. CASE UNCHANGED vars BY <1>0 DEF vars, thread, history
<1>1. CASE Send BY <1>1 DEF Send, history
<1>2. CASE ClearThread
  <2>1. cursor' \in Int /\ base' - 1 <= cursor' /\ cursor' < next'
    BY <1>2 DEF ClearThread, ClearedUpTo
  <2> QED BY <1>2, <2>1 DEF ClearThread, NewGeneration, Run, NoRun, history
<1>3. CASE PurgeCleared BY <1>3 DEF PurgeCleared, thread, history
<1>4. CASE PurgeClearedFails
  <2>1. purging' \in SUBSET Nat /\ leaked' \in SUBSET Nat BY <1>4 DEF PurgeClearedFails
  <2>2. faults' \in Nat BY <1>4 DEF PurgeClearedFails, Fault
  <2>3. UNCHANGED <<thread, job, worker, store, run, declined>>
    BY <1>4 DEF PurgeClearedFails
  <2> QED BY <2>1, <2>2, <2>3 DEF thread
<1>5. CASE StartRun
  <2>1. run' \in Run
    <3>1. NoRun \in Run BY DEF NoRun, Run
    <3> QED BY <1>5, <3>1 DEF StartRun, Run
  <2> QED BY <1>5, <2>1 DEF StartRun, thread, history
<1>6. CASE ReadThread BY <1>6 DEF ReadThread, Run, thread, history
<1>7. CASE ReadMessages
  <2>1. {m \in Messages : m >= next - LegacyWindowSize} \in SUBSET Nat BY DEF Messages
  <2> QED BY <1>7, <2>1 DEF ReadMessages, Run, thread, history
<1>8. CASE BuildContext BY <1>8 DEF BuildContext, Run, thread, history
<1>9. CASE CompleteRun BY <1>9 DEF CompleteRun, Due, Run, NoRun, thread, history
<1>10. CASE EnqueueFails BY <1>10 DEF EnqueueFails, Fault, Run, NoRun, thread
<1>11. ASSUME NEW w \in Workers, WorkerStep(w) \/ WorkerFails(w) PROVE TypeOK'
  <2>1. worker' \in [Workers -> Worker] BY <1>11, JobStep
  <2>2. CASE UNCHANGED <<thread, store, purging, run>> /\ job' \in BOOLEAN
             /\ declined' \in BOOLEAN /\ leaked' \in SUBSET Nat /\ faults' \in Nat
    BY <2>1, <2>2 DEF thread
  <2>3. CASE TakeJob(w) BY <2>2, <2>3 DEF TakeJob, history
  <2>4. CASE ReadBatch(w) BY <2>2, <2>4 DEF ReadBatch, history
  <2>5. CASE Refuse(w) BY <2>2, <2>5 DEF Refuse
  <2>6. CASE Decline(w) BY <2>2, <2>6 DEF Decline, Fault
  <2>7. CASE SummarizerFails(w) BY <2>2, <2>7 DEF SummarizerFails, Fault
  <2>8. CASE Advance(w)
    <3>1. cursor' \in Int /\ base - 1 <= cursor' /\ cursor' < next BY <2>8, Advances
    <3>2. summary' \in SUBSET Nat BY <2>8 DEF Advance, Worker
    <3>3. UNCHANGED <<base, next, generation, job, store, purging, run, history>>
      BY <2>8 DEF Advance
    <3> QED BY <2>1, <3>1, <3>2, <3>3 DEF history
  <2>9. CASE LoseAdvance(w) BY <2>2, <2>9 DEF LoseAdvance, history
  <2>10. CASE SaveVerbatim(w)
    <3>1. SavedAs(w) \in SUBSET (Nat \X Nat) BY DEF SavedAs, Worker
    <3>2. store' \in SUBSET (Nat \X Nat) BY <2>10, <3>1 DEF SaveVerbatim
    <3>3. UNCHANGED <<thread, job, purging, run, history>> BY <2>10 DEF SaveVerbatim
    <3> QED BY <2>1, <3>2, <3>3 DEF thread, history
  <2>11. CASE SaveFails(w) BY <2>2, <2>11 DEF SaveFails, Fault
  <2>12. CASE Recheck(w) BY <2>2, <2>12 DEF Recheck, history
  <2>13. CASE PurgeStale(w)
    <3>1. store' \in SUBSET (Nat \X Nat) BY <2>13 DEF PurgeStale
    <3>2. UNCHANGED <<thread, job, purging, run, history>> BY <2>13 DEF PurgeStale
    <3> QED BY <2>1, <3>1, <3>2 DEF thread, history
  <2>14. CASE PurgeStaleFails(w)
    <3>1. leaked' \in SUBSET Nat BY <2>14 DEF PurgeStaleFails, Worker
    <3> QED BY <2>2, <2>14, <3>1 DEF PurgeStaleFails, Fault
  <2>15. CASE Requeue(w)
    <3>1. job' \in BOOLEAN BY <2>15 DEF Requeue, Worker
    <3> QED BY <2>2, <2>15, <3>1 DEF Requeue, history
  <2>16. CASE Crash(w)
    <3>1. leaked' \in SUBSET Nat BY <2>16 DEF Crash, Worker
    <3> QED BY <2>2, <2>16, <3>1 DEF Crash, Fault
  <2> QED BY <1>11, <2>3, <2>4, <2>5, <2>6, <2>7, <2>8, <2>9, <2>10, <2>11, <2>12, <2>13,
             <2>14, <2>15, <2>16
         DEF WorkerStep, WorkerFails
<1> QED BY <1>0, <1>1, <1>2, <1>3, <1>4, <1>5, <1>6, <1>7, <1>8, <1>9, <1>10, <1>11
       DEF Next, RunStep

-----------------------------------------------------------------------------
\* The steps of a job that change no thread, and leave it idle or past the
\* compare-and-set.
Past(w) ==
  /\ UNCHANGED thread
  /\ worker'[w].step \notin {"thread", "batch", "saving"}
  /\ worker'[w].gen <= generation
  /\ \A v \in Workers \ {w} : worker'[v] = worker[v]

LEMMA PastSteps ==
  ASSUME IInv, NEW w \in Workers,
         \/ Refuse(w) \/ Decline(w) \/ SummarizerFails(w) \/ LoseAdvance(w) \/ SaveVerbatim(w)
         \/ SaveFails(w) \/ Recheck(w) \/ PurgeStale(w) \/ PurgeStaleFails(w) \/ Requeue(w)
         \/ Crash(w)
  PROVE  Past(w)
<1> USE DEF IInv, TypeOK, PastOnly, Worker, Past
<1>1. CASE Return(w) /\ UNCHANGED thread BY <1>1 DEF Return, Become, Idle, thread
<1>2. CASE SaveVerbatim(w) BY <1>2 DEF SaveVerbatim, Saved, Become
<1>3. CASE SaveFails(w) BY <1>3 DEF SaveFails, Saved, Become
<1>4. CASE Recheck(w) BY <1>4 DEF Recheck, Become
<1>5. CASE PurgeStale(w) BY <1>5 DEF PurgeStale, Become
<1>6. CASE PurgeStaleFails(w) BY <1>6 DEF PurgeStaleFails, Become
<1> QED BY <1>1, <1>2, <1>3, <1>4, <1>5, <1>6
       DEF Refuse, Decline, SummarizerFails, LoseAdvance, Requeue, Crash

\* Everything else leaves the jobs and the thread's row alone.
Elsewhere == UNCHANGED <<base, cursor, summary, generation, worker>> /\ next' >= next

LEMMA ElsewhereSteps ==
  ASSUME IInv, Send \/ PurgeCleared \/ PurgeClearedFails \/ RunStep \/ EnqueueFails
               \/ UNCHANGED vars
  PROVE  Elsewhere
<1> USE DEF IInv, TypeOK, Elsewhere, thread
<1>1. CASE Send BY <1>1 DEF Send
<1>2. CASE PurgeCleared \/ PurgeClearedFails BY <1>2 DEF PurgeCleared, PurgeClearedFails
<1>3. CASE RunStep
  <2>1. UNCHANGED <<thread, worker>>
    BY <1>3 DEF RunStep, StartRun, ReadThread, ReadMessages, BuildContext, CompleteRun
  <2> QED BY <2>1
<1>4. CASE EnqueueFails BY <1>4 DEF EnqueueFails
<1>5. CASE UNCHANGED vars BY <1>5 DEF vars
<1> QED BY <1>1, <1>2, <1>3, <1>4, <1>5

\* The memory only takes what a job saves.
LEMMA StoreSteps ==
  ASSUME IInv, [Next]_vars
  PROVE  store' \subseteq store \/ \E w \in Workers : SaveVerbatim(w)
<1>1. CASE PurgeCleared BY <1>1 DEF PurgeCleared
<1>2. ASSUME NEW w \in Workers, PurgeStale(w) PROVE store' \subseteq store
  BY <1>2 DEF PurgeStale
<1>3. CASE UNCHANGED store BY <1>3
<1> QED BY <1>1, <1>2, <1>3
       DEF Next, vars, Send, ClearThread, PurgeClearedFails, RunStep, StartRun, ReadThread,
           ReadMessages, BuildContext, CompleteRun, EnqueueFails, WorkerStep, WorkerFails, TakeJob,
           ReadBatch, Refuse, Decline, SummarizerFails, Advance, LoseAdvance, SaveFails, Recheck,
           PurgeStaleFails, Requeue, Crash

LEMMA PastOnlyStep == IInv /\ [Next]_vars => PastOnly'
<1> SUFFICES ASSUME IInv, [Next]_vars PROVE PastOnly' OBVIOUS
<1> USE DEF IInv, TypeOK, PastOnly, Worker
<1>1. generation' \in Nat /\ generation <= generation'
      /\ \A w \in Workers : worker'[w].gen <= generation'
  <2>1. ASSUME NEW w \in Workers, Past(w)
        PROVE  generation' = generation /\ \A v \in Workers : worker'[v].gen <= generation'
    BY <2>1 DEF Past, thread
  <2>2. ASSUME NEW w \in Workers, TakeJob(w)
        PROVE  generation' = generation /\ \A v \in Workers : worker'[v].gen <= generation'
    BY <2>2 DEF TakeJob, Become, Idle, thread
  <2>3. ASSUME NEW w \in Workers, ReadBatch(w)
        PROVE  generation' = generation /\ \A v \in Workers : worker'[v].gen <= generation'
    BY <2>3 DEF ReadBatch, Become, thread
  <2>4. ASSUME NEW w \in Workers, Advance(w)
        PROVE  generation' = generation /\ \A v \in Workers : worker'[v].gen <= generation'
    BY <2>4 DEF Advance, Become
  <2>5. CASE ClearThread BY <2>5 DEF ClearThread, NewGeneration
  <2>6. CASE Elsewhere BY <2>6 DEF Elsewhere
  <2> QED BY <2>1, <2>2, <2>3, <2>4, <2>5, <2>6, PastSteps, ElsewhereSteps
         DEF Next, WorkerStep, WorkerFails
<1>2. \A e \in store' : e[1] <= generation
  <2>1. ASSUME NEW w \in Workers, SaveVerbatim(w) PROVE \A e \in store' : e[1] <= generation
    BY <2>1 DEF SaveVerbatim, SavedAs
  <2> QED BY <2>1, StoreSteps
<1>3. store' \in SUBSET (Nat \X Nat) BY TypeStep
<1> QED BY <1>1, <1>2, <1>3

\* The thread's row changes in a clear and in a compare-and-set only.
LEMMA ThreadStep == IInv /\ [Next]_vars => Cleared' /\ SummaryIsFaithful'
<1> SUFFICES ASSUME IInv, [Next]_vars PROVE Cleared' /\ SummaryIsFaithful' OBVIOUS
<1> USE DEF IInv, TypeOK, Cleared, SummaryIsFaithful
<1>1. CASE ClearThread BY <1>1 DEF ClearThread, ClearedUpTo
<1>2. ASSUME NEW w \in Workers, Advance(w) PROVE Cleared' /\ SummaryIsFaithful'
  <2>1. cursor' \in Int /\ base <= cursor' /\ summary' = base .. cursor' BY <1>2, Advances
  <2>2. summary' # {} BY <2>1
  <2>3. UNCHANGED base BY <1>2 DEF Advance
  <2> QED BY <2>1, <2>2, <2>3
<1>3. ASSUME NEW w \in Workers, TakeJob(w) \/ ReadBatch(w) PROVE Cleared' /\ SummaryIsFaithful'
  BY <1>3 DEF TakeJob, ReadBatch, thread
<1>4. ASSUME NEW w \in Workers, Past(w) PROVE Cleared' /\ SummaryIsFaithful'
  BY <1>4 DEF Past, thread
<1>5. CASE Elsewhere BY <1>5 DEF Elsewhere
<1> QED BY <1>1, <1>2, <1>3, <1>4, <1>5, PastSteps, ElsewhereSteps
       DEF Next, WorkerStep, WorkerFails

\* A clear leaves no job of the generation it starts, a compare-and-set only
\* moves the cursor on.
LEMMA ReadStep == IInv /\ [Next]_vars => ReadEarlier' /\ BatchFollows'
<1> SUFFICES ASSUME IInv, [Next]_vars PROVE ReadEarlier' /\ BatchFollows' OBVIOUS
<1> USE DEF IInv, TypeOK, Worker, At, Summarizing
<1>1. CASE ClearThread
  <2>1. \A w \in Workers : worker'[w].gen # generation'
    BY <1>1 DEF ClearThread, NewGeneration, PastOnly
  <2> QED BY <2>1 DEF ReadEarlier, BatchFollows
<1>2. ASSUME NEW w \in Workers, Advance(w) PROVE ReadEarlier' /\ BatchFollows'
  <2>1. cursor' \in Int /\ cursor <= cursor' BY <1>2, Advances
  <2>2. UNCHANGED <<base, next, generation>> /\ worker'[w].step = "saving"
        /\ \A v \in Workers \ {w} : worker'[v] = worker[v]
    BY <1>2 DEF Advance, Become
  <2>3. ReadEarlier'
    <3> SUFFICES ASSUME NEW v \in Workers, Summarizing(v)', worker'[v].gen = generation'
                 PROVE  /\ base - 1 <= worker'[v].cursor /\ worker'[v].cursor <= cursor'
                        /\ worker'[v].summary # {} => worker'[v].summary = base .. worker'[v].cursor
                        /\ generation > 0 /\ worker'[v].summary = {} => worker'[v].cursor = base - 1
      BY <2>2 DEF ReadEarlier
    <3>1. v # w /\ worker'[v] = worker[v] BY <2>2
    <3> QED BY <2>1, <2>2, <3>1 DEF ReadEarlier
  <2>4. BatchFollows' BY <2>2 DEF BatchFollows
  <2> QED BY <2>3, <2>4
<1>3. ASSUME NEW w \in Workers, TakeJob(w) PROVE ReadEarlier' /\ BatchFollows'
  <2>1. UNCHANGED thread /\ worker'[w].step = "thread" /\ worker'[w].cursor = cursor
        /\ worker'[w].summary = summary /\ \A v \in Workers \ {w} : worker'[v] = worker[v]
    BY <1>3 DEF TakeJob, Become, Idle
  <2>2. ReadEarlier'
    <3> SUFFICES ASSUME NEW v \in Workers, Summarizing(v)', worker'[v].gen = generation'
                 PROVE  /\ base - 1 <= worker'[v].cursor /\ worker'[v].cursor <= cursor
                        /\ worker'[v].summary # {} => worker'[v].summary = base .. worker'[v].cursor
                        /\ generation > 0 /\ worker'[v].summary = {} => worker'[v].cursor = base - 1
      BY <2>1 DEF ReadEarlier, thread
    <3>1. CASE v = w BY <2>1, <3>1 DEF Cleared, SummaryIsFaithful
    <3>2. CASE v # w BY <2>1, <3>2 DEF ReadEarlier, thread
    <3> QED BY <3>1, <3>2
  <2>3. BatchFollows' BY <2>1 DEF BatchFollows, thread
  <2> QED BY <2>2, <2>3
<1>4. ASSUME NEW w \in Workers, ReadBatch(w) PROVE ReadEarlier' /\ BatchFollows'
  <2>1. UNCHANGED thread /\ At(w, "thread") /\ worker'[w].cursor = worker[w].cursor
        /\ worker'[w].gen = worker[w].gen /\ worker'[w].summary = worker[w].summary
        /\ \A v \in Workers \ {w} : worker'[v] = worker[v]
    BY ZenonT(60), <1>4 DEF ReadBatch, Become
  <2>2. ReadEarlier' BY SMTT(30), <2>1 DEF ReadEarlier, thread
  <2>3. ASSUME Bootstraps(w), Rebuildable(w), worker'[w].bootstrap,
               worker'[w].batch = base .. worker[w].cursor
        PROVE  BatchFollows'
    BY SMTT(30), <2>1, <2>3 DEF BatchFollows, Bootstraps, thread
  <2>4. ASSUME ~Bootstraps(w), Contiguous(w), ~worker'[w].bootstrap, NEW last \in NextBatch(w),
               worker'[w].batch = {m \in NextBatch(w) : m <= last}, worker[w].gen = generation
        PROVE  BatchFollows'
    <3> HIDE DEF Worker
    <3>1. base - 1 <= worker[w].cursor /\ last \in Int /\ worker[w].cursor < last
          /\ last < next /\ last <= worker[w].cursor + BatchSize
      BY <2>1, <2>4, CompactionAssumption DEF ReadEarlier, NextBatch, Messages, Worker
    <3>2. worker'[w].batch = worker[w].cursor + 1 .. last
      <4>1. \A m : m \in worker'[w].batch <=> m \in worker[w].cursor + 1 .. last
        <5>1. worker[w].cursor \in Int BY DEF Worker
        <5> QED BY <2>4, <3>1, <5>1, CompactionAssumption DEF NextBatch, Messages
      <4> QED BY <4>1
    <3>3. worker[w].summary = {} => worker[w].cursor = base - 1
      <4>1. CASE generation > 0 BY <2>1, <2>4, <4>1 DEF ReadEarlier
      <4>2. CASE generation = 0
        BY <2>1, <2>4, <4>2, <3>1 DEF Bootstraps, Worker
      <4> QED BY <4>1, <4>2
    <3>4. last \in worker[w].cursor + 1 .. next - 1 BY <2>1, <3>1 DEF Worker
    <3>5. UNCHANGED thread /\ worker'[w].cursor = worker[w].cursor
          /\ worker'[w].summary = worker[w].summary
          /\ \A v \in Workers \ {w} : worker'[v] = worker[v]
      BY <2>1
    <3> QED BY <2>4, <3>2, <3>3, <3>4, <3>5 DEF BatchFollows, thread
  <2>5. ASSUME worker[w].gen # generation PROVE BatchFollows'
    <3>1. UNCHANGED thread /\ worker'[w].gen # generation
          /\ \A v \in Workers \ {w} : worker'[v] = worker[v]
      BY <2>1, <2>5
    <3> QED BY <3>1 DEF BatchFollows, thread
  <2>6. CASE Bootstraps(w) /\ Rebuildable(w)
             /\ Become(w, [worker[w] EXCEPT !.step = "batch", !.bootstrap = TRUE,
                                            !.batch = base .. worker[w].cursor])
    <3>1. worker'[w].bootstrap /\ worker'[w].batch = base .. worker[w].cursor
      BY <2>6 DEF Become
    <3>2. Bootstraps(w) /\ Rebuildable(w) BY <2>6
    <3> QED BY <2>2, <2>3, <3>1, <3>2
  <2>7. ASSUME NEW last \in NextBatch(w), ~Bootstraps(w), Contiguous(w),
               Become(w, [worker[w] EXCEPT !.step = "batch", !.bootstrap = FALSE,
                            !.batch = {m \in NextBatch(w) : m <= last}])
        PROVE  BatchFollows'
    <3>1. ~worker'[w].bootstrap /\ worker'[w].batch = {m \in NextBatch(w) : m <= last}
      BY <2>7 DEF Become
    <3> QED BY <2>4, <2>5, <2>7, <3>1
  <2> QED BY <1>4, <2>2, <2>6, <2>7 DEF ReadBatch
<1>5. ASSUME NEW w \in Workers, Past(w) PROVE ReadEarlier' /\ BatchFollows'
  BY SMTT(30), <1>5 DEF Past, thread, ReadEarlier, BatchFollows
<1>6. CASE Elsewhere
  <2>1. \A l \in Int : next' - 1 >= l \/ l > next - 1 BY <1>6, TypeStep DEF Elsewhere
  <2> QED BY SMTT(30), <1>6, <2>1, TypeStep DEF Elsewhere, ReadEarlier, BatchFollows
<1> QED BY <1>1, <1>2, <1>3, <1>4, <1>5, <1>6, PastSteps, ElsewhereSteps
       DEF Next, WorkerStep, WorkerFails

-----------------------------------------------------------------------------
\* What a run has read of the thread is an earlier state of it, and the
\* messages it has read are a piece of the conversation.
RunRead ==
  /\ run.hasThread =>
       /\ base - 1 <= run.cursor /\ run.cursor <= cursor
       /\ run.summary # {} => run.summary = base .. run.cursor
  /\ run.hasMessages => \E lo \in Nat, hi \in Int : base <= lo /\ run.messages = lo .. hi
  /\ run.step = "working" => run.hasThread /\ run.hasMessages

LEMMA RunReadStep == IInv /\ RunRead /\ [Next]_vars => RunRead'
<1> SUFFICES ASSUME IInv, RunRead, [Next]_vars PROVE RunRead' OBVIOUS
<1> USE DEF IInv, TypeOK, RunRead
<1>1. CASE run' = NoRun BY <1>1 DEF NoRun
<1>2. ASSUME UNCHANGED <<base, run>>, cursor <= cursor', cursor' \in Int PROVE RunRead'
  <2>3. ASSUME run.hasThread PROVE run.cursor <= cursor' /\ run.cursor \in Int
    BY <1>2, <2>3 DEF Run
  <2> QED BY <1>2, <2>3
<1>3. CASE ReadThread
  <2>1. run' = [run EXCEPT !.hasThread = TRUE, !.cursor = cursor, !.summary = summary]
        /\ UNCHANGED thread /\ run.step = "reading"
    BY <1>3 DEF ReadThread
  <2>2. run'.cursor = cursor /\ run'.summary = summary /\ run'.step = "reading"
        /\ run'.hasMessages = run.hasMessages /\ run'.messages = run.messages
    BY <2>1 DEF Run
  <2> QED BY <2>1, <2>2 DEF thread, SummaryIsFaithful
<1>4. CASE ReadMessages
  <2>1. run' = [run EXCEPT !.hasMessages = TRUE,
                  !.messages = {m \in Messages : m >= next - LegacyWindowSize}]
        /\ UNCHANGED thread /\ run.step = "reading"
    BY <1>4 DEF ReadMessages
  <2>2. run'.cursor = run.cursor /\ run'.summary = run.summary /\ run'.step = "reading"
        /\ run'.hasThread = run.hasThread
        /\ run'.messages = {m \in Messages : m >= next - LegacyWindowSize}
    BY <2>1 DEF Run
  <2>3. \E lo \in Nat, hi \in Int : base <= lo /\ run'.messages = lo .. hi
    <3> DEFINE lo == IF base >= next - LegacyWindowSize THEN base ELSE next - LegacyWindowSize
    <3>1. lo \in Nat /\ base <= lo BY CompactionAssumption
    <3>2. next - 1 \in Int OBVIOUS
    <3>3. {m \in Messages : m >= next - LegacyWindowSize} = lo .. next - 1
      BY CompactionAssumption DEF Messages
    <3> QED BY <2>2, <3>1, <3>2, <3>3
  <2> QED BY <2>1, <2>2, <2>3 DEF thread
<1>5. CASE BuildContext
  <2>1. PICK recalled \in BOOLEAN : run' = [run EXCEPT !.step = "working", !.recalled = recalled]
    BY <1>5 DEF BuildContext
  <2>2. UNCHANGED thread /\ run.hasThread /\ run.hasMessages BY <1>5 DEF BuildContext
  <2>3. run'.cursor = run.cursor /\ run'.summary = run.summary /\ run'.messages = run.messages
        /\ run'.hasThread = run.hasThread /\ run'.hasMessages = run.hasMessages
    BY <2>1 DEF Run
  <2> QED BY <2>2, <2>3 DEF thread
<1>6. CASE StartRun
  <2>1. run' = [NoRun EXCEPT !.step = "reading"] BY <1>6 DEF StartRun
  <2>2. ~run'.hasThread /\ ~run'.hasMessages /\ run'.step = "reading" BY <2>1 DEF NoRun
  <2> QED BY <2>2
<1>7. CASE ClearThread BY <1>1, <1>7 DEF ClearThread
<1>8. CASE CompleteRun \/ EnqueueFails BY <1>1, <1>8 DEF CompleteRun, EnqueueFails
<1>9. ASSUME NEW w \in Workers, WorkerStep(w) \/ WorkerFails(w) PROVE RunRead'
  <2>1. UNCHANGED <<base, next, run>> /\ cursor <= cursor' /\ cursor' \in Int
    <3>1. CASE Advance(w) BY <3>1, Advances DEF Advance
    <3>2. CASE ~Advance(w)
      <4>1. UNCHANGED <<thread, run>>
        BY <1>9, <3>2 DEF WorkerStep, WorkerFails, TakeJob, ReadBatch, Refuse, Decline,
           SummarizerFails, LoseAdvance, SaveVerbatim, SaveFails, Recheck, PurgeStale,
           PurgeStaleFails, Requeue, Crash
      <4> QED BY <4>1 DEF thread
    <3> QED BY <3>1, <3>2
  <2> QED BY <1>2, <2>1
<1>10. CASE Send \/ PurgeCleared \/ PurgeClearedFails \/ UNCHANGED vars
  <2>1. UNCHANGED <<base, cursor, run>>
    BY <1>10 DEF Send, PurgeCleared, PurgeClearedFails, vars, thread
  <2>2. cursor \in Int /\ cursor <= cursor' /\ cursor' \in Int BY <2>1
  <2> QED BY <1>2, <2>1, <2>2
<1> QED BY <1>3, <1>4, <1>5, <1>6, <1>7, <1>8, <1>9, <1>10 DEF Next, RunStep

\* Summary and messages meet at the cursor.
LEMMA ReadIsWhole == TypeOK /\ RunRead => ContextIsWhole
<1> SUFFICES ASSUME TypeOK, RunRead, run.step = "working" PROVE ContextIsWhole
  BY DEF ContextIsWhole
<1> USE DEF TypeOK, Run
<1>1. base - 1 <= run.cursor /\ (run.summary # {} => run.summary = base .. run.cursor)
  BY DEF RunRead
<1>2. PICK lo \in Nat, hi \in Int : base <= lo /\ run.messages = lo .. hi
  BY DEF RunRead
<1>3. CASE UsesSummary(run)
  <2>1. run.summary = base .. run.cursor /\ Shown(run) = {m \in lo .. hi : m > run.cursor}
    BY <1>1, <1>2, <1>3 DEF UsesSummary, Shown, Uncompacted
  <2>2. run.summary \cap Shown(run) = {} BY <2>1
  <2>3. ASSUME NEW m \in run.messages \cup {run.cursor}, NEW n \in base .. m
        PROVE  n \in run.summary \cup Shown(run)
    <3>1. CASE n <= run.cursor BY <2>1, <2>3, <3>1
    <3>2. CASE n > run.cursor
      <4>1. m \in lo .. hi /\ m > run.cursor BY <1>2, <2>3, <3>2
      <4>2. run.cursor + 1 \in lo .. hi BY <1>2, <1>3, <4>1 DEF UsesSummary, Uncompacted
      <4>3. n \in lo .. hi BY <2>3, <3>2, <4>1, <4>2
      <4> QED BY <2>1, <3>2, <4>3
    <3> QED BY <2>3, <3>1, <3>2
  <2> QED BY <1>3, <2>2, <2>3 DEF ContextIsWhole
<1>4. CASE ~UsesSummary(run) BY <1>4 DEF ContextIsWhole, Shown
<1> QED BY <1>3, <1>4

-----------------------------------------------------------------------------
\* What is saved, or about to be, of this conversation lies between its
\* first message and the cursor, and jobs that still believe that there is
\* no summary are behind everything that was batched after the cursor.
Apart ==
  /\ \A w \in Workers : At(w, "saving") /\ worker[w].gen = generation =>
       summary # {} /\ worker[w].batch \subseteq base .. cursor
  /\ \A e \in store : e[1] = generation => e[2] \in base .. cursor
  /\ \A v, w \in Workers :
       /\ Summarizing(v) /\ worker[v].gen = generation /\ worker[v].summary = {}
       /\ At(w, "saving") /\ worker[w].gen = generation /\ ~worker[w].bootstrap
       => \A m \in worker[w].batch : worker[v].cursor < m

SInv == IInv /\ Apart /\ SavedOnce

\* Steps after which nothing more is saved or about to be saved than before.
LEMMA QuietStep ==
  ASSUME SInv, UNCHANGED <<base, generation>>, cursor <= cursor', cursor' \in Int,
         summary' = summary, store' \subseteq store,
         \A w \in Workers : worker'[w].step = "saving" => worker'[w] = worker[w],
         \A w \in Workers : worker'[w].step \in {"thread", "batch"} =>
           \/ /\ worker'[w].cursor = worker[w].cursor /\ worker'[w].summary = worker[w].summary
              /\ worker'[w].gen = worker[w].gen /\ worker[w].step \in {"thread", "batch"}
           \/ worker'[w].summary = summary
  PROVE  Apart' /\ SavedOnce'
<1> USE DEF SInv, IInv, TypeOK, Apart, Worker, At, Summarizing
<1>1. \A w \in Workers : worker'[w].step = "saving" /\ worker'[w].gen = generation' =>
        summary' # {} /\ worker'[w].batch \subseteq base' .. cursor'
  <2> SUFFICES ASSUME NEW w \in Workers, worker'[w].step = "saving", worker'[w].gen = generation'
               PROVE  summary' # {} /\ worker'[w].batch \subseteq base' .. cursor'
    OBVIOUS
  <2>1. summary # {} /\ worker[w].batch \subseteq base .. cursor OBVIOUS
  <2> QED BY <2>1
<1>2. \A e \in store' : e[1] = generation' => e[2] \in base' .. cursor'
  <2> SUFFICES ASSUME NEW e \in store', e[1] = generation' PROVE e[2] \in base' .. cursor'
    OBVIOUS
  <2>1. e[2] \in base .. cursor OBVIOUS
  <2> QED BY <2>1
<1>3. ASSUME NEW v \in Workers, NEW w \in Workers,
             worker'[v].step \in {"thread", "batch"}, worker'[v].gen = generation',
             worker'[v].summary = {},
             worker'[w].step = "saving", worker'[w].gen = generation', ~worker'[w].bootstrap
      PROVE  \A m \in worker'[w].batch : worker'[v].cursor < m
  <2>1. worker'[w] = worker[w] /\ summary # {} BY <1>3
  <2>2. worker'[v].cursor = worker[v].cursor /\ worker[v].summary = {}
        /\ worker[v].gen = generation /\ worker[v].step \in {"thread", "batch"}
    BY <1>3, <2>1
  <2> QED BY <1>3, <2>1, <2>2
<1>4. SavedOnce'
  <2> SUFFICES ASSUME NEW w \in Workers, worker'[w].step = "saving", ~worker'[w].bootstrap
               PROVE  /\ SavedAs(w)' \cap store' = {}
                      /\ \A v \in Workers \ {w} : worker'[v].step = "saving" =>
                           SavedAs(w)' \cap SavedAs(v)' = {}
    BY DEF SavedOnce
  <2>1. \A v \in Workers : worker'[v].step = "saving" => SavedAs(v)' = SavedAs(v)
    BY DEF SavedAs
  <2> QED BY <2>1 DEF SavedOnce
<1> QED BY <1>1, <1>2, <1>3, <1>4

LEMMA ApartStep == SInv /\ [Next]_vars => Apart' /\ SavedOnce'
<1> SUFFICES ASSUME SInv, [Next]_vars PROVE Apart' /\ SavedOnce' OBVIOUS
<1> USE DEF SInv
<1>1. CASE ClearThread
  <2> USE DEF IInv, TypeOK, Worker, At
  <2>1. UNCHANGED <<worker, store>> /\ generation' = generation + 1
    BY <1>1 DEF ClearThread, NewGeneration
  <2>2. \A w \in Workers : worker[w].gen # generation' BY <2>1 DEF PastOnly
  <2>3. \A e \in store : e[1] # generation' BY <2>1 DEF PastOnly
  <2>4. SavedOnce' BY <2>1 DEF SavedOnce, SavedAs
  <2> QED BY <2>1, <2>2, <2>3, <2>4 DEF Apart
<1>2. ASSUME NEW w \in Workers, Advance(w) PROVE Apart' /\ SavedOnce'
  <2> USE DEF IInv, TypeOK, Worker, At, Summarizing
  <2>1. cursor' \in Int /\ cursor <= cursor' /\ base <= cursor' /\ summary' = base .. cursor'
        /\ worker[w].gen = generation /\ worker[w].batch \subseteq base .. cursor'
        /\ (~worker[w].bootstrap => \A m \in worker[w].batch : cursor < m)
        /\ (worker[w].bootstrap => worker[w].summary = {} /\ worker[w].batch = base .. cursor)
        /\ worker[w].cursor = cursor
    BY <1>2, Advances
  <2>2. /\ UNCHANGED <<base, generation, store>> /\ worker[w].step = "batch"
        /\ worker'[w].step = "saving" /\ worker'[w].gen = worker[w].gen
        /\ worker'[w].batch = worker[w].batch /\ worker'[w].bootstrap = worker[w].bootstrap
        /\ \A v \in Workers \ {w} : worker'[v] = worker[v]
    BY <1>2 DEF Advance, Become
  <2>3. summary' # {} BY <2>1
  <2>4. \A v \in Workers : worker'[v].step = "saving" /\ worker'[v].gen = generation' =>
          summary' # {} /\ worker'[v].batch \subseteq base' .. cursor'
    <3> SUFFICES ASSUME NEW v \in Workers, worker'[v].step = "saving", worker'[v].gen = generation'
                 PROVE  worker'[v].batch \subseteq base .. cursor'
      BY <2>2, <2>3
    <3>1. CASE v = w BY <2>1, <2>2, <3>1
    <3>2. CASE v # w
      <4>1. worker[v].batch \subseteq base .. cursor BY <2>2, <3>2 DEF Apart
      <4> QED BY <2>1, <2>2, <3>2, <4>1
    <3> QED BY <3>1, <3>2
  <2>5. \A e \in store' : e[1] = generation' => e[2] \in base' .. cursor'
    <3> SUFFICES ASSUME NEW e \in store, e[1] = generation PROVE e[2] \in base .. cursor'
      BY <2>2
    <3>1. e[2] \in base .. cursor BY DEF Apart
    <3> QED BY <2>1, <3>1
  <2>6. ASSUME NEW v \in Workers, NEW u \in Workers,
               worker'[v].step \in {"thread", "batch"}, worker'[v].gen = generation',
               worker'[v].summary = {},
               worker'[u].step = "saving", worker'[u].gen = generation', ~worker'[u].bootstrap,
               NEW m \in worker'[u].batch
        PROVE  worker'[v].cursor < m
    <3>1. v # w /\ worker'[v] = worker[v] BY <2>2, <2>6
    <3>2. CASE u = w
      <4>1. worker[v].cursor <= cursor BY <2>2, <2>6, <3>1 DEF ReadEarlier
      <4>2. cursor < m /\ m \in Nat BY <2>1, <2>2, <2>6, <3>2
      <4> QED BY <3>1, <4>1, <4>2
    <3>3. CASE u # w BY <2>2, <2>6, <3>1, <3>3 DEF Apart
    <3> QED BY <3>2, <3>3
  <2>7. SavedAs(w)' = {generation} \X worker[w].batch
        /\ \A v \in Workers \ {w} : SavedAs(v)' = {worker[v].gen} \X worker[v].batch
    BY <2>1, <2>2 DEF SavedAs
  <2>8. ASSUME ~worker[w].bootstrap PROVE SavedAs(w)' \cap store = {}
    <3> SUFFICES ASSUME NEW e \in store, e \in {generation} \X worker[w].batch PROVE FALSE
      BY <2>7
    <3>1. e[1] = generation /\ e[2] \in worker[w].batch OBVIOUS
    <3>2. e[2] \in base .. cursor BY <3>1 DEF Apart
    <3> QED BY <2>1, <2>8, <3>1, <3>2
  <2>9. ASSUME NEW v \in Workers \ {w}, worker[v].step = "saving",
               ~worker[w].bootstrap \/ ~worker[v].bootstrap
        PROVE  SavedAs(w)' \cap SavedAs(v)' = {}
    <3> SUFFICES ASSUME NEW m \in worker[w].batch, m \in worker[v].batch,
                        worker[v].gen = generation
                 PROVE  FALSE
      BY <2>7
    <3>1. m \in base .. cursor BY <2>9 DEF Apart
    <3>2. worker[w].bootstrap BY <2>1, <3>1
    <3>3. worker[w].cursor < m BY <2>1, <2>2, <2>9, <3>2 DEF Apart
    <3> QED BY <2>1, <3>1, <3>3
  <2>10. SavedOnce'
    <3> SUFFICES ASSUME NEW v \in Workers, worker'[v].step = "saving", ~worker'[v].bootstrap
                 PROVE  /\ SavedAs(v)' \cap store = {}
                        /\ \A u \in Workers \ {v} : worker'[u].step = "saving" =>
                             SavedAs(v)' \cap SavedAs(u)' = {}
      BY <2>2 DEF SavedOnce
    <3>1. CASE v = w BY <2>2, <2>8, <2>9, <3>1
    <3>2. CASE v # w
      <4>1. SavedAs(v) \cap store = {} /\ SavedAs(v)' = SavedAs(v)
        BY <2>2, <2>7, <3>2 DEF SavedOnce, SavedAs
      <4>2. ASSUME NEW u \in Workers \ {v, w}, worker'[u].step = "saving"
            PROVE  SavedAs(v)' \cap SavedAs(u)' = {}
        <5>1. SavedAs(u)' = SavedAs(u) BY <2>2 DEF SavedAs
        <5> QED BY <2>2, <3>2, <4>1, <4>2, <5>1 DEF SavedOnce
      <4>3. SavedAs(v)' \cap SavedAs(w)' = {} BY <2>2, <2>9, <3>2
      <4> QED BY <4>1, <4>2, <4>3
    <3> QED BY <3>1, <3>2
  <2> QED BY <2>4, <2>5, <2>6, <2>10 DEF Apart
<1>3. ASSUME NEW w \in Workers, SaveVerbatim(w) PROVE Apart' /\ SavedOnce'
  <2> USE DEF IInv, TypeOK, Worker, At, Summarizing
  <2>1. /\ UNCHANGED thread /\ store' = store \cup SavedAs(w) /\ worker[w].step = "saving"
        /\ worker'[w].step = "saved" /\ \A v \in Workers \ {w} : worker'[v] = worker[v]
    BY <1>3 DEF SaveVerbatim, Saved, Become
  <2>2. \A e \in store' : e[1] = generation => e[2] \in base .. cursor
    <3>1. ASSUME NEW e \in SavedAs(w), e[1] = generation PROVE e[2] \in base .. cursor
      BY <2>1, <3>1 DEF SavedAs, Apart
    <3> QED BY <2>1, <3>1 DEF Apart
  <2>3. \A v \in Workers \ {w} : SavedAs(v)' = SavedAs(v) BY <2>1 DEF SavedAs
  <2>4. SavedOnce'
    <3> SUFFICES ASSUME NEW v \in Workers \ {w}, worker[v].step = "saving", ~worker[v].bootstrap
                 PROVE  /\ SavedAs(v) \cap store' = {}
                        /\ \A u \in Workers \ {v} : worker'[u].step = "saving" =>
                             SavedAs(v) \cap SavedAs(u)' = {}
      BY <2>1, <2>3 DEF SavedOnce
    <3>1. SavedAs(v) \cap SavedAs(w) = {} /\ SavedAs(v) \cap store = {} BY <2>1 DEF SavedOnce
    <3> QED BY <2>1, <2>3, <3>1 DEF SavedOnce
  <2> QED BY <2>1, <2>2, <2>4 DEF Apart, thread
<1>4. ASSUME NEW w \in Workers,
             \/ Refuse(w) \/ Decline(w) \/ SummarizerFails(w) \/ LoseAdvance(w) \/ SaveFails(w)
             \/ Recheck(w) \/ PurgeStale(w) \/ PurgeStaleFails(w) \/ Requeue(w) \/ Crash(w)
      PROVE  Apart' /\ SavedOnce'
  <2>1. Past(w) BY <1>4, PastSteps
  <2>2. store' \subseteq store
    BY <1>4 DEF Refuse, Decline, SummarizerFails, LoseAdvance, SaveFails, Recheck, PurgeStale,
                PurgeStaleFails, Requeue, Crash
  <2> QED BY <2>1, <2>2, QuietStep DEF Past, thread, IInv, TypeOK
<1>5. ASSUME NEW w \in Workers, TakeJob(w) PROVE Apart' /\ SavedOnce'
  <2>1. UNCHANGED <<thread, store>> /\ worker'[w].step = "thread" /\ worker'[w].summary = summary
        /\ \A v \in Workers \ {w} : worker'[v] = worker[v]
    BY <1>5 DEF TakeJob, Become, Idle, IInv, TypeOK
  <2> QED BY <2>1, QuietStep DEF thread, IInv, TypeOK
<1>6. ASSUME NEW w \in Workers, ReadBatch(w) PROVE Apart' /\ SavedOnce'
  <2>1. UNCHANGED <<thread, store>> /\ worker[w].step = "thread" BY <1>6 DEF ReadBatch, At
  <2>2. /\ worker'[w].step = "batch" /\ worker'[w].gen = worker[w].gen
        /\ worker'[w].cursor = worker[w].cursor /\ worker'[w].summary = worker[w].summary
        /\ \A v \in Workers \ {w} : worker'[v] = worker[v]
    <3> USE DEF IInv, TypeOK, Worker
    <3>1. CASE Become(w, [worker[w] EXCEPT !.step = "batch", !.bootstrap = TRUE,
                                           !.batch = base .. worker[w].cursor])
      BY <3>1 DEF Become
    <3>2. ASSUME NEW last \in NextBatch(w),
                 Become(w, [worker[w] EXCEPT !.step = "batch", !.bootstrap = FALSE,
                              !.batch = {m \in NextBatch(w) : m <= last}])
          PROVE  /\ worker'[w].step = "batch" /\ worker'[w].gen = worker[w].gen
                 /\ worker'[w].cursor = worker[w].cursor
                 /\ worker'[w].summary = worker[w].summary
                 /\ \A v \in Workers \ {w} : worker'[v] = worker[v]
      BY <3>2 DEF Become
    <3> QED BY <1>6, <3>1, <3>2 DEF ReadBatch
  <2> QED BY <2>1, <2>2, QuietStep DEF thread, IInv, TypeOK
<1>7. CASE Send \/ PurgeCleared \/ PurgeClearedFails \/ RunStep \/ EnqueueFails \/ UNCHANGED vars
  <2>1. Elsewhere BY <1>7, ElsewhereSteps
  <2>2. store' \subseteq store
    BY <1>7 DEF Send, PurgeCleared, PurgeClearedFails, RunStep, StartRun, ReadThread,
                ReadMessages, BuildContext, CompleteRun, EnqueueFails, vars
  <2> QED BY <2>1, <2>2, QuietStep DEF Elsewhere, IInv, TypeOK
<1> QED BY <1>1, <1>2, <1>3, <1>4, <1>5, <1>6, <1>7 DEF Next, WorkerStep, WorkerFails

-----------------------------------------------------------------------------
\* A late save is followed by a look at the generation, and a clear by the
\* purge of the one it ended.
LEMMA PurgedStep == IInv /\ ClearedIsPurged /\ [Next]_vars => ClearedIsPurged'
<1> SUFFICES ASSUME IInv, ClearedIsPurged, [Next]_vars PROVE ClearedIsPurged' OBVIOUS
<1> DEFINE Watched(e) == \E v \in Workers : worker[v].gen = e[1] /\ worker[v].step \in {"saved", "stale"}
<1> USE DEF IInv, TypeOK, ClearedIsPurged
<1>1. ASSUME UNCHANGED generation, store' \subseteq store,
             purging \subseteq purging', leaked \subseteq leaked',
             \A v \in Workers : worker[v].step \in {"saved", "stale"} =>
               \/ worker'[v].gen = worker[v].gen /\ worker'[v].step \in {"saved", "stale"}
               \/ worker[v].gen \in leaked' \/ worker[v].gen = generation
               \/ \A e \in store' : e[1] # worker[v].gen
      PROVE  ClearedIsPurged'
  BY <1>1
<1>2. CASE ClearThread
  <2>1. generation' = generation + 1 /\ purging' = purging \cup {generation}
        /\ UNCHANGED <<worker, store, leaked>>
    BY <1>2 DEF ClearThread, NewGeneration, history
  <2>2. \A e \in store : e[1] < generation' => e[1] < generation \/ e[1] = generation BY <2>1
  <2> QED BY <2>1, <2>2
<1>3. CASE PurgeCleared
  <2>1. PICK g \in purging : /\ store' = {e \in store : e[1] \notin {g - 1, g}}
                             /\ purging' = purging \ {g}
    BY <1>3 DEF PurgeCleared
  <2>2. UNCHANGED <<generation, worker, leaked>> BY <1>3 DEF PurgeCleared, thread, history
  <2> QED BY <2>1, <2>2
<1>4. CASE PurgeClearedFails
  <2>1. PICK g \in purging : purging' = purging \ {g} /\ leaked' = leaked \cup {g}
    BY <1>4 DEF PurgeClearedFails
  <2>2. UNCHANGED <<generation, worker, store>> BY <1>4 DEF PurgeClearedFails, thread
  <2> QED BY <2>1, <2>2
<1>5. ASSUME NEW w \in Workers, SaveVerbatim(w) PROVE ClearedIsPurged'
  <2>1. store' = store \cup SavedAs(w) /\ UNCHANGED <<generation, purging, leaked>>
        /\ At(w, "saving")
    BY <1>5 DEF SaveVerbatim, thread, history
  <2>2. worker'[w].step = "saved" /\ worker'[w].gen = worker[w].gen
        /\ \A v \in Workers \ {w} : worker'[v] = worker[v]
    BY <1>5 DEF SaveVerbatim, Saved, Become, Worker
  <2>3. \A e \in SavedAs(w) : e[1] = worker[w].gen BY DEF SavedAs
  <2>4. \A v \in Workers : worker[v].step \in {"saved", "stale"} => v # w BY <2>1 DEF At
  <2> QED BY <2>1, <2>2, <2>3, <2>4
<1>6. ASSUME NEW w \in Workers, Recheck(w) PROVE ClearedIsPurged'
  <2>1. UNCHANGED <<generation, store, purging, leaked>> BY <1>6 DEF Recheck, thread, history
  <2>2. worker'[w].gen = worker[w].gen /\ (worker[w].gen # generation => worker'[w].step = "stale")
        /\ \A v \in Workers \ {w} : worker'[v] = worker[v]
    BY <1>6 DEF Recheck, Become, Worker
  <2> QED BY <1>1, <2>1, <2>2
<1>7. ASSUME NEW w \in Workers, PurgeStale(w) PROVE ClearedIsPurged'
  <2>1. UNCHANGED <<generation, purging, leaked>> /\ store' = {e \in store : e[1] # worker[w].gen}
    BY <1>7 DEF PurgeStale, thread, history
  <2>2. \A v \in Workers \ {w} : worker'[v] = worker[v] BY <1>7 DEF PurgeStale, Become
  <2> QED BY <1>1, <2>1, <2>2
<1>8. ASSUME NEW w \in Workers, PurgeStaleFails(w) PROVE ClearedIsPurged'
  <2>1. UNCHANGED <<generation, store, purging>> /\ leaked' = leaked \cup {worker[w].gen}
    BY <1>8 DEF PurgeStaleFails, thread
  <2>2. \A v \in Workers \ {w} : worker'[v] = worker[v] BY <1>8 DEF PurgeStaleFails, Become
  <2> QED BY <1>1, <2>1, <2>2
<1>9. ASSUME NEW w \in Workers, Crash(w) PROVE ClearedIsPurged'
  <2>1. UNCHANGED <<generation, store, purging>> /\ leaked \subseteq leaked'
        /\ (worker[w].step \in {"saved", "stale"} => worker[w].gen \in leaked')
    BY <1>9 DEF Crash, thread
  <2>2. \A v \in Workers \ {w} : worker'[v] = worker[v] BY <1>9 DEF Crash, Return, Become
  <2> QED BY <1>1, <2>1, <2>2
<1>10. ASSUME NEW w \in Workers,
              \/ TakeJob(w) \/ ReadBatch(w) \/ Refuse(w) \/ Decline(w) \/ SummarizerFails(w)
              \/ Advance(w) \/ LoseAdvance(w) \/ SaveFails(w) \/ Requeue(w)
       PROVE  ClearedIsPurged'
  <2>1. UNCHANGED <<generation, store, purging, leaked>>
    BY <1>10 DEF TakeJob, ReadBatch, Refuse, Decline, SummarizerFails, Advance, LoseAdvance,
                 SaveFails, Requeue, thread, history
  <2>2. worker[w].step \notin {"saved", "stale"}
    BY <1>10 DEF TakeJob, ReadBatch, Refuse, Decline, SummarizerFails, Advance, LoseAdvance,
                 SaveFails, Requeue, At
  <2>3. \A v \in Workers \ {w} : worker'[v] = worker[v]
    BY <1>10, JobStep DEF WorkerStep, WorkerFails
  <2> QED BY <1>1, <2>1, <2>2, <2>3
<1>11. CASE Send \/ RunStep \/ EnqueueFails \/ UNCHANGED vars
  <2>1. UNCHANGED <<generation, store, purging, leaked, worker>>
    BY <1>11 DEF Send, RunStep, StartRun, ReadThread, ReadMessages, BuildContext, CompleteRun,
                 EnqueueFails, vars, thread, history
  <2> QED BY <1>1, <2>1
<1> QED BY <1>2, <1>3, <1>4, <1>5, <1>6, <1>7, <1>8, <1>9, <1>10, <1>11
       DEF Next, WorkerStep, WorkerFails

-----------------------------------------------------------------------------
\* The invariant of the thread's row and the jobs, and those built on it.
LEMMA Inductive == Spec => []IInv
<1>1. Init => IInv BY InitInvariant
<1>2. IInv /\ [Next]_vars => IInv'
  BY TypeStep, PastOnlyStep, ThreadStep, ReadStep DEF IInv
<1> QED BY <1>1, <1>2, PTL DEF Spec

\* The types of the state, whatever the sizes.
THEOREM CompactionTypeCorrect == Spec => []TypeOK
<1>1. IInv => TypeOK BY DEF IInv
<1> QED BY <1>1, Inductive, PTL

\* compactHistory: the summary never skips a message, repeats one or keeps
\* one that was cleared.
THEOREM SummariesAreFaithful == Spec => []SummaryIsFaithful
<1>1. IInv => SummaryIsFaithful BY DEF IInv
<1> QED BY <1>1, Inductive, PTL

\* selectCompactedHistory: what a run works with has no hole.
THEOREM ContextsAreWhole == Spec => []ContextIsWhole
<1>1. Init => RunRead BY DEF Init, NoRun, RunRead
<1>2. IInv /\ RunRead /\ [Next]_vars => RunRead' BY RunReadStep
<1>3. IInv /\ RunRead => ContextIsWhole BY ReadIsWhole DEF IInv
<1> QED BY <1>1, <1>2, <1>3, Inductive, PTL DEF Spec

\* The external memory: no message is saved twice, and what is saved under
\* the current generation belongs to the current conversation.
LEMMA SavedInductive == Spec => []SInv
<1>1. Init => Apart /\ SavedOnce BY DEF Init, Apart, SavedOnce, Idle, At, Summarizing
<1>2. IInv /\ Apart /\ SavedOnce /\ [Next]_vars => Apart' /\ SavedOnce'
  BY ApartStep DEF SInv
<1>3. IInv /\ Apart /\ SavedOnce => SInv BY DEF SInv
<1> QED BY <1>1, <1>2, <1>3, Inductive, PTL DEF Spec

THEOREM NothingIsSavedTwice == Spec => []SavedOnce
<1>1. SInv => SavedOnce BY DEF SInv
<1> QED BY <1>1, SavedInductive, PTL

\* Recall in a cleared thread finds nothing of before the clear.
THEOREM RecallStaysCurrent == Spec => []RecallIsCurrent
<1>1. SInv => RecallIsCurrent
  BY DEF SInv, Apart, RecallIsCurrent, IInv, TypeOK
<1> QED BY <1>1, SavedInductive, PTL

\* The purge after a clear and the one after a late save cover each other.
THEOREM ClearedHistoryIsPurged == Spec => []ClearedIsPurged
<1>1. Init => ClearedIsPurged BY DEF Init, ClearedIsPurged
<1>2. IInv /\ ClearedIsPurged /\ [Next]_vars => ClearedIsPurged' BY PurgedStep
<1> QED BY <1>1, <1>2, Inductive, PTL DEF Spec

\* A step of the thread, the jobs and the runs is a step of the contract, or
\* changes nothing it is about.
LEMMA MemoryStep == IInv /\ IInv' /\ [Next]_vars => [Memory!Next]_<<base, next, summary>>
<1> SUFFICES ASSUME IInv, [Next]_vars PROVE [Memory!Next]_<<base, next, summary>> OBVIOUS
<1>1. CASE Send BY <1>1 DEF Send, Memory!Next, Memory!Say
<1>2. CASE ClearThread BY <1>2 DEF ClearThread, Memory!Next, Memory!Forget
<1>3. ASSUME NEW w \in Workers, Advance(w) PROVE Memory!Digest
  <2>1. /\ cursor' \in Int /\ cursor <= cursor' /\ base <= cursor' /\ cursor' < next
        /\ summary' = base .. cursor'
    BY <1>3, Advances
  <2>2. summary \subseteq summary' BY <2>1 DEF IInv, TypeOK, SummaryIsFaithful
  <2>3. cursor' \in base .. next - 1 BY <2>1 DEF IInv, TypeOK
  <2>4. UNCHANGED <<base, next>> BY <1>3 DEF Advance
  <2> QED BY <2>1, <2>2, <2>3, <2>4 DEF Memory!Digest
<1>4. CASE UNCHANGED <<base, next, summary>> BY <1>4
<1>5. ASSUME NEW w \in Workers, WorkerStep(w) \/ WorkerFails(w), ~Advance(w)
      PROVE  UNCHANGED thread
  BY <1>5 DEF WorkerStep, WorkerFails, TakeJob, ReadBatch, Refuse, Decline, SummarizerFails,
     LoseAdvance, SaveVerbatim, SaveFails, Recheck, PurgeStale, PurgeStaleFails, Requeue, Crash
<1>6. CASE PurgeCleared \/ PurgeClearedFails \/ RunStep \/ EnqueueFails \/ UNCHANGED vars
  BY <1>4, <1>6 DEF PurgeCleared, PurgeClearedFails, RunStep, StartRun, ReadThread, ReadMessages,
     BuildContext, CompleteRun, EnqueueFails, vars, thread
<1> QED BY <1>1, <1>2, <1>3, <1>4, <1>5, <1>6 DEF Next, Memory!Next, thread

\* compactHistory implements the contract of the memory.
THEOREM MemoryIsKept == Spec => ImplementsMemory
<1>1. Init => Memory!Init
  <2> SUFFICES ASSUME Init PROVE Memory!Init OBVIOUS
  <2>1. TypeOK BY InitInvariant DEF IInv
  <2> QED BY <2>1 DEF Init, TypeOK, Memory!Init
<1>2. IInv /\ IInv' /\ [Next]_vars => [Memory!Next]_<<base, next, summary>> BY MemoryStep
<1> QED BY <1>1, <1>2, Inductive, PTL DEF Spec, ImplementsMemory, Memory!Spec
=============================================================================
