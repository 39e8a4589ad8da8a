--------------------------- MODULE EvaluationEngine ---------------------------
(***************************************************************************)
(* EvaluationExecutionEngine: a queue in memory, a counter of running jobs *)
(* and one execution per job, over evaluation_jobs rows whose status is    *)
(* guarded by a trigger and a check of migration 006.  A write the engine  *)
(* sends reaches the row in a step of its own.  A write that is refused    *)
(* outside every try block is an unhandled rejection, and Node ends the    *)
(* process; the queue is not rebuilt at the next start.                    *)
(***************************************************************************)
EXTENDS Integers, Sequences, SequencesExt, FiniteSets

CONSTANTS
  Jobs,           \* identities of evaluation_jobs rows
  Cancellable,    \* the jobs a user may try to cancel, once each
  Priority,       \* Priority[j] : 0 urgent, 1 high, 2 normal, 3 low
  MaxConcurrent,  \* maxConcurrentJobs
  Tests,          \* number of test types of the suite
  OrderedWrites   \* the writes of one tick reach the database in their order

Normal == 2

ASSUME EngineAssumption ==
  /\ IsFiniteSet(Jobs)
  /\ Cancellable \subseteq Jobs
  /\ Priority \in [Jobs -> 0..3]
  /\ MaxConcurrent \in Nat \ {0}
  /\ Tests \in Nat \ {0}
  /\ OrderedWrites \in BOOLEAN

VARIABLES
  row,          \* row[j]      : evaluation_jobs.status, "absent" when no row
  pc,           \* pc[j]       : where createEvaluationJob or executeJob of j is
  testsLeft,    \* testsLeft[j]: tests to come, the running one included
  queue,        \* queue       : this.jobQueue
  controllers,  \* controllers : keys of this.runningJobs
  counter,      \* counter     : this.currentRunningJobs
  aborted,      \* aborted     : jobs whose AbortSignal has fired
  queuing,      \* queuing     : jobs whose QUEUED write is on its way
  cancelling,   \* cancelling  : jobs whose CANCELLED write is on its way
  cancels,      \* cancels     : jobs a user has tried to cancel
  sorts         \* sorts       : what each sortJobQueue on its way has asked for

engineVars == <<controllers, counter, aborted>>
vars == <<row, pc, testsLeft, queue, engineVars, queuing, cancelling, cancels, sorts>>

Status == {"pending", "queued", "running", "completed", "failed", "cancelled"}
PC == {"none", "inserted", "queued", "dequeued", "start", "test", "complete",
       "record", "fail", "finish", "ended", "lost"}
(* between the start of executeJob and the end of its finally block *)
Executing == {j \in Jobs : pc[j] \in {"start", "test", "complete", "record",
                                      "fail", "finish"}}

(* validate_evaluation_job_status_transition *)
ValidTransitions ==
  {<<"pending", "queued">>, <<"pending", "cancelled">>,
   <<"queued", "running">>, <<"queued", "cancelled">>,
   <<"running", "completed">>, <<"running", "failed">>, <<"running", "cancelled">>,
   <<"failed", "queued">>}

(* evaluation_jobs_timing_check: no completed_at without a started_at *)
TimingCheck(j, s) ==
  s \in {"completed", "failed", "cancelled"} =>
    row[j] \notin {"pending", "queued"}

Accepts(j, s) == <<row[j], s>> \in ValidTransitions /\ TimingCheck(j, s)
Write(j, s) == row' = [row EXCEPT ![j] = s]
Goto(j, at) == pc' = [pc EXCEPT ![j] = at]

Init ==
  /\ row = [j \in Jobs |-> "absent"]
  /\ pc = [j \in Jobs |-> "none"]
  /\ testsLeft = [j \in Jobs |-> Tests]
  /\ queue = <<>>
  /\ controllers = {} /\ counter = 0 /\ aborted = {}
  /\ queuing = {} /\ cancelling = {} /\ cancels = {} /\ sorts = {}

(* mutant: an empty slot more than there are *)
ProcessQueueOneMore(q, busy, at) ==
  LET free == MaxConcurrent + 1 - busy
      n == IF free <= 0 THEN 0 ELSE IF free < Len(q) THEN free ELSE Len(q)
      starting == {q[i] : i \in 1..n}
  IN /\ queue' = SubSeq(q, n + 1, Len(q))
     /\ counter' = busy + n
     /\ controllers' = (controllers \cup starting)
                         \ {j \in Jobs : at[j] = "ended"}
     /\ pc' = [j \in Jobs |-> IF j \in starting THEN "start" ELSE at[j]]

(* processQueue, a loop without an await: it starts the head of q as long  *)
(* as fewer than MaxConcurrent are counted.  at is pc so far, busy counter *)
ProcessQueue(q, busy, at) ==
  LET free == MaxConcurrent - busy
      n == IF free <= 0 THEN 0 ELSE IF free < Len(q) THEN free ELSE Len(q)
      starting == {q[i] : i \in 1..n}
  IN /\ queue' = SubSeq(q, n + 1, Len(q))
     /\ counter' = busy + n
     /\ controllers' = (controllers \cup starting)
                         \ {j \in Jobs : at[j] = "ended"}
     /\ pc' = [j \in Jobs |-> IF j \in starting THEN "start" ELSE at[j]]

(* The process ends: what it held is gone, its users' writes with it. *)
ProcessDown ==
  /\ pc' = [j \in Jobs |-> IF pc[j] \in {"none", "ended"} THEN pc[j] ELSE "lost"]
  /\ queue' = <<>> /\ controllers' = {} /\ counter' = 0 /\ aborted' = {}
  /\ queuing' = {} /\ cancelling' = {} /\ sorts' = {}
  /\ UNCHANGED <<row, testsLeft, cancels>>

------------------------------------------------------------------------------
(* createEvaluationJob: the INSERT *)
Create(j) ==
  /\ pc[j] = "none"
  /\ Write(j, "pending")
  /\ Goto(j, "inserted")
  /\ UNCHANGED <<testsLeft, queue, engineVars, queuing, cancelling, cancels, sorts>>

(* queueJob: the QUEUED write and the sort are sent and not awaited, and the *)
(* queue is processed in the same tick.  A queue of one is not sorted.       *)
QueueJob(j) ==
  /\ pc[j] = "inserted"
  /\ queuing' = queuing \cup {j}
  /\ LET q == Append(queue, j)
     IN /\ sorts' = IF Len(q) > 1 THEN sorts \cup {Range(q)} ELSE sorts
        /\ ProcessQueue(q, counter, [pc EXCEPT ![j] = "queued"])
  /\ UNCHANGED <<row, testsLeft, aborted, cancelling, cancels>>

(* the interval that processes the queue every five seconds *)
Poll ==
  /\ counter < MaxConcurrent
  /\ queue # <<>>
  /\ ProcessQueue(queue, counter, pc)
  /\ UNCHANGED <<row, testsLeft, aborted, queuing, cancelling, cancels, sorts>>

(* What sortJobQueue compares: the priorities it asked for, a job that was   *)
(* not in the queue then counting as normal; Array.sort is stable.           *)
Precedes(known, i, k) ==
  LET key(j) == IF j \in known THEN Priority[j] ELSE Normal
  IN  \/ key(queue[i]) < key(queue[k])
      \/ key(queue[i]) = key(queue[k]) /\ i < k

(* sortJobQueue goes on: the queue in the order p of its entries             *)
SortLands(known) ==
  /\ known \in sorts
  /\ \E p \in [DOMAIN queue -> DOMAIN queue] :
       /\ \A i, k \in DOMAIN queue : i < k => Precedes(known, p[i], p[k])
       /\ queue' = [i \in DOMAIN queue |-> queue[p[i]]]
  /\ sorts' = sorts \ {known}
  /\ UNCHANGED <<row, pc, testsLeft, engineVars, queuing, cancelling, cancels>>

QueuedLands(j) ==
  /\ j \in queuing
  /\ \/ /\ Accepts(j, "queued")
        /\ Write(j, "queued")
        /\ queuing' = queuing \ {j}
        /\ UNCHANGED <<pc, testsLeft, queue, engineVars, cancelling, cancels, sorts>>
     \/ /\ ~Accepts(j, "queued")
        /\ ProcessDown

------------------------------------------------------------------------------
(* executeJob: the RUNNING write, then the first test unless aborted         *)
RunningLands(j) ==
  /\ pc[j] = "start"
  /\ OrderedWrites => j \notin queuing
  /\ \/ /\ Accepts(j, "running")
        /\ Write(j, "running")
        /\ Goto(j, IF j \in aborted THEN "fail" ELSE "test")
     \/ /\ ~Accepts(j, "running")
        /\ Goto(j, "fail")
        /\ UNCHANGED row
  /\ UNCHANGED <<testsLeft, queue, engineVars, queuing, cancelling, cancels, sorts>>

(* A test ends, well or not; the signal is looked at before the next one     *)
TestEnds(j) ==
  /\ pc[j] = "test"
  /\ testsLeft[j] > 1
  /\ testsLeft' = [testsLeft EXCEPT ![j] = @ - 1]
  /\ Goto(j, IF j \in aborted THEN "fail" ELSE "test")
  /\ UNCHANGED <<row, queue, engineVars, queuing, cancelling, cancels, sorts>>

(* after the last test: the comparison with the thresholds may throw         *)
LastTestEnds(j) ==
  /\ pc[j] = "test"
  /\ testsLeft[j] = 1
  /\ \/ Goto(j, "complete")
     \/ Goto(j, "fail")
  /\ UNCHANGED <<row, testsLeft, queue, engineVars, queuing, cancelling, cancels, sorts>>

CompletedLands(j) ==
  /\ pc[j] = "complete"
  /\ \/ /\ Accepts(j, "completed")
        /\ Write(j, "completed")
        /\ Goto(j, "record")
     \/ /\ ~Accepts(j, "completed")
        /\ Goto(j, "fail")
        /\ UNCHANGED row
  /\ UNCHANGED <<testsLeft, queue, engineVars, queuing, cancelling, cancels, sorts>>

(* the INSERT into evaluations *)
Record(j) ==
  /\ pc[j] = "record"
  /\ Goto(j, "finish")
  /\ UNCHANGED <<row, testsLeft, queue, engineVars, queuing, cancelling, cancels, sorts>>

(* the catch block: a refused write leaves it as an unhandled rejection      *)
FailedLands(j) ==
  /\ pc[j] = "fail"
  /\ \/ /\ Accepts(j, "failed")
        /\ Write(j, "failed")
        /\ Goto(j, "finish")
        /\ UNCHANGED <<testsLeft, queue, engineVars, queuing, cancelling, cancels, sorts>>
     \/ /\ ~Accepts(j, "failed")
        /\ ProcessDown

(* mutant: the finally block does not give its place back *)
FinishKeepsPlace(j) ==
  /\ pc[j] = "finish"
  /\ ProcessQueue(queue, counter, [pc EXCEPT ![j] = "ended"])
  /\ UNCHANGED <<row, testsLeft, aborted, queuing, cancelling, cancels, sorts>>

(* the finally block *)
Finish(j) ==
  /\ pc[j] = "finish"
  /\ ProcessQueue(queue, counter - 1, [pc EXCEPT ![j] = "ended"])
  /\ UNCHANGED <<row, testsLeft, aborted, queuing, cancelling, cancels, sorts>>

------------------------------------------------------------------------------
(* mutant: a cancelled job keeps its place in the queue *)
CancelRequestKeepsQueue(j) ==
  /\ j \in Cancellable \ cancels
  /\ row[j] # "absent"
  /\ cancels' = cancels \cup {j}
  /\ cancelling' = cancelling \cup {j}
  /\ IF j \in controllers
     THEN /\ aborted' = aborted \cup {j}
          /\ controllers' = controllers \ {j}
          /\ counter' = counter - 1
     ELSE UNCHANGED engineVars
  /\ pc' = IF j \in Range(queue) THEN [pc EXCEPT ![j] = "dequeued"] ELSE pc
  /\ UNCHANGED <<row, testsLeft, queue, queuing, sorts>>

(* cancelEvaluationJob: what it does before its UPDATE, in one tick          *)
CancelRequest(j) ==
  /\ j \in Cancellable \ cancels
  /\ row[j] # "absent"
  /\ cancels' = cancels \cup {j}
  /\ cancelling' = cancelling \cup {j}
  /\ IF j \in controllers
     THEN /\ aborted' = aborted \cup {j}
          /\ controllers' = controllers \ {j}
          /\ counter' = counter - 1
     ELSE UNCHANGED engineVars
  /\ queue' = RemoveFirst(queue, j)
  /\ pc' = IF j \in Range(queue) THEN [pc EXCEPT ![j] = "dequeued"] ELSE pc
  /\ UNCHANGED <<row, testsLeft, queuing, sorts>>

(* The UPDATE is refused with an error the route answers, or finds no row in *)
(* a status that can be cancelled: either way nothing changes.               *)
CancelLands(j) ==
  /\ j \in cancelling
  /\ cancelling' = cancelling \ {j}
  /\ IF Accepts(j, "cancelled") THEN Write(j, "cancelled") ELSE UNCHANGED row
  /\ UNCHANGED <<pc, testsLeft, queue, engineVars, queuing, cancels, sorts>>

ExecuteJob(j) ==
  \/ RunningLands(j) \/ TestEnds(j) \/ LastTestEnds(j)
  \/ CompletedLands(j) \/ Record(j) \/ FailedLands(j) \/ Finish(j)

Next ==
  \/ \E j \in Jobs :
       \/ Create(j) \/ QueueJob(j) \/ QueuedLands(j) \/ ExecuteJob(j)
       \/ CancelRequest(j) \/ CancelLands(j)
  \/ Poll
  \/ \E known \in sorts : SortLands(known)

Spec == Init /\ [][Next]_vars

(* Timers fire, writes arrive and tests come to an end; users need not act. *)
Fairness ==
  /\ WF_vars(Poll)
  /\ \A j \in Jobs :
       /\ WF_vars(QueueJob(j)) /\ WF_vars(QueuedLands(j))
       /\ WF_vars(ExecuteJob(j)) /\ WF_vars(CancelLands(j))
  /\ \A known \in SUBSET Jobs : WF_vars(SortLands(known))

FairSpec == Spec /\ Fairness

------------------------------------------------------------------------------
TypeOK ==
  /\ row \in [Jobs -> Status \cup {"absent"}]
  /\ pc \in [Jobs -> PC]
  /\ testsLeft \in [Jobs -> 1..Tests]
  /\ Range(queue) \subseteq Jobs
  /\ controllers \subseteq Jobs
  /\ counter \in Int
  /\ aborted \subseteq Jobs
  /\ queuing \subseteq Jobs
  /\ cancelling \subseteq Jobs
  /\ cancels \subseteq Jobs
  /\ sorts \subseteq SUBSET Jobs

(* However requests, timers and ends of jobs interleave, the engine runs at  *)
(* most maxConcurrentJobs, and one more for each running job that was        *)
(* cancelled: cancelEvaluationJob gives a place back before the job ends,    *)
(* the finally block gives it back again.                                    *)
LimitErosion == Cardinality(Executing) <= MaxConcurrent + Cardinality(aborted)

(* No job is in the queue twice, or both in the queue and under way: the    *)
(* late sorts and the removals never lose or copy an entry.                  *)
QueueIsExact ==
  /\ Range(queue) = {j \in Jobs : pc[j] = "queued"}
  /\ Len(queue) = Cardinality(Range(queue))

(* A job that waits in the queue is started or leaves it: places come back. *)
QueueDrains == \A j \in Jobs : pc[j] = "queued" ~> pc[j] # "queued"

------------------------------------------------------------------------------
(* maxConcurrentJobs is the number of jobs that run at once.                 *)
ConcurrencyLimit == Cardinality(Executing) <= MaxConcurrent

(* evaluationExecutionEngine.test.ts "should cancel pending job              *)
(* successfully": a job taken out of the queue is cancelled.                 *)
DequeuedIsCancelled ==
  \A j \in Jobs :
    pc[j] = "dequeued" /\ j \notin cancelling \cup queuing => row[j] = "cancelled"

(* evaluationExecutionEngine.ts "Cancel running job if exists": a cancel     *)
(* ends that job's execution and no other's.                                 *)
CancelSparesOthers ==
  [][\A j \in Jobs \ Cancellable : pc'[j] = "lost" => pc[j] = "lost"]_vars

(* evaluationExecutionEngine.ts "Update job status to queued", then "Process *)
(* queue": queueing and starting a job does not take the engine down.        *)
QueueingIsHarmless ==
  cancels = {} => \A j \in Jobs : pc[j] # "lost"

(* evaluationExecutionEngine.ts "Add to queue based on priority": once no    *)
(* sort is on its way the queue is in order.                                 *)
QueueByPriority ==
  sorts = {} =>
    \A i, k \in DOMAIN queue : i < k => Priority[queue[i]] <= Priority[queue[k]]
=============================================================================
