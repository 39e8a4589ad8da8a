-------------------------- MODULE EvaluationSuites --------------------------
(***************************************************************************)
(* Evaluation suites, the configuration a job copies from its suite, and   *)
(* the reports over jobs and evaluations.  A suite may be edited,          *)
(* deactivated or deleted while a job with its configuration waits or      *)
(* runs.  How jobs queue, run at once and are cancelled is module          *)
(* EvaluationEngine; here a job only goes through its statuses.            *)
(***************************************************************************)
EXTENDS Naturals, FiniteSets

CONSTANTS
  Suites,      \* ids of suites
  EvalJobs,    \* ids of jobs
  Evaluated,   \* model versions
  Metrics,     \* names of metrics, whatever their category
  Thresholds,  \* threshold sets used, [Metrics -> 0 .. 1, or Unmeasured for none]
  Measured,    \* results of the test runner, [Metrics -> 0 .. 1, or Unmeasured]
  Malformed,   \* thresholds that lack a category
  Unmeasured,  \* a metric without a value
  NotCreated,  \* no row yet
  Deleted      \* a row that is gone

VARIABLES
  suites,       \* suites      : [Suites -> row of evaluation_suites]
  jobs,         \* jobs        : [EvalJobs -> row of evaluation_jobs]
  suiteRequest, \* suiteRequest[j]: the request that creates job j, while it lasts
  evaluations   \* evaluations : rows of evaluations, one per recorded job

suiteVars == <<suites, jobs, suiteRequest, evaluations>>

UserRole == {"user", "model_owner", "mrc", "sre", "admin"}
EvaluationSuiteStatus == {"draft", "active"}     \* the others are like draft

SuiteRow == [status : EvaluationSuiteStatus, thresholds : Thresholds \cup {Malformed}]
JobRow == [version : Evaluated, suite : Suites, thresholds : Thresholds \cup {Malformed},
           status : {"queued", "completed", "failed"}, results : Measured \cup {Unmeasured},
           passed : BOOLEAN]

ASSUME SuitesAssumption ==
  /\ Thresholds \cup Measured \subseteq [Metrics -> Nat \cup {Unmeasured}]
  /\ Unmeasured \notin Nat
  /\ Malformed \notin Thresholds
  /\ NotCreated # Deleted
  /\ {NotCreated, Deleted} \cap (SuiteRow \cup JobRow) = {}

NoRequest == [version |-> NotCreated, suite |-> NotCreated, thresholds |-> NotCreated]

SuitesInit ==
  /\ suites = [s \in Suites |-> NotCreated]
  /\ jobs = [j \in EvalJobs |-> NotCreated]
  /\ suiteRequest = [j \in EvalJobs |-> NoRequest]
  /\ evaluations = {}

Rows(table) == {x \in DOMAIN table : table[x] \notin {NotCreated, Deleted}}

-----------------------------------------------------------------------------
(* The routes; requireRoles first.                                         *)
CreateEvaluationSuite(s, thresholds) ==
  suites' = [suites EXCEPT ![s] = [status |-> "draft", thresholds |-> thresholds]]

PostSuite(role, s, thresholds) ==
  /\ role \in {"model_owner", "mrc", "admin"}
  /\ suites[s] = NotCreated
  /\ CreateEvaluationSuite(s, thresholds)
  /\ UNCHANGED <<jobs, suiteRequest, evaluations>>

(* any status after any other, a new configuration in any status *)
UpdateEvaluationSuite(s, status, thresholds) ==
  suites' = [suites EXCEPT ![s] = [status |-> status, thresholds |-> thresholds]]

PutSuite(role, s, status, thresholds) ==
  /\ role \in {"model_owner", "mrc", "admin"}
  /\ s \in Rows(suites)
  /\ UpdateEvaluationSuite(s, status, thresholds)
  /\ UNCHANGED <<jobs, suiteRequest, evaluations>>

(* the jobs of the suite go with it (migration 006), evaluations stay *)
DeleteEvaluationSuite(s) ==
  /\ suites' = [suites EXCEPT ![s] = Deleted]
  /\ jobs' = [j \in EvalJobs |->
               IF j \in Rows(jobs) /\ jobs[j].suite = s THEN Deleted ELSE jobs[j]]

DeleteSuite(role, s) ==
  /\ role = "admin"
  /\ s \in Rows(suites)
  /\ DeleteEvaluationSuite(s)
  /\ UNCHANGED <<suiteRequest, evaluations>>

(* createEvaluationJob: the configuration of an active suite is read ...   *)
PostJob(role, j, v, s) ==
  /\ role \in {"model_owner", "mrc", "sre", "admin"}
  /\ jobs[j] = NotCreated /\ suiteRequest[j] = NoRequest
  /\ s \in Rows(suites) /\ suites[s].status = "active"
  /\ suiteRequest' = [suiteRequest EXCEPT ![j] =
       [version |-> v, suite |-> s, thresholds |-> suites[s].thresholds]]
  /\ UNCHANGED <<suites, jobs, evaluations>>

(* ... and stored with the job a few statements later: refused when the    *)
(* suite is deleted by then, not when it was edited                        *)
InsertJob(j) ==
  /\ suiteRequest[j] # NoRequest
  /\ suiteRequest' = [suiteRequest EXCEPT ![j] = NoRequest]
  /\ jobs' = IF suiteRequest[j].suite \in Rows(suites)
               THEN [jobs EXCEPT ![j] =
                      [version |-> suiteRequest[j].version, suite |-> suiteRequest[j].suite,
                       thresholds |-> suiteRequest[j].thresholds, status |-> "queued",
                       results |-> Unmeasured, passed |-> FALSE]]
               ELSE jobs
  /\ UNCHANGED <<suites, evaluations>>

-----------------------------------------------------------------------------
(* executeJob: the results are compared with the thresholds of the job.    *)
(* (The job runs in the engine; its row may be deleted meanwhile, then the *)
(* update and the insert touch nothing.)                                   *)
CompareWithThresholds(results, thresholds) ==
  \A m \in Metrics :
    thresholds[m] # Unmeasured => results[m] # Unmeasured /\ results[m] >= thresholds[m]

CompleteJob(j, results) ==
  /\ j \in Rows(jobs) /\ jobs[j].status = "queued"
  /\ jobs' = IF jobs[j].thresholds = Malformed
               THEN [jobs EXCEPT ![j].status = "failed"]
               ELSE [jobs EXCEPT ![j].status = "completed", ![j].results = results,
                       ![j].passed = CompareWithThresholds(results, jobs[j].thresholds)]
  /\ UNCHANGED <<suites, suiteRequest, evaluations>>

(* updateJobResults, second statement: INSERT ... SELECT from the job row *)
RecordEvaluation(j) ==
  /\ j \in Rows(jobs) /\ jobs[j].status = "completed"
  /\ \A e \in evaluations : e.job # j
  /\ evaluations' = evaluations \cup
       {[job |-> j, version |-> jobs[j].version, suite |-> jobs[j].suite,
         results |-> jobs[j].results, thresholds |-> jobs[j].thresholds,
         passed |-> jobs[j].passed]}
  /\ UNCHANGED <<suites, jobs, suiteRequest>>

SuitesNext ==
  \/ \E role \in UserRole, s \in Suites :
       \/ \E t \in Thresholds \cup {Malformed} :
            \/ PostSuite(role, s, t)
            \/ \E status \in EvaluationSuiteStatus : PutSuite(role, s, status, t)
       \/ DeleteSuite(role, s)
       \/ \E j \in EvalJobs, v \in Evaluated : PostJob(role, j, v, s)
  \/ \E j \in EvalJobs :
       \/ InsertJob(j)
       \/ \E results \in Measured : CompleteJob(j, results)
       \/ RecordEvaluation(j)

SuitesSpec == SuitesInit /\ [][SuitesNext]_suiteVars

-----------------------------------------------------------------------------
(* Reports over the completed jobs of a version and a suite.  Jobs and     *)
(* evaluations have no common key and are joined on version and suite.     *)
CompletedJobs(v, s) ==
  {j \in Rows(jobs) : jobs[j].status = "completed" /\ jobs[j].version = v /\ jobs[j].suite = s}
EvaluationsOf(v, s) == {e \in evaluations : e.version = v /\ e.suite = s}

(* mutant: joined on the version alone *)
JoinedOnVersion(v, s) == CompletedJobs(v, s) \X {e \in evaluations : e.version = v}

Joined(v, s) == CompletedJobs(v, s) \X EvaluationsOf(v, s)

(* getEvaluationTrends: the jobs counted and how many of them passed.  The  *)
(* average score of a passed evaluation casts the object of a category to  *)
(* a number, which the database refuses: the query throws.                 *)
Refused == [refused |-> TRUE]

GetEvaluationTrends(v, s) ==
  IF \E p \in Joined(v, s) : p[2].passed
    THEN Refused
    ELSE [refused |-> FALSE, jobCount |-> Cardinality(Joined(v, s)),
          passes |-> Cardinality({p \in Joined(v, s) : p[2].passed})]

(* getEvaluationSummary: a job passed when any evaluation of the pair did. *)
(* It awaits the trends, and throws with them.                             *)
GetEvaluationSummary(v, s) ==
  IF GetEvaluationTrends(v, s).refused
    THEN Refused
    ELSE [refused |-> FALSE, completedJobs |-> Cardinality(CompletedJobs(v, s)),
          passes |-> Cardinality({j \in CompletedJobs(v, s) :
                                    \E e \in EvaluationsOf(v, s) : e.passed})]

(* getMetricTrends: per metric, the points of a curve *)
GetMetricTrends(v, s) ==
  {x \in {[metric |-> m, job |-> p[1], value |-> p[2].results[m], passed |-> p[2].passed] :
            m \in Metrics, p \in Joined(v, s)} : x.value # Unmeasured}

(* getTopFailingMetrics: the metrics below their threshold, or below 0 *)
GetTopFailingMetrics(v, s) ==
  {m \in Metrics : \E p \in Joined(v, s) :
     /\ p[2].results[m] # Unmeasured
     /\ p[2].thresholds[m] # Unmeasured
     /\ p[2].results[m] < p[2].thresholds[m]}

(* A recorded verdict is the comparison of the results with the thresholds *)
(* of the same row, although the suite may be edited, deactivated or       *)
(* deleted at any moment between the request and the record                *)
(* (createEvaluationJob, updateJobResults).  The trends and the summary of *)
(* a version and a suite throw as soon as an evaluation of a completed job *)
(* passed.  As long as the version was evaluated once with the suite, they *)
(* otherwise count that one job and no pass, and the reports on metrics    *)
(* agree with the verdict: its curve has the points of that job alone, and *)
(* a metric is blamed exactly when the verdict is negative and every       *)
(* metric was measured.  (A second evaluation of the pair pairs every job  *)
(* with every evaluation.)                                                 *)
ReportsAgree ==
  \A e \in evaluations :
    LET v == e.version
        s == e.suite
    IN  /\ e.passed = CompareWithThresholds(e.results, e.thresholds)
        /\ e.passed /\ CompletedJobs(v, s) # {}
             => GetEvaluationTrends(v, s) = Refused /\ GetEvaluationSummary(v, s) = Refused
        /\ CompletedJobs(v, s) = {e.job} =>
             /\ ~e.passed =>
                  /\ GetEvaluationTrends(v, s) = [refused |-> FALSE, jobCount |-> 1, passes |-> 0]
                  /\ GetEvaluationSummary(v, s) =
                       [refused |-> FALSE, completedJobs |-> 1, passes |-> 0]
             /\ \A p \in GetMetricTrends(v, s) : p.job = e.job /\ p.passed = e.passed
             /\ e.passed => GetTopFailingMetrics(v, s) = {}
             /\ ~e.passed /\ (\A m \in Metrics : e.results[m] # Unmeasured)
                  => GetTopFailingMetrics(v, s) # {}
=============================================================================
