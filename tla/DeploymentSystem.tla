-------------------------- MODULE DeploymentSystem --------------------------
(***************************************************************************)
(* The deployment service: the router's requests, the orchestrations, the  *)
(* rollbacks and the monitors over one database, in one Node process that  *)
(* may go down and come back.                                              *)
(***************************************************************************)
EXTENDS RollbackService, DeploymentOrchestrator

CONSTANTS
  ManualSplits,  \* percentages an SRE posts to /:id/traffic-splits
  MaxCrashes     \* bound: times the process is killed from outside

ASSUME SystemAssumption ==
  /\ ManualSplits \subseteq Percentage
  /\ MaxCrashes \in Nat

VARIABLES
  deleting,  \* deleting : deployments whose DELETE has stopped the monitor
  crashes,   \* crashes  : times the process was killed
  split      \* split    : deployments an SRE has split by hand

vars == <<storeVars, monitorVars, rollbackVars, orchestratorVars, deleting, crashes, split>>

Init ==
  /\ StoreInit /\ MonitorInit /\ RollbackInit /\ OrchestratorInit
  /\ deleting = {}
  /\ crashes = 0
  /\ split = {}

(* POST /:id/traffic-splits *)
PostTrafficSplit(d, p) ==
  /\ CreateTrafficSplit(d, p)
  /\ split' = split \cup {d}
  /\ UNCHANGED <<status, strategy, criticals, rbRow, rbOf, monitorVars,
                 rollbackVars, orchestratorVars, deleting, crashes>>

(* DELETE /:id: the router's own monitor is stopped, then the row goes      *)
DeleteRequest(d) ==
  /\ opc[d] # "idle"
  /\ d \notin deleting
  /\ StopMonitoring("router", d)
  /\ deleting' = deleting \cup {d}
  /\ UNCHANGED <<storeVars, asked, cleared, rollbackVars, orchestratorVars, crashes, split>>

DeleteRow(d) ==
  /\ d \in deleting
  /\ DeleteDeployment(d)
  /\ deleting' = deleting \ {d}
  /\ UNCHANGED <<strategy, rbOf, monitorVars, rollbackVars, orchestratorVars, crashes, split>>

(* Everything in memory goes; nothing at start-up looks for unfinished rows *)
ProcessDown ==
  /\ ForgetMonitors /\ ForgetRollbacks /\ ForgetOrchestrations
  /\ deleting' = {}
  /\ UNCHANGED <<storeVars, split>>

Crash ==
  /\ crashes < MaxCrashes
  /\ crashes' = crashes + 1
  /\ ProcessDown

(* Node ends the process on a rejection no handler sees *)
UnhandledRejection(d) ==
  /\ NobodyCatches(d)
  /\ ProcessDown
  /\ UNCHANGED crashes

MonitoringStep(d) ==
  MonitoringNext(d) /\ UNCHANGED <<rollbackVars, orchestratorVars, deleting, crashes, split>>
RollbackStep(r) ==
  RollbackNext(r) /\ UNCHANGED <<orchestratorVars, deleting, crashes, split>>
OrchestrationStep(d) ==
  /\ Orchestrate(d) \/ ExecuteDeploymentStrategy(d)
  /\ UNCHANGED <<rollbackVars, deleting, crashes, split>>

(* what a process does that nothing kills from outside *)
Running ==
  \/ \E d \in Deployments :
       \/ OrchestrationStep(d) \/ MonitoringStep(d)
       \/ DeleteRequest(d) \/ DeleteRow(d) \/ UnhandledRejection(d)
       \/ \E p \in ManualSplits : PostTrafficSplit(d, p)
  \/ \E r \in Rollbacks : RollbackStep(r)

Next == Running \/ Crash

Spec == Init /\ [][Next]_vars

(* The event loop resumes every continuation: what the process has begun    *)
(* goes on.  Requests need not happen.  A health check that fails is        *)
(* followed by a bounded number of others.  Nothing recovers what a kill    *)
(* interrupts, so that progress is asked of a process that is not killed.   *)
Fairness ==
  /\ \A d \in Deployments :
       /\ WF_vars(ExecuteDeploymentStrategy(d)
                    /\ UNCHANGED <<rollbackVars, deleting, crashes, split>>)
       /\ WF_vars(UnhandledRejection(d))
  /\ \A r \in Rollbacks :
       WF_vars(PerformRollback(r) /\ UNCHANGED <<orchestratorVars, deleting, crashes, split>>)

FairSpec == Init /\ [][Running]_vars /\ Fairness

TypeOK ==
  /\ StoreType /\ MonitorType /\ RollbackType /\ OrchestratorType
  /\ deleting \in SUBSET Deployments
  /\ crashes \in Nat
  /\ split \in SUBSET Deployments

------------------------------------------------------------------------------
(* What holds.                                                              *)

(* No status write looks at the old status, yet only the orchestration can  *)
(* make a deployment active, and only out of deploying: no rollback and no  *)
(* failure handler ever brings one back.                                    *)
ActivatedOnlyByRollout ==
  [][\A d \in Deployments :
       status[d] # "active" /\ status'[d] = "active" =>
         status[d] = "deploying" /\ opc[d] = "activate"]_vars

(* A rollback and a rollout of the same deployment never shift its traffic  *)
(* at the same time, although the rollback's status test and its first      *)
(* write are separate steps.                                                *)
RolloutExcludesRollback ==
  \A r \in Rollbacks :
    rpc[r] \in Performing \cup {"checked"} => opc[rbOf[r]] \notin RollingOut

(* While the canary is promoted nothing can raise an alert for it: monitors *)
(* want an active row.  The halt of executeCanaryDeployment is never taken. *)
RolloutSeesNoAlert ==
  \A d \in Deployments :
    opc[d] \in RollingOut =>
      /\ criticals[d] = 0
      /\ \A i \in Monitors : live[i][d] = 0

(* An active deployment of a strategy that splits traffic has all of it,    *)
(* whatever rollbacks have been tried and whatever they restored, unless an *)
(* SRE has posted a split by hand: executeRollback marks the deployment     *)
(* before it moves its traffic.                                             *)
UnsplitHasAllTraffic ==
  \A d \in Deployments \ split :
    status[d] = "active" /\ strategy[d] \in ShiftingStrategy => traffic[d] = 100

(* Every stopMonitoring finds a running pair behind each handle it holds.   *)
RegisteredIsLive ==
  \A i \in Monitors : \A d \in registered[i] : live[i][d] > 0

(* Every rollback row reaches a final status, and its deployment does not   *)
(* stay rolling back, even with a second rollback or the failure handler    *)
(* writing the same row (performRollback, its catch block).                 *)
RollbackEnds ==
  /\ \A r \in Rollbacks :
       rbRow[r] \in {"pending", "in_progress"}
         ~> rbRow[r] \notin {"pending", "in_progress"}
  /\ \A d \in Deployments : status[d] = "rolling_back" ~> status[d] # "rolling_back"

(* Every rollout ends: a pending or deploying row does not stay so.         *)
RolloutEnds ==
  \A d \in Deployments :
    status[d] \in {"pending", "deploying"} ~> status[d] \notin {"pending", "deploying"}

------------------------------------------------------------------------------
(* What the repository says of the service and the code does not do.        *)

(* rollbackService.ts treats completed as final ("Cannot cancel completed   *)
(* or failed rollbacks"): a completed row is not taken back.                *)
CompletedIsFinal ==
  [][\A r \in Rollbacks :
       rbRow[r] = "completed" => rbRow'[r] \in {"completed", "absent"}]_vars

(* rollbackService.ts: a deployment that is "already rolling back" is not   *)
(* rolled back by a second operation at the same time.                      *)
OneRollbackAtATime ==
  \A r, s \in Rollbacks :
    r # s /\ rbOf[r] = rbOf[s] => ~(rpc[r] \in Performing /\ rpc[s] \in Performing)

(* The router answers "Rollback cancelled successfully": such an operation  *)
(* is not reported completed later.                                         *)
CancelledStaysCancelled ==
  \A r \in cancelled : rbRow[r] # "completed"

(* rollbackService.ts "Stop monitoring for current deployment": no monitor  *)
(* runs while the rollback works on the deployment.                         *)
RollbackIsNotMonitored ==
  \A r \in Rollbacks :
    rpc[r] \in {"away", "restore", "verify", "settle"} =>
      \A i \in Monitors : live[i][rbOf[r]] = 0

(* routes/deployment.ts "Stop monitoring before deletion": no monitor of a  *)
(* deleted deployment keeps running.                                        *)
DeletedIsNotMonitored ==
  \A d \in Deployments :
    opc[d] = "done" /\ ~Present(d) => \A i \in Monitors : live[i][d] = 0

(* monitoringService.ts "Already monitoring": a second start adds nothing.  *)
MonitoredOnce ==
  \A i \in Monitors, d \in Deployments : live[i][d] <= 1

(* requirements.md: while a deployment serves traffic it is monitored.      *)
ServingIsMonitored ==
  \A d \in Deployments :
    opc[d] = "hold" /\ Present(d) => \E i \in Monitors : live[i][d] > 0

(* deploymentOrchestrator.ts "Trigger automatic rollback if enabled": a     *)
(* failed deployment with another active one to go back to is given a       *)
(* rollback, unless the deployment goes away.                               *)
FailureIsRolledBack ==
  \A r \in Rollbacks, e \in Deployments :
    (e # rbOf[r] /\ status[rbOf[r]] = "failed" /\ rpc[r] = "none"
       /\ [](status[e] = "active"))
      ~> (status[rbOf[r]] # "failed" \/ rpc[r] # "none")
=============================================================================
