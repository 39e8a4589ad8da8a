----------------------- MODULE DeploymentOrchestrator -----------------------
(***************************************************************************)
(* executeDeploymentStrategy, run in the background by                     *)
(* orchestrateDeployment, one process per deployment.  opc[d] is where it  *)
(* is; one action lies between two awaits.  A failure is handled by the    *)
(* function's own catch block and, since that rethrows, a second time by   *)
(* orchestrateDeployment's .catch.                                         *)
(***************************************************************************)
EXTENDS MonitoringService

CONSTANTS
  CanaryIncrement,  \* config.canaryTrafficIncrement
  Replicas,         \* configuration.replicas of a rolling deployment
  BatchSize         \* config.rollingUpdateBatchSize

ASSUME OrchestratorAssumption ==
  /\ CanaryIncrement \in 1..100
  /\ Replicas \in Nat \ {0}
  /\ BatchSize \in Nat \ {0}

VARIABLES
  opc,       \* opc[d]      : where the orchestration of d is
  progress,  \* progress[d] : currentTraffic, or deployedReplicas of a rolling one
  rethrown   \* rethrown[d] : the catch block is through, the .catch handles again

orchestratorVars == <<opc, progress, rethrown>>

OrchestratorPC == {"idle", "created", "deploy", "shift", "hold", "activate",
                   "monitor", "register", "fail", "alert", "autoRollback",
                   "done", "lost"}

(* the strategy is running: the deployment is not yet active *)
RollingOut == {"created", "deploy", "shift", "hold", "activate"}
(* the orchestration holds a promise in memory *)
Orchestrating == OrchestratorPC \ {"idle", "done", "lost"}

OrchestratorType ==
  /\ opc \in [Deployments -> OrchestratorPC]
  /\ progress \in [Deployments -> Nat]
  /\ rethrown \in [Deployments -> BOOLEAN]

OrchestratorInit ==
  /\ opc = [d \in Deployments |-> "idle"]
  /\ progress = [d \in Deployments |-> 0]
  /\ rethrown = [d \in Deployments |-> FALSE]

Lesser(a, b) == IF a < b THEN a ELSE b
NextTraffic(d) == Lesser(progress[d] + CanaryIncrement, 100)
NextReplicas(d) == Lesser(progress[d] + BatchSize, Replicas)

Step(d, at) == opc' = [opc EXCEPT ![d] = at]

------------------------------------------------------------------------------
(* orchestrateDeployment: the row, then the strategy in the background      *)
Orchestrate(d) ==
  /\ opc[d] = "idle"
  /\ CreateDeployment(d)
  /\ Step(d, "created")
  /\ UNCHANGED <<strategy, traffic, criticals, rbRow, rbOf, monitorVars,
                 progress, rethrown>>

BeginDeploying(d) ==
  /\ opc[d] = "created"
  /\ UpdateDeploymentStatus(d, "deploying")
  /\ Step(d, "deploy")
  /\ UNCHANGED <<strategy, traffic, criticals, rbRow, rbOf, monitorVars,
                 progress, rethrown>>

(* performHealthChecks answers: a rolling deployment repeats it per batch,  *)
(* the others go on to their traffic.                                       *)
HealthChecksPass(d) ==
  /\ opc[d] = "deploy"
  /\ IF strategy[d] = "rolling"
     THEN /\ progress' = [progress EXCEPT ![d] = NextReplicas(d)]
          /\ Step(d, IF NextReplicas(d) < Replicas THEN "deploy" ELSE "activate")
     ELSE Step(d, "shift") /\ UNCHANGED progress
  /\ UNCHANGED <<storeVars, monitorVars, rethrown>>

HealthChecksTimeOut(d) ==
  /\ opc[d] = "deploy"
  /\ Step(d, "fail")
  /\ UNCHANGED <<storeVars, monitorVars, progress, rethrown>>

(* one canary step, or the single switch of blue/green *)
ShiftTraffic(d) ==
  /\ opc[d] = "shift"
  /\ \/ /\ strategy[d] = "canary"
        /\ CreateTrafficSplit(d, NextTraffic(d))
        /\ progress' = [progress EXCEPT ![d] = NextTraffic(d)]
        /\ Step(d, IF NextTraffic(d) < 100 THEN "hold" ELSE "activate")
     \/ /\ strategy[d] = "blue_green"
        /\ CreateTrafficSplit(d, 100)
        /\ Step(d, "activate")
        /\ UNCHANGED progress
     \/ /\ ~Present(d)                  \* the foreign key refuses the INSERT
        /\ Step(d, "fail")
        /\ UNCHANGED <<traffic, progress>>
  /\ UNCHANGED <<status, strategy, criticals, rbRow, rbOf, monitorVars, rethrown>>

(* after the promotion delay: any open critical alert halts the canary      *)
PromoteOrHalt(d) ==
  /\ opc[d] = "hold"
  /\ Step(d, IF criticals[d] > 0 THEN "fail" ELSE "shift")
  /\ UNCHANGED <<storeVars, monitorVars, progress, rethrown>>

Activate(d) ==
  /\ opc[d] = "activate"
  /\ UpdateDeploymentStatus(d, "active")
  /\ Step(d, "monitor")
  /\ UNCHANGED <<strategy, traffic, criticals, rbRow, rbOf, monitorVars,
                 progress, rethrown>>

(* startMonitoring on the orchestrator's object: read, then register        *)
MonitorRead(d) ==
  /\ opc[d] = "monitor"
  /\ Step(d, IF d \in registered["orchestrator"] THEN "done"
             ELSE IF CanMonitor(d) THEN "register" ELSE "fail")
  /\ UNCHANGED <<storeVars, monitorVars, progress, rethrown>>

MonitorRegister(d) ==
  /\ opc[d] = "register"
  /\ SetMonitor("orchestrator", d)
  /\ Step(d, "done")
  /\ UNCHANGED <<storeVars, asked, cleared, progress, rethrown>>

------------------------------------------------------------------------------
(* mutant: the alert is raised, the status is forgotten *)
MarkFailedSilent(d) ==
  /\ opc[d] = "fail"
  /\ Step(d, "alert")
  /\ UNCHANGED <<storeVars, monitorVars, progress, rethrown>>

(* handleDeploymentFailure, first as the catch block, then as the .catch    *)
MarkFailed(d) ==
  /\ opc[d] = "fail"
  /\ UpdateDeploymentStatus(d, "failed")
  /\ Step(d, "alert")
  /\ UNCHANGED <<strategy, traffic, criticals, rbRow, rbOf, monitorVars,
                 progress, rethrown>>

RaiseFailureAlert(d) ==
  /\ opc[d] = "alert"
  /\ CreateCriticalAlert(d)
  /\ Step(d, "autoRollback")
  /\ UNCHANGED <<status, strategy, traffic, rbRow, rbOf, monitorVars,
                 progress, rethrown>>

(* The alert's foreign key refuses a deleted deployment.  In the catch      *)
(* block the new error replaces the first and reaches the .catch; there it  *)
(* reaches nobody: see UnhandledRejection.                                  *)
FailureAlertRefused(d) ==
  /\ opc[d] = "alert"
  /\ ~Present(d)
  /\ ~rethrown[d]
  /\ Step(d, "fail")
  /\ rethrown' = [rethrown EXCEPT ![d] = TRUE]
  /\ UNCHANGED <<storeVars, monitorVars, progress>>

NobodyCatches(d) == opc[d] = "alert" /\ ~Present(d) /\ rethrown[d]

(* Automatic rollback asks for a rollback_operations row initiated by       *)
(* 'system'.  The column is a uuid that refers to users, so the INSERT is   *)
(* always refused, and the error is caught and logged.                      *)
AutomaticRollback(d) ==
  /\ opc[d] = "autoRollback"
  /\ Step(d, IF rethrown[d] THEN "done" ELSE "fail")
  /\ rethrown' = [rethrown EXCEPT ![d] = TRUE]
  /\ UNCHANGED <<storeVars, monitorVars, progress>>

(* A process that goes down takes every orchestration with it. *)
ForgetOrchestrations ==
  /\ opc' = [d \in Deployments |-> IF opc[d] \in Orchestrating THEN "lost"
                                   ELSE opc[d]]
  /\ UNCHANGED <<progress, rethrown>>

ExecuteDeploymentStrategy(d) ==
  \/ BeginDeploying(d) \/ HealthChecksPass(d) \/ HealthChecksTimeOut(d)
  \/ ShiftTraffic(d) \/ PromoteOrHalt(d) \/ Activate(d)
  \/ MonitorRead(d) \/ MonitorRegister(d)
  \/ MarkFailed(d) \/ RaiseFailureAlert(d) \/ FailureAlertRefused(d)
  \/ AutomaticRollback(d)
=============================================================================
