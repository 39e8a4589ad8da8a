-------------------------- MODULE DeploymentService --------------------------
(***************************************************************************)
(* The rows of migration 007 and the single-statement operations of        *)
(* DeploymentService on them.  Every other deployment component works on   *)
(* these rows through these operations; each is one SQL statement and so   *)
(* one atomic step.  An UPDATE of a row that is gone changes nothing and   *)
(* raises nothing; an INSERT that refers to one is refused.                *)
(***************************************************************************)
EXTENDS Naturals, FiniteSets

CONSTANTS
  Deployments,  \* identities of deployments rows (uuids, never reused)
  Rollbacks,    \* identities of rollback_operations rows
  Strategies,   \* the strategies that are requested
  MaxCriticals  \* bound: open critical alerts are counted up to this many

DeploymentStatus == {"pending", "deploying", "active", "failed",
                     "rolling_back", "rolled_back"}
RollbackStatus == {"pending", "in_progress", "completed", "failed"}
DeploymentStrategy == {"blue_green", "canary", "rolling"}
ShiftingStrategy == {"blue_green", "canary"}  \* the strategies that split traffic
Percentage == 0..100

ASSUME StoreAssumption ==
  /\ Strategies \subseteq DeploymentStrategy
  /\ MaxCriticals \in Nat

VARIABLES
  status,    \* status[d]    : deployments.status, "absent" when there is no row
  strategy,  \* strategy[d]  : deployments.strategy
  traffic,   \* traffic[d]   : percentage of d's newest traffic_splits row, 0 if none
  criticals, \* criticals[d] : d's unacknowledged, unresolved critical alerts
  rbRow,     \* rbRow[r]     : rollback_operations.status, "absent" when no row
  rbOf       \* rbOf[r]      : rollback_operations.deployment_id

storeVars == <<status, strategy, traffic, criticals, rbRow, rbOf>>

StoreType ==
  /\ status \in [Deployments -> DeploymentStatus \cup {"absent"}]
  /\ strategy \in [Deployments -> Strategies]
  /\ traffic \in [Deployments -> Percentage]
  /\ criticals \in [Deployments -> 0..MaxCriticals]
  /\ rbRow \in [Rollbacks -> RollbackStatus \cup {"absent"}]
  /\ rbOf \in [Rollbacks -> Deployments]

StoreInit ==
  /\ status = [d \in Deployments |-> "absent"]
  /\ strategy \in [Deployments -> Strategies]
  /\ traffic = [d \in Deployments |-> 0]
  /\ criticals = [d \in Deployments |-> 0]
  /\ rbRow = [r \in Rollbacks |-> "absent"]
  /\ rbOf \in [Rollbacks -> Deployments]

Present(d) == status[d] # "absent"

(* INSERT INTO deployments *)
CreateDeployment(d) == status' = [status EXCEPT ![d] = "pending"]

(* UPDATE deployments SET status WHERE id: unconditional on the old status *)
UpdateDeploymentStatus(d, s) ==
  status' = [status EXCEPT ![d] = IF Present(d) THEN s ELSE "absent"]

(* DELETE FROM deployments: the other tables cascade *)
DeleteDeployment(d) ==
  /\ status' = [status EXCEPT ![d] = "absent"]
  /\ traffic' = [traffic EXCEPT ![d] = 0]
  /\ criticals' = [criticals EXCEPT ![d] = 0]
  /\ rbRow' = [r \in Rollbacks |-> IF rbOf[r] = d THEN "absent" ELSE rbRow[r]]

(* INSERT INTO traffic_splits; enabled only while the foreign key holds *)
CreateTrafficSplit(d, p) ==
  /\ Present(d)
  /\ traffic' = [traffic EXCEPT ![d] = p]

(* INSERT INTO deployment_alerts with severity critical, counted up to the bound *)
CreateCriticalAlert(d) ==
  /\ Present(d)
  /\ criticals' = [criticals EXCEPT
                     ![d] = IF @ < MaxCriticals THEN @ + 1 ELSE @]

(* acknowledgeAlert, resolveAlert: either takes the alert out of the open ones *)
CloseAlert(d) ==
  /\ criticals[d] > 0
  /\ criticals' = [criticals EXCEPT ![d] = @ - 1]

(* INSERT INTO rollback_operations; enabled only while the foreign key holds *)
CreateRollback(r) ==
  /\ Present(rbOf[r])
  /\ rbRow' = [rbRow EXCEPT ![r] = "pending"]

(* UPDATE rollback_operations SET status WHERE id: unconditional as well *)
UpdateRollbackStatus(r, s) ==
  rbRow' = [rbRow EXCEPT ![r] = IF rbRow[r] = "absent" THEN "absent" ELSE s]
=============================================================================
