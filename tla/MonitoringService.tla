-------------------------- MODULE MonitoringService --------------------------
(***************************************************************************)
(* The activeMonitors maps of MonitoringService.  The deployment router    *)
(* builds one MonitoringService, the orchestrator another and every        *)
(* RollbackService one more, so a deployment can be monitored by one       *)
(* object while another is asked to stop.  live counts the interval pairs  *)
(* that really run; registered says which deployment has its pair in the   *)
(* map, where stopMonitoring can find it.                                  *)
(***************************************************************************)
EXTENDS DeploymentService

CONSTANT MaxStarts  \* bound: start requests in flight plus the pairs they left running

ASSUME MonitoringAssumption == MaxStarts \in Nat

VARIABLES
  registered,  \* registered[i] : keys of object i's activeMonitors
  live,        \* live[i][d]    : running interval pairs object i set for d
  asked,       \* asked[d]      : start requests past the map test
  cleared      \* cleared[d]    : start requests past the status test

monitorVars == <<registered, live, asked, cleared>>

Monitors == {"orchestrator", "router", "rollback"}

MonitorType ==
  /\ registered \in [Monitors -> SUBSET Deployments]
  /\ live \in [Monitors -> [Deployments -> Nat]]
  /\ asked \in [Deployments -> Nat]
  /\ cleared \in [Deployments -> Nat]

MonitorInit ==
  /\ registered = [i \in Monitors |-> {}]
  /\ live = [i \in Monitors |-> [d \in Deployments |-> 0]]
  /\ asked = [d \in Deployments |-> 0]
  /\ cleared = [d \in Deployments |-> 0]

(* mutant: only the existence of the row is tested *)
CanMonitorAny(d) == Present(d)

(* the status test of startMonitoring, on the row it has read *)
CanMonitor(d) == status[d] = "active"

(* setInterval twice and Map.set, which overwrites an earlier handle *)
SetMonitor(i, d) ==
  /\ registered' = [registered EXCEPT ![i] = @ \cup {d}]
  /\ live' = [live EXCEPT ![i][d] = @ + 1]

(* stopMonitoring: only what the map still refers to is cleared *)
StopMonitoring(i, d) ==
  /\ registered' = [registered EXCEPT ![i] = @ \ {d}]
  /\ live' = [live EXCEPT ![i][d] = IF d \in registered[i] THEN @ - 1 ELSE @]

(* A process that goes down takes every object's intervals with it. *)
ForgetMonitors ==
  /\ registered' = [i \in Monitors |-> {}]
  /\ live' = [i \in Monitors |-> [d \in Deployments |-> 0]]
  /\ asked' = [d \in Deployments |-> 0]
  /\ cleared' = [d \in Deployments |-> 0]

------------------------------------------------------------------------------
(* POST /:id/monitoring/start on the router's object: the map is tested     *)
(* first, the row is read next, the map is written last.                    *)
StartAsk(d) ==
  /\ d \notin registered["router"]
  /\ asked[d] + cleared[d] + live["router"][d] < MaxStarts
  /\ asked' = [asked EXCEPT ![d] = @ + 1]
  /\ UNCHANGED <<storeVars, registered, live, cleared>>

StartRead(d) ==
  /\ asked[d] > 0
  /\ asked' = [asked EXCEPT ![d] = @ - 1]
  /\ cleared' = [cleared EXCEPT ![d] = IF CanMonitor(d) THEN @ + 1 ELSE @]
  /\ UNCHANGED <<storeVars, registered, live>>

StartSet(d) ==
  /\ cleared[d] > 0
  /\ cleared' = [cleared EXCEPT ![d] = @ - 1]
  /\ SetMonitor("router", d)
  /\ UNCHANGED <<storeVars, asked>>

(* POST /:id/monitoring/stop *)
StopRequest(d) ==
  /\ d \in registered["router"]
  /\ StopMonitoring("router", d)
  /\ UNCHANGED <<storeVars, asked, cleared>>

(* A running interval finds a breach bad enough for a critical alert.  Only *)
(* the existence of the row is tested, not its status.                      *)
CheckSLOs(i, d) ==
  /\ live[i][d] > 0
  /\ criticals[d] < MaxCriticals
  /\ CreateCriticalAlert(d)
  /\ UNCHANGED <<status, strategy, traffic, rbRow, rbOf, monitorVars>>

(* PUT /alerts/:alertId/acknowledge and /resolve *)
AlertRequest(d) ==
  /\ CloseAlert(d)
  /\ UNCHANGED <<status, strategy, traffic, rbRow, rbOf, monitorVars>>

MonitoringNext(d) ==
  \/ StartAsk(d) \/ StartRead(d) \/ StartSet(d) \/ StopRequest(d)
  \/ \E i \in Monitors : CheckSLOs(i, d)
  \/ AlertRequest(d)
=============================================================================
