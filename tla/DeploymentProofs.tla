-------------------------- MODULE DeploymentProofs --------------------------
(***************************************************************************)
(* Proofs about DeploymentSystem for every set of deployments and          *)
(* rollbacks and every value of the bounds.                                *)
(*                                                                         *)
(* Argument: until the orchestration of a deployment has written "active"  *)
(* or "failed", its row is pending or deploying (RolloutStatus).  A        *)
(* rollback and a monitor start from a row that is active or failed, so    *)
(* they begin only after the rollout has ended (RolloutAlone); from there  *)
(* on nothing writes "active" again.  Traffic (TrafficInv): a rollout that *)
(* splits traffic is about to activate a deployment only once it has all   *)
(* of it, and a rollback moves it only while the row is not active.        *)
(***************************************************************************)
EXTENDS DeploymentSystem, TLAPS

NotRolledOut == RollingOut \cup {"idle"}

RolloutStatus ==
  \A d \in Deployments :
    /\ opc[d] = "idle" => status[d] = "absent"
    /\ opc[d] = "created" => status[d] \in {"pending", "absent"}
    /\ opc[d] \in {"deploy", "shift", "hold", "activate"} =>
         status[d] \in {"deploying", "absent"}

RolloutAlone ==
  /\ \A r \in Rollbacks :
       rpc[r] \in Performing \cup {"checked"} => opc[rbOf[r]] \notin NotRolledOut
  /\ \A d \in Deployments : opc[d] \in NotRolledOut =>
       /\ cleared[d] = 0
       /\ criticals[d] = 0
       /\ \A i \in Monitors : live[i][d] = 0

(* verifyRollbackSuccess starts its count at zero and stops at the limit. *)
VerifyBounded ==
  \A r \in Rollbacks :
    /\ rpc[r] \in {"none", "checked", "begin", "mark", "read", "away", "restore"} =>
         tries[r] = 0
    /\ rpc[r] = "verify" => tries[r] < HealthCheckRetries

(* A deployment no SRE has split by hand has all its traffic when it is     *)
(* activated and while it is active; a rollback that takes it away has      *)
(* marked the deployment before.                                            *)
TrafficInv ==
  /\ \A d \in Deployments \ split :
       /\ status[d] # "absent" /\ strategy[d] \in ShiftingStrategy
       /\ opc[d] = "activate" \/ status[d] = "active"
       => traffic[d] = 100
  /\ \A r \in Rollbacks :
       rpc[r] \in {"read", "away", "restore"} => status[rbOf[r]] # "active"

(* The inductive invariant of the type and rollout theorems. *)
IInv ==
  /\ TypeOK
  /\ RegisteredIsLive
  /\ RolloutStatus
  /\ RolloutAlone
  /\ VerifyBounded

(* The initial state: no row has left `pending', nothing is registered, nothing
   is queued, so every part of IInv holds. *)
LEMMA InitInvariant == Init => IInv
  BY StoreAssumption, RollbackAssumption DEF StoreAssumption, RollbackAssumption,
     VerifyBounded, Init, StoreInit, MonitorInit, RollbackInit,
     OrchestratorInit, IInv, TypeOK, StoreType, MonitorType, RollbackType, OrchestratorType,
     RegisteredIsLive, RolloutStatus, RolloutAlone,
     NotRolledOut, RollingOut, Performing, Percentage, Monitors, RollbackPC,
     OrchestratorPC, DeploymentStatus, RollbackStatus, DeploymentStrategy

(* The next canary step is a percentage and moves some traffic. *)
LEMMA NextTrafficRange ==
  ASSUME NEW d \in Deployments, progress[d] \in Nat
  PROVE  NextTraffic(d) \in 1..100
  BY OrchestratorAssumption DEF OrchestratorAssumption, NextTraffic, Lesser

(* A step of executeDeploymentStrategy keeps the invariant. *)
LEMMA OrchestrationKeeps ==
  ASSUME NEW d \in Deployments, IInv, OrchestrationStep(d)
  PROVE  IInv'
  <1> USE DEF IInv, TypeOK, StoreType, MonitorType, RollbackType, OrchestratorType,
        RegisteredIsLive, RolloutStatus, RolloutAlone, VerifyBounded, NotRolledOut,
        RollingOut, Performing, Percentage, Monitors, RollbackPC, OrchestratorPC,
        DeploymentStatus, RollbackStatus, DeploymentStrategy, Present, storeVars,
        monitorVars, rollbackVars, orchestratorVars
  <1>1. CASE Orchestrate(d)
    BY <1>1 DEF OrchestrationStep, Orchestrate, CreateDeployment, Step
  <1>2. CASE BeginDeploying(d)
    BY <1>2 DEF OrchestrationStep, BeginDeploying, UpdateDeploymentStatus, Step
  <1>3. CASE HealthChecksPass(d)
    BY <1>3, OrchestratorAssumption DEF OrchestrationStep, HealthChecksPass,
       Step, NextReplicas, Lesser
  <1>4. CASE HealthChecksTimeOut(d)
    BY <1>4 DEF OrchestrationStep, HealthChecksTimeOut, Step
  <1>5. CASE ShiftTraffic(d)
    <2>1. progress[d] \in Nat /\ NextTraffic(d) \in 1..100
      BY NextTrafficRange
    <2>2. traffic' \in [Deployments -> Percentage] /\ progress' \in [Deployments -> Nat]
      <3>1. NextTraffic(d) \in Percentage /\ NextTraffic(d) \in Nat /\ 100 \in Percentage
        BY <2>1
      <3>2. \/ UNCHANGED traffic
            \/ \E p \in Percentage : traffic' = [traffic EXCEPT ![d] = p]
        BY <1>5, <3>1 DEF ShiftTraffic, CreateTrafficSplit
      <3>3. UNCHANGED progress \/ progress' = [progress EXCEPT ![d] = NextTraffic(d)]
        BY <1>5 DEF ShiftTraffic
      <3>4. traffic' \in [Deployments -> Percentage]
        BY <3>2
      <3>5. progress' \in [Deployments -> Nat]
        BY <3>1, <3>3
      <3> QED
        BY <3>4, <3>5
    <2>3. \E at \in {"hold", "activate", "fail"} : Step(d, at)
      BY <1>5 DEF ShiftTraffic
    <2>4. opc[d] = "shift" /\ UNCHANGED <<status, strategy, criticals, rbRow, rbOf,
             monitorVars, rethrown, rollbackVars, deleting, crashes, split>>
      BY <1>5 DEF OrchestrationStep, ShiftTraffic
    <2>5. UNCHANGED <<rpc, rbOf, tries, live, cleared>>
      BY <2>4
    <2>6. opc' \in [Deployments -> OrchestratorPC]
      BY <2>3, <2>4 DEF Step
    <2>7. \A e \in Deployments : opc'[e] \in NotRolledOut => opc[e] \in NotRolledOut
      BY <2>3, <2>4 DEF Step
    <2> QED
      BY <2>2, <2>3, <2>4, <2>5, <2>6, <2>7 DEF Step
  <1>6. CASE PromoteOrHalt(d)
    BY <1>6 DEF OrchestrationStep, PromoteOrHalt, Step
  <1>7. CASE Activate(d)
    BY <1>7 DEF OrchestrationStep, Activate, UpdateDeploymentStatus, Step
  <1>8. CASE MonitorRead(d)
    BY <1>8 DEF OrchestrationStep, MonitorRead, CanMonitor, Step
  <1>9. CASE MonitorRegister(d)
    BY <1>9 DEF OrchestrationStep, MonitorRegister, SetMonitor, Step
  <1>10. CASE MarkFailed(d)
    BY <1>10 DEF OrchestrationStep, MarkFailed, UpdateDeploymentStatus, Step
  <1>11. CASE RaiseFailureAlert(d)
    BY <1>11, StoreAssumption DEF OrchestrationStep, RaiseFailureAlert,
       CreateCriticalAlert, Step
  <1>12. CASE FailureAlertRefused(d)
    BY <1>12 DEF OrchestrationStep, FailureAlertRefused, Step
  <1>13. CASE AutomaticRollback(d)
    BY <1>13 DEF OrchestrationStep, AutomaticRollback, Step
  <1> QED
    BY <1>1, <1>2, <1>3, <1>4, <1>5, <1>6, <1>7, <1>8, <1>9, <1>10, <1>11,
       <1>12, <1>13 DEF OrchestrationStep, ExecuteDeploymentStrategy

(* A step of a monitor or of a request to it keeps the invariant. *)
LEMMA MonitoringKeeps ==
  ASSUME NEW d \in Deployments, IInv, MonitoringStep(d)
  PROVE  IInv'
  <1> USE DEF IInv, TypeOK, StoreType, MonitorType, RollbackType, OrchestratorType,
        RegisteredIsLive, RolloutStatus, RolloutAlone, VerifyBounded, NotRolledOut,
        RollingOut, Performing, Percentage, Monitors, RollbackPC, OrchestratorPC,
        DeploymentStatus, RollbackStatus, DeploymentStrategy, Present, storeVars,
        monitorVars, rollbackVars, orchestratorVars
  <1>1. CASE StartAsk(d)
    BY <1>1 DEF MonitoringStep, StartAsk
  <1>2. CASE StartRead(d)
    BY <1>2 DEF MonitoringStep, StartRead, CanMonitor
  <1>3. CASE StartSet(d)
    BY <1>3 DEF MonitoringStep, StartSet, SetMonitor
  <1>4. CASE StopRequest(d)
    BY <1>4 DEF MonitoringStep, StopRequest, StopMonitoring
  <1>5. CASE \E i \in Monitors : CheckSLOs(i, d)
    BY <1>5, StoreAssumption DEF MonitoringStep, CheckSLOs, CreateCriticalAlert
  <1>6. CASE AlertRequest(d)
    BY <1>6, StoreAssumption DEF MonitoringStep, AlertRequest, CloseAlert
  <1> QED
    BY <1>1, <1>2, <1>3, <1>4, <1>5, <1>6 DEF MonitoringStep, MonitoringNext

(* A step of a rollback or of a request to cancel it keeps the invariant. *)
LEMMA RollbackKeeps ==
  ASSUME NEW r \in Rollbacks, IInv, RollbackStep(r)
  PROVE  IInv'
  <1> USE DEF IInv, TypeOK, StoreType, MonitorType, RollbackType, OrchestratorType,
        RegisteredIsLive, RolloutStatus, RolloutAlone, VerifyBounded, NotRolledOut,
        RollingOut, Performing, Percentage, Monitors, RollbackPC, OrchestratorPC,
        DeploymentStatus, RollbackStatus, DeploymentStrategy, Present, storeVars,
        monitorVars, rollbackVars, orchestratorVars
  <1>1. CASE RollbackRequest(r)
    BY <1>1 DEF RollbackStep, RollbackRequest, Goto, CanRollback
  <1>2. CASE RollbackInsert(r)
    BY <1>2 DEF RollbackStep, RollbackInsert, Goto, CreateRollback, StoreOnly
  <1>3. CASE RollbackBegin(r)
    BY <1>3 DEF RollbackStep, RollbackBegin, Goto, UpdateRollbackStatus, StoreOnly
  <1>4. CASE RollbackMark(r)
    BY <1>4 DEF RollbackStep, RollbackMark, Goto, UpdateDeploymentStatus, StoreOnly
  <1>5. CASE RollbackRead(r)
    <2>1. PICK at \in {"fail", "away", "verify"} : rpc' = [rpc EXCEPT ![r] = at]
      BY <1>5 DEF RollbackRead, Goto
    <2>2. rpc[r] = "read" /\ UNCHANGED <<storeVars, asked, cleared, tries, cancelling,
             cancelled, opc, progress, rethrown, deleting, crashes, split>>
      BY <1>5 DEF RollbackStep, RollbackRead
    <2>3. /\ registered' \in [Monitors -> SUBSET Deployments]
          /\ live' \in [Monitors -> [Deployments -> Nat]]
          /\ RegisteredIsLive'
          /\ \A i \in Monitors, d \in Deployments : live'[i][d] <= live[i][d]
      BY <1>5 DEF RollbackRead, StopMonitoring
    <2>4. RolloutAlone'
      BY <2>1, <2>2, <2>3
    <2>5. VerifyBounded' /\ RolloutStatus'
      BY <2>1, <2>2, RollbackAssumption
    <2> QED
      BY <2>1, <2>2, <2>3, <2>4, <2>5
  <1>6. CASE RollbackAway(r) \/ RollbackRestore(r)
    <2>1. PICK at \in {"fail", "restore", "verify"} : rpc' = [rpc EXCEPT ![r] = at]
      BY <1>6 DEF RollbackAway, RollbackRestore, TrafficShift, Goto
    <2>2. rpc[r] \in {"away", "restore"} /\ UNCHANGED <<status, strategy, criticals,
             rbRow, rbOf, monitorVars, tries, cancelling, cancelled, opc, progress,
             rethrown, deleting, crashes, split>>
      BY <1>6 DEF RollbackStep, RollbackAway, RollbackRestore, TrafficShift, StoreOnly
    <2>3. traffic' \in [Deployments -> Percentage]
      BY <1>6 DEF RollbackAway, RollbackRestore, TrafficShift, CreateTrafficSplit
    <2>4. RolloutAlone'
      BY <2>1, <2>2
    <2>5. VerifyBounded' /\ RolloutStatus' /\ RegisteredIsLive'
      BY <2>1, <2>2, RollbackAssumption
    <2> QED
      BY <2>1, <2>2, <2>3, <2>4, <2>5
  <1>8. CASE VerifyPasses(r)
    BY <1>8 DEF RollbackStep, VerifyPasses, Goto
  <1>9. CASE VerifyFails(r)
    BY <1>9, RollbackAssumption DEF RollbackAssumption, RollbackStep, VerifyFails, Goto
  <1>10. CASE RollbackSettle(r)
    BY <1>10 DEF RollbackStep, RollbackSettle, Goto, UpdateDeploymentStatus, StoreOnly
  <1>11. CASE RollbackComplete(r)
    BY <1>11 DEF RollbackStep, RollbackComplete, Goto, UpdateRollbackStatus, StoreOnly
  <1>12. CASE RollbackRestart(r)
    <2>1. rbOf[r] \in Deployments /\ opc[rbOf[r]] \notin NotRolledOut
      BY <1>12 DEF RollbackRestart
    <2>2. CASE rbOf[r] \notin registered["rollback"] /\ CanMonitor(rbOf[r])
      <3>1. SetMonitor("rollback", rbOf[r])
        BY <1>12, <2>2 DEF RollbackRestart
      <3>2. live'["rollback"][rbOf[r]] = live["rollback"][rbOf[r]] + 1
        BY <2>1, <3>1 DEF SetMonitor
      <3>3. live' \in [Monitors -> [Deployments -> Nat]]
        BY <2>1, <3>1 DEF SetMonitor
      <3>4. \A i \in Monitors, d \in Deployments :
               d # rbOf[r] => live'[i][d] = live[i][d]
        BY <2>1, <3>1 DEF SetMonitor
      <3> QED
        BY <1>12, <2>1, <2>2, <3>1, <3>2, <3>3, <3>4
        DEF RollbackStep, RollbackRestart, Goto, SetMonitor
    <2>3. CASE ~(rbOf[r] \notin registered["rollback"] /\ CanMonitor(rbOf[r]))
      <3>1. UNCHANGED <<registered, live>>
        BY <1>12, <2>3 DEF RollbackRestart
      <3> QED
        BY <1>12, <3>1 DEF RollbackStep, RollbackRestart, Goto
    <2> QED
      BY <2>2, <2>3
  <1>13. CASE RollbackFail(r)
    BY <1>13 DEF RollbackStep, RollbackFail, Goto, UpdateDeploymentStatus, StoreOnly
  <1>14. CASE RollbackFailRow(r)
    BY <1>14 DEF RollbackStep, RollbackFailRow, Goto, UpdateRollbackStatus, StoreOnly
  <1>15. CASE CancelRequest(r)
    BY <1>15 DEF RollbackStep, CancelRequest
  <1>16. CASE CancelWrite(r)
    BY <1>16 DEF RollbackStep, CancelWrite, UpdateRollbackStatus
  <1> QED
    BY <1>1, <1>2, <1>3, <1>4, <1>5, <1>6, <1>8, <1>9, <1>10, <1>11, <1>12,
       <1>13, <1>14, <1>15, <1>16 DEF RollbackStep, RollbackNext, PerformRollback

(* The process going down keeps the invariant. *)
LEMMA ProcessDownKeeps ==
  ASSUME IInv, ProcessDown, crashes' \in Nat
  PROVE  IInv'
  BY DEF ProcessDown, ForgetMonitors, ForgetRollbacks, ForgetOrchestrations, IInv,
     TypeOK, StoreType, MonitorType, RollbackType, OrchestratorType, RegisteredIsLive,
     RolloutStatus, RolloutAlone, VerifyBounded, NotRolledOut, RollingOut, Performing,
     Monitors, RollbackPC, OrchestratorPC, Orchestrating, storeVars

(* The router's other requests keep the invariant. *)
LEMMA RequestKeeps ==
  ASSUME NEW d \in Deployments, IInv,
         \/ DeleteRequest(d) \/ DeleteRow(d)
         \/ \E p \in ManualSplits : PostTrafficSplit(d, p)
  PROVE  IInv'
  <1> USE DEF IInv, TypeOK, StoreType, MonitorType, RollbackType, OrchestratorType,
        RegisteredIsLive, RolloutStatus, RolloutAlone, VerifyBounded, NotRolledOut,
        RollingOut, Performing, Percentage, Monitors, RollbackPC, OrchestratorPC,
        DeploymentStatus, RollbackStatus, DeploymentStrategy, Present, storeVars,
        monitorVars, rollbackVars, orchestratorVars
  <1>1. CASE DeleteRequest(d)
    BY <1>1 DEF DeleteRequest, StopMonitoring
  <1>2. CASE DeleteRow(d)
    BY <1>2, StoreAssumption DEF DeleteRow, DeleteDeployment
  <1>3. CASE \E p \in ManualSplits : PostTrafficSplit(d, p)
    BY <1>3, SystemAssumption DEF PostTrafficSplit, CreateTrafficSplit
  <1> QED
    BY <1>1, <1>2, <1>3

(* Every step keeps the invariant. *)
LEMMA NextKeeps == IInv /\ [Next]_vars => IInv'
  <1> SUFFICES ASSUME IInv, [Next]_vars PROVE IInv'
    OBVIOUS
  <1>1. ASSUME NEW d \in Deployments, UnhandledRejection(d) PROVE IInv'
    <2>1. crashes' \in Nat
      BY <1>1 DEF UnhandledRejection, IInv, TypeOK
    <2> QED
      BY <1>1, <2>1, ProcessDownKeeps DEF UnhandledRejection
  <1>2. CASE Crash
    <2>1. crashes' \in Nat
      BY <1>2 DEF Crash, IInv, TypeOK
    <2> QED
      BY <1>2, <2>1, ProcessDownKeeps DEF Crash
  <1>3. CASE UNCHANGED vars
    BY <1>3 DEF vars, storeVars, monitorVars, rollbackVars, orchestratorVars, IInv,
       TypeOK, StoreType, MonitorType, RollbackType, OrchestratorType,
       RegisteredIsLive, RolloutStatus, RolloutAlone, VerifyBounded
  <1> QED
    BY <1>1, <1>2, <1>3, OrchestrationKeeps, MonitoringKeeps, RollbackKeeps,
       RequestKeeps DEF Next, Running

(* IInv holds throughout: the four families of actions (DeploymentOrchestrator's
   rollouts, MonitoringService's monitors, RollbackService's operations, the
   routes' requests) each preserve it. *)
THEOREM Invariance == Spec => []IInv
  BY InitInvariant, NextKeeps, PTL DEF Spec

(* TypeOK: every variable of the deployment service keeps its type. *)
THEOREM TypeCorrect == Spec => []TypeOK
  <1>1. IInv => TypeOK
    BY DEF IInv
  <1> QED
    BY <1>1, Invariance, PTL

(* RolloutExcludesRollback: the orchestration and performRollback never     *)
(* work on the traffic of one deployment at the same time.                  *)
THEOREM RolloutRollbackExclusion == Spec => []RolloutExcludesRollback
  <1>1. IInv => RolloutExcludesRollback
    BY DEF IInv, RolloutAlone, RolloutExcludesRollback, NotRolledOut
  <1> QED
    BY <1>1, Invariance, PTL

(* RolloutSeesNoAlert: the alert gate of executeCanaryDeployment never      *)
(* finds an alert.                                                          *)
THEOREM CanaryGateIsBlind == Spec => []RolloutSeesNoAlert
  <1>1. IInv => RolloutSeesNoAlert
    BY DEF IInv, RolloutAlone, RolloutSeesNoAlert, NotRolledOut
  <1> QED
    BY <1>1, Invariance, PTL

(* ActivatedOnlyByRollout: of all the unconditional status writes only the  *)
(* one that ends the rollout makes a deployment active.                     *)
THEOREM ActivationOnlyByRollout == Spec => ActivatedOnlyByRollout
  <1> DEFINE Activates(d) == status[d] # "active" /\ status'[d] = "active"
             Rightly(d) == status[d] = "deploying" /\ opc[d] = "activate"
  <1>1. ASSUME IInv, [Next]_vars, NEW d \in Deployments, Activates(d)
        PROVE  Rightly(d)
    <2> USE DEF storeVars
    <2>1. /\ status \in [Deployments -> DeploymentStatus \cup {"absent"}]
          /\ rbOf \in [Rollbacks -> Deployments]
      BY <1>1 DEF IInv, TypeOK, StoreType
    <2>2. ASSUME NEW e \in Deployments, OrchestrationStep(e) PROVE Rightly(d)
      <3>1. CASE Activate(e)
        <4>1. e = d /\ status[d] # "absent"
          BY <1>1, <2>1, <3>1 DEF Activate, UpdateDeploymentStatus, Present
        <4> QED
          BY <1>1, <3>1, <4>1 DEF Activate, IInv, RolloutStatus
      <3>2. CASE Orchestrate(e) \/ BeginDeploying(e) \/ MarkFailed(e)
        BY <1>1, <2>1, <3>2 DEF Orchestrate, CreateDeployment, BeginDeploying,
           MarkFailed, UpdateDeploymentStatus
      <3>3. CASE UNCHANGED status
        BY <1>1, <3>3
      <3> QED
        BY <2>2, <3>1, <3>2, <3>3 DEF OrchestrationStep, ExecuteDeploymentStrategy,
           HealthChecksPass, HealthChecksTimeOut, ShiftTraffic, PromoteOrHalt,
           MonitorRead, MonitorRegister, RaiseFailureAlert, FailureAlertRefused,
           AutomaticRollback
    <2>3. ASSUME NEW e \in Deployments, MonitoringStep(e) PROVE UNCHANGED status
      BY <2>3 DEF MonitoringStep, MonitoringNext, StartAsk, StartRead, StartSet,
         StopRequest, CheckSLOs, AlertRequest
    <2>4. ASSUME NEW r \in Rollbacks, RollbackStep(r) PROVE ~Activates(d)
      <3>1. CASE RollbackMark(r) \/ RollbackSettle(r) \/ RollbackFail(r)
        BY <2>1, <3>1 DEF RollbackMark, RollbackSettle, RollbackFail,
           UpdateDeploymentStatus
      <3>2. CASE UNCHANGED status
        BY <3>2
      <3> QED
        BY <2>4, <3>1, <3>2 DEF RollbackStep, RollbackNext, PerformRollback,
           RollbackRequest, RollbackInsert, RollbackBegin, RollbackRead, RollbackAway,
           RollbackRestore, TrafficShift, VerifyPasses, VerifyFails, RollbackComplete,
           RollbackRestart, RollbackFailRow, CancelRequest, CancelWrite, StoreOnly
    <2>5. ASSUME NEW e \in Deployments,
                 \/ DeleteRequest(e) \/ DeleteRow(e) \/ UnhandledRejection(e)
                 \/ \E p \in ManualSplits : PostTrafficSplit(e, p)
          PROVE  ~Activates(d)
      BY <2>1, <2>5 DEF DeleteRequest, DeleteRow, DeleteDeployment,
         UnhandledRejection, ProcessDown, PostTrafficSplit
    <2>6. CASE Crash \/ UNCHANGED vars
      BY <1>1, <2>6 DEF Crash, ProcessDown, vars
    <2> QED
      BY <1>1, <2>2, <2>3, <2>4, <2>5, <2>6 DEF Next, Running
  <1>2. IInv /\ [Next]_vars => [\A d \in Deployments : Activates(d) => Rightly(d)]_vars
    BY <1>1
  <1> QED
    BY <1>2, Invariance, PTL DEF Spec, ActivatedOnlyByRollout

------------------------------------------------------------------------------
(* A step of the rollout: the last shift leads to activate with all of the  *)
(* traffic; other steps neither activate nor shift.                         *)
LEMMA RolloutTraffic ==
  ASSUME NEW d \in Deployments, IInv, TrafficInv, OrchestrationStep(d)
  PROVE  TrafficInv'
  <1> USE DEF Present, storeVars, monitorVars, rollbackVars, orchestratorVars
  <1>1. /\ status \in [Deployments -> DeploymentStatus \cup {"absent"}]
        /\ traffic \in [Deployments -> Percentage] /\ opc \in [Deployments -> OrchestratorPC]
        /\ rbOf \in [Rollbacks -> Deployments] /\ progress \in [Deployments -> Nat]
    BY DEF IInv, TypeOK, StoreType, OrchestratorType
  <1>2. UNCHANGED <<strategy, rpc, rbOf, split>>
    BY DEF OrchestrationStep, Orchestrate, ExecuteDeploymentStrategy, BeginDeploying,
       HealthChecksPass, HealthChecksTimeOut, ShiftTraffic, PromoteOrHalt, Activate,
       MonitorRead, MonitorRegister, MarkFailed, RaiseFailureAlert, FailureAlertRefused,
       AutomaticRollback
  <1>3. \A e \in Deployments \ {d} : status'[e] = status[e] /\ traffic'[e] = traffic[e] /\ opc'[e] = opc[e]
    BY <1>1 DEF OrchestrationStep, Orchestrate, ExecuteDeploymentStrategy, BeginDeploying,
       HealthChecksPass, HealthChecksTimeOut, ShiftTraffic, PromoteOrHalt, Activate,
       MonitorRead, MonitorRegister, MarkFailed, RaiseFailureAlert, FailureAlertRefused,
       AutomaticRollback, Step, CreateDeployment, UpdateDeploymentStatus, CreateTrafficSplit
  <1>4. ASSUME d \notin split, strategy[d] \in ShiftingStrategy, status'[d] # "absent",
               opc'[d] = "activate" \/ status'[d] = "active"
        PROVE  traffic'[d] = 100
    <2>1. CASE ShiftTraffic(d)
      <3>1. CASE opc'[d] = "activate"
        <4>1. NextTraffic(d) \in 1..100
          BY <1>1, NextTrafficRange
        <4> QED
          BY <1>1, <2>1, <3>1, <4>1 DEF ShiftTraffic, CreateTrafficSplit, Step
      <3>2. CASE opc'[d] # "activate"
        BY <1>1, <1>4, <2>1, <3>2 DEF ShiftTraffic, IInv, RolloutStatus
      <3> QED
        BY <3>1, <3>2
    <2>2. CASE Activate(d)
      <3>1. opc[d] = "activate" /\ status[d] # "absent" /\ traffic' = traffic
        BY <1>1, <1>4, <2>2 DEF Activate, UpdateDeploymentStatus
      <3> QED
        BY <1>4, <3>1 DEF TrafficInv
    <2>3. CASE HealthChecksPass(d)
      <3>1. opc[d] = "deploy" /\ status' = status /\ opc'[d] # "activate"
        BY <1>1, <1>4, <2>3 DEF HealthChecksPass, Step, ShiftingStrategy
      <3> QED
        BY <1>4, <3>1 DEF IInv, RolloutStatus
    <2>4. CASE ~ShiftTraffic(d) /\ ~Activate(d) /\ ~HealthChecksPass(d)
      <3>1. traffic' = traffic /\ opc'[d] # "activate"
            /\ (status'[d] = "active" => status[d] = "active")
        BY <1>1, <2>4 DEF OrchestrationStep, Orchestrate, ExecuteDeploymentStrategy,
           BeginDeploying, HealthChecksTimeOut, PromoteOrHalt, MonitorRead, MonitorRegister,
           MarkFailed, RaiseFailureAlert, FailureAlertRefused, AutomaticRollback, Step,
           CreateDeployment, UpdateDeploymentStatus
      <3> QED
        BY <1>4, <3>1 DEF TrafficInv
    <2> QED
      BY <2>1, <2>2, <2>3, <2>4
  <1>5. ASSUME NEW r \in Rollbacks, rpc[r] \in {"read", "away", "restore"}
        PROVE  status'[rbOf[r]] # "active"
    <2>1. opc[rbOf[r]] \notin NotRolledOut /\ status[rbOf[r]] # "active" /\ rbOf[r] \in Deployments
      BY <1>1, <1>5 DEF IInv, RolloutAlone, TrafficInv, Performing
    <2>2. ~Activate(rbOf[r])
      BY <2>1 DEF Activate, NotRolledOut, RollingOut
    <2>3. CASE d = rbOf[r]
      BY <1>1, <2>1, <2>2, <2>3
      DEF OrchestrationStep, Orchestrate, ExecuteDeploymentStrategy,
          BeginDeploying, HealthChecksPass, HealthChecksTimeOut, ShiftTraffic, PromoteOrHalt,
          MonitorRead, MonitorRegister, MarkFailed, RaiseFailureAlert, FailureAlertRefused,
          AutomaticRollback, Step, CreateDeployment, UpdateDeploymentStatus
    <2> QED
      BY <1>3, <2>1, <2>3
  <1> QED
    BY <1>2, <1>3, <1>4, <1>5 DEF TrafficInv

(* A step of a rollback: it marks the row, and only then shifts.            *)
LEMMA RollbackTraffic ==
  ASSUME NEW r \in Rollbacks, IInv, TrafficInv, RollbackStep(r)
  PROVE  TrafficInv'
  <1> USE DEF Present, storeVars, monitorVars, rollbackVars, orchestratorVars
  <1> DEFINE d == rbOf[r]
  <1>1. /\ status \in [Deployments -> DeploymentStatus \cup {"absent"}]
        /\ traffic \in [Deployments -> Percentage] /\ rpc \in [Rollbacks -> RollbackPC]
        /\ rbOf \in [Rollbacks -> Deployments] /\ d \in Deployments
    BY DEF IInv, TypeOK, StoreType, RollbackType
  <1>2. UNCHANGED <<strategy, opc, rbOf, split>>
    BY DEF RollbackStep, RollbackNext, PerformRollback, RollbackRequest, RollbackInsert,
       RollbackBegin, RollbackMark, RollbackRead, RollbackAway, RollbackRestore, TrafficShift,
       VerifyPasses, VerifyFails, RollbackSettle, RollbackComplete, RollbackRestart,
       RollbackFail, RollbackFailRow, CancelRequest, CancelWrite, StoreOnly
  <1>3. /\ \A e \in Deployments \ {d} : status'[e] = status[e] /\ traffic'[e] = traffic[e]
        /\ \A q \in Rollbacks \ {r} : rpc'[q] = rpc[q]
        /\ status'[d] \in {"active", "absent"} => status'[d] = status[d]
    BY <1>1 DEF RollbackStep, RollbackNext, PerformRollback, RollbackRequest, RollbackInsert,
       RollbackBegin, RollbackMark, RollbackRead, RollbackAway, RollbackRestore, TrafficShift,
       VerifyPasses, VerifyFails, RollbackSettle, RollbackComplete, RollbackRestart,
       RollbackFail, RollbackFailRow, CancelRequest, CancelWrite, StoreOnly, Goto,
       UpdateDeploymentStatus, CreateTrafficSplit
  <1>4. ASSUME traffic'[d] # traffic[d]
        PROVE  status'[d] # "active" /\ opc[d] # "activate"
    <2>1. rpc[r] \in {"away", "restore"} /\ status' = status
      BY <1>1, <1>4 DEF RollbackStep, RollbackNext, PerformRollback, RollbackRequest,
         RollbackInsert, RollbackBegin, RollbackMark, RollbackRead, RollbackAway,
         RollbackRestore, TrafficShift, VerifyPasses, VerifyFails, RollbackSettle,
         RollbackComplete, RollbackRestart, RollbackFail, RollbackFailRow, CancelRequest,
         CancelWrite, StoreOnly
    <2>2. opc[d] \notin NotRolledOut
      BY <2>1 DEF IInv, RolloutAlone, Performing
    <2> QED
      BY <2>1, <2>2 DEF TrafficInv, NotRolledOut, RollingOut
  <1>5. ASSUME rpc'[r] \in {"read", "away", "restore"} PROVE status'[d] # "active"
    <2>1. CASE RollbackMark(r)
      BY <1>1, <2>1 DEF RollbackMark, UpdateDeploymentStatus
    <2>2. CASE ~RollbackMark(r)
      <3>1. rpc[r] \in {"read", "away", "restore"}
        BY <1>1, <1>5, <2>2 DEF RollbackStep, RollbackNext, PerformRollback, RollbackRequest,
           RollbackInsert, RollbackBegin, RollbackRead, RollbackAway,
           RollbackRestore, TrafficShift, VerifyPasses, VerifyFails, RollbackSettle,
           RollbackComplete, RollbackRestart, RollbackFail, RollbackFailRow, CancelRequest,
           CancelWrite, StoreOnly, Goto
      <3> QED
        BY <1>3, <3>1 DEF TrafficInv
    <2> QED
      BY <2>1, <2>2
  <1>6. ASSUME NEW e \in Deployments \ split, status'[e] # "absent",
               strategy[e] \in ShiftingStrategy, opc[e] = "activate" \/ status'[e] = "active"
        PROVE  traffic'[e] = 100
    <2>1. traffic'[e] = traffic[e]
      BY <1>3, <1>4, <1>6
    <2>2. opc[e] = "activate" \/ status[e] = "active"
      BY <1>3, <1>6
    <2>3. status[e] # "absent"
      BY <1>1, <1>3, <1>6 DEF RollbackStep, RollbackNext, PerformRollback, RollbackRequest,
         RollbackInsert, RollbackBegin, RollbackMark, RollbackRead, RollbackAway,
         RollbackRestore, TrafficShift, VerifyPasses, VerifyFails, RollbackSettle,
         RollbackComplete, RollbackRestart, RollbackFail, RollbackFailRow, CancelRequest,
         CancelWrite, StoreOnly, Goto, UpdateDeploymentStatus
    <2> QED
      BY <1>6, <2>1, <2>2, <2>3 DEF TrafficInv
  <1>7. \A q \in Rollbacks :
          rpc'[q] \in {"read", "away", "restore"} => status'[rbOf[q]] # "active"
    <2> SUFFICES ASSUME NEW q \in Rollbacks, q # r, rpc'[q] \in {"read", "away", "restore"}
                 PROVE  status'[rbOf[q]] # "active"
      BY <1>5
    <2>1. status[rbOf[q]] # "active" /\ rbOf[q] \in Deployments
      BY <1>1, <1>3 DEF TrafficInv
    <2> QED
      BY <1>3, <2>1
  <1> QED
    BY <1>2, <1>6, <1>7 DEF TrafficInv

(* Every other step leaves statuses and traffic, deletes the row or was a   *)
(* split by hand.                                                           *)
LEMMA OtherTraffic ==
  ASSUME NEW d \in Deployments, IInv, TrafficInv,
         \/ MonitoringStep(d) \/ DeleteRequest(d) \/ DeleteRow(d) \/ UnhandledRejection(d)
         \/ Crash \/ \E p \in ManualSplits : PostTrafficSplit(d, p)
  PROVE  TrafficInv'
  <1> USE DEF storeVars, rollbackVars, orchestratorVars
  <1>1. /\ status \in [Deployments -> DeploymentStatus \cup {"absent"}]
        /\ traffic \in [Deployments -> Percentage]
        /\ rpc \in [Rollbacks -> RollbackPC] /\ rbOf \in [Rollbacks -> Deployments]
    BY DEF IInv, TypeOK, StoreType, RollbackType
  <1>2. CASE MonitoringStep(d)
    <2>1. UNCHANGED <<status, strategy, traffic, rbOf, rpc, opc, split>>
      BY <1>2 DEF MonitoringStep, MonitoringNext, StartAsk, StartRead, StartSet,
         StopRequest, CheckSLOs, AlertRequest
    <2> QED
      BY <2>1 DEF TrafficInv
  <1>3. CASE DeleteRequest(d)
    BY <1>3 DEF DeleteRequest, TrafficInv
  <1>4. CASE DeleteRow(d)
    BY <1>1, <1>4 DEF DeleteRow, DeleteDeployment, TrafficInv
  <1>5. CASE UnhandledRejection(d) \/ Crash
    <2>1. UNCHANGED <<status, strategy, traffic, rbOf, split>>
          /\ ForgetRollbacks /\ ForgetOrchestrations
      BY <1>5 DEF UnhandledRejection, Crash, ProcessDown
    <2>2. \A r \in Rollbacks : rpc'[r] = rpc[r] \/ rpc'[r] = "lost"
      BY <1>1, <2>1 DEF ForgetRollbacks
    <2>3. \A e \in Deployments : opc'[e] # "activate" \/ opc'[e] = opc[e]
      BY <2>1 DEF ForgetOrchestrations, IInv, TypeOK, OrchestratorType
    <2> QED
      BY <2>1, <2>2, <2>3 DEF TrafficInv
  <1>6. CASE \E p \in ManualSplits : PostTrafficSplit(d, p)
    <2>1. /\ \A e \in Deployments \ {d} : traffic'[e] = traffic[e]
          /\ split' = split \cup {d}
          /\ UNCHANGED <<status, strategy, rbOf, rpc, opc>>
      BY <1>1, <1>6 DEF PostTrafficSplit, CreateTrafficSplit
    <2> QED
      BY <2>1 DEF TrafficInv
  <1> QED
    BY <1>2, <1>3, <1>4, <1>5, <1>6

LEMMA NextTraffics == IInv /\ TrafficInv /\ [Next]_vars => TrafficInv'
  <1> SUFFICES ASSUME IInv, TrafficInv, [Next]_vars PROVE TrafficInv'
    OBVIOUS
  <1>1. CASE UNCHANGED vars
    BY <1>1 DEF vars, storeVars, rollbackVars, orchestratorVars, TrafficInv
  <1>2. CASE Crash
    <2>1. CASE Deployments = {}
      BY <1>2, <2>1 DEF Crash, ProcessDown, ForgetRollbacks, TrafficInv, IInv, TypeOK, StoreType
    <2>2. CASE Deployments # {}
      BY <1>2, <2>2, OtherTraffic
    <2> QED
      BY <2>1, <2>2
  <1> QED
    BY <1>1, <1>2, RolloutTraffic, RollbackTraffic, OtherTraffic DEF Next, Running

(* Only a split by hand takes traffic from an active deployment of a        *)
(* strategy that splits it, whatever rollbacks are tried.                   *)
THEOREM ActiveKeepsItsTraffic == Spec => []UnsplitHasAllTraffic
  <1>1. Init => TrafficInv
    BY DEF Init, StoreInit, RollbackInit, OrchestratorInit, TrafficInv
  <1>2. TrafficInv => UnsplitHasAllTraffic
    BY DEF TrafficInv, UnsplitHasAllTraffic
  <1> QED
    BY <1>1, <1>2, NextTraffics, Invariance, PTL DEF Spec
=============================================================================
