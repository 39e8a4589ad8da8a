--------------------------- MODULE RollbackService ---------------------------
(***************************************************************************)
(* RollbackService: executeRollback checks, inserts and returns while      *)
(* performRollback goes on alone; cancelRollback only rewrites the row.    *)
(* rpc[r] is where operation r is; one action lies between two awaits.     *)
(***************************************************************************)
EXTENDS MonitoringService

CONSTANTS
  HealthCheckRetries,  \* config.healthCheckRetries
  Cancellable          \* the operations an SRE may try to cancel

ASSUME RollbackAssumption ==
  /\ HealthCheckRetries \in Nat \ {0}
  /\ Cancellable \subseteq Rollbacks

VARIABLES
  rpc,         \* rpc[r]      : where executeRollback/performRollback of r is
  tries,       \* tries[r]    : failed attempts of verifyRollbackSuccess
  cancelling,  \* cancelling  : cancel requests that have read a live row
  cancelled    \* cancelled   : operations whose user was told "cancelled"

rollbackVars == <<rpc, tries, cancelling, cancelled>>

RollbackPC == {"none", "checked", "begin", "mark", "read", "away", "restore",
               "verify", "settle", "complete", "restart",
               "fail", "failRow", "refail", "done", "refused", "lost"}

(* performRollback has been started and has not come to its end *)
Performing == {"begin", "mark", "read", "away", "restore", "verify", "settle",
               "complete", "restart", "fail", "failRow", "refail"}

RollbackType ==
  /\ rpc \in [Rollbacks -> RollbackPC]
  /\ tries \in [Rollbacks -> 0..HealthCheckRetries]
  /\ cancelling \in SUBSET Rollbacks
  /\ cancelled \in SUBSET Rollbacks

RollbackInit ==
  /\ rpc = [r \in Rollbacks |-> "none"]
  /\ tries = [r \in Rollbacks |-> 0]
  /\ cancelling = {}
  /\ cancelled = {}

Goto(r, at) == rpc' = [rpc EXCEPT ![r] = at]
StoreOnly(v) == UNCHANGED <<monitorVars, tries, cancelling, cancelled, v>>

(* mutant: only a rollback under way is refused *)
CanRollbackAny(d) == status[d] \notin {"absent", "rolling_back"}

(* executeRollback's status guard, on the row it has read *)
CanRollback(d) == status[d] \in {"active", "failed"}

------------------------------------------------------------------------------
(* executeRollback reads the row; the INSERT comes later and does not look  *)
(* at the status again.                                                     *)
RollbackRequest(r) ==
  /\ rpc[r] = "none"
  /\ CanRollback(rbOf[r])
  /\ Goto(r, "checked")
  /\ UNCHANGED <<storeVars, monitorVars, tries, cancelling, cancelled>>

RollbackInsert(r) ==
  /\ rpc[r] = "checked"
  /\ \/ /\ CreateRollback(r)
        /\ Goto(r, "begin")
     \/ /\ ~Present(rbOf[r])
        /\ Goto(r, "refused")
        /\ UNCHANGED rbRow
  /\ StoreOnly(<<status, strategy, traffic, criticals, rbOf>>)

RollbackBegin(r) ==
  /\ rpc[r] = "begin"
  /\ UpdateRollbackStatus(r, "in_progress")
  /\ Goto(r, "mark")
  /\ StoreOnly(<<status, strategy, traffic, criticals, rbOf>>)

(* mutant: the deployment keeps its status *)
RollbackMarkSilent(r) ==
  /\ rpc[r] = "mark"
  /\ Goto(r, "read")
  /\ StoreOnly(storeVars)

RollbackMark(r) ==
  /\ rpc[r] = "mark"
  /\ UpdateDeploymentStatus(rbOf[r], "rolling_back")
  /\ Goto(r, "read")
  /\ StoreOnly(<<strategy, traffic, criticals, rbRow, rbOf>>)

(* stopMonitoring on the service's own object, then the row is read again   *)
RollbackRead(r) ==
  /\ rpc[r] = "read"
  /\ StopMonitoring("rollback", rbOf[r])
  /\ Goto(r, IF ~Present(rbOf[r]) THEN "fail"
             ELSE IF strategy[rbOf[r]] \in ShiftingStrategy THEN "away"
             ELSE "verify")
  /\ UNCHANGED <<storeVars, asked, cleared, tries, cancelling, cancelled>>

(* executeTrafficShift: the INSERT throws when the deployment is gone       *)
TrafficShift(r, p, next) ==
  /\ \/ CreateTrafficSplit(rbOf[r], p) /\ Goto(r, next)
     \/ ~Present(rbOf[r]) /\ Goto(r, "fail") /\ UNCHANGED traffic
  /\ StoreOnly(<<status, strategy, criticals, rbRow, rbOf>>)

RollbackAway(r) == rpc[r] = "away" /\ TrafficShift(r, 0, "restore")
RollbackRestore(r) == rpc[r] = "restore" /\ TrafficShift(r, 100, "verify")

VerifyPasses(r) ==
  /\ rpc[r] = "verify"
  /\ Goto(r, "settle")
  /\ UNCHANGED <<storeVars, monitorVars, tries, cancelling, cancelled>>

VerifyFails(r) ==
  /\ rpc[r] = "verify"
  /\ tries' = [tries EXCEPT ![r] = @ + 1]
  /\ Goto(r, IF tries[r] + 1 < HealthCheckRetries THEN "verify" ELSE "fail")
  /\ UNCHANGED <<storeVars, monitorVars, cancelling, cancelled>>

RollbackSettle(r) ==
  /\ rpc[r] = "settle"
  /\ UpdateDeploymentStatus(rbOf[r], "rolled_back")
  /\ Goto(r, "complete")
  /\ StoreOnly(<<strategy, traffic, criticals, rbRow, rbOf>>)

RollbackComplete(r) ==
  /\ rpc[r] = "complete"
  /\ UpdateRollbackStatus(r, "completed")
  /\ Goto(r, "restart")
  /\ StoreOnly(<<status, strategy, traffic, criticals, rbOf>>)

(* startMonitoring throws unless the row it reads is active                 *)
RollbackRestart(r) ==
  /\ rpc[r] = "restart"
  /\ LET d == rbOf[r]
         known == d \in registered["rollback"]
     IN /\ Goto(r, IF known \/ CanMonitor(d) THEN "done" ELSE "fail")
        /\ IF ~known /\ CanMonitor(d) THEN SetMonitor("rollback", d)
                                      ELSE UNCHANGED <<registered, live>>
  /\ UNCHANGED <<storeVars, asked, cleared, tries, cancelling, cancelled>>

(* mutant: the catch block forgets its own row *)
RollbackFailRowSilent(r) ==
  /\ rpc[r] \in {"failRow", "refail"}
  /\ Goto(r, IF rpc[r] = "failRow" THEN "refail" ELSE "done")
  /\ StoreOnly(storeVars)

(* the catch block of performRollback: both rows, then the error goes on    *)
RollbackFail(r) ==
  /\ rpc[r] = "fail"
  /\ UpdateDeploymentStatus(rbOf[r], "failed")
  /\ Goto(r, "failRow")
  /\ StoreOnly(<<strategy, traffic, criticals, rbRow, rbOf>>)

RollbackFailRow(r) ==
  /\ rpc[r] \in {"failRow", "refail"}   \* catch block, then executeRollback's .catch
  /\ UpdateRollbackStatus(r, "failed")
  /\ Goto(r, IF rpc[r] = "failRow" THEN "refail" ELSE "done")
  /\ StoreOnly(<<status, strategy, traffic, criticals, rbOf>>)

------------------------------------------------------------------------------
(* cancelRollback: the row is read, then written whatever it has become     *)
CancelRequest(r) ==
  /\ r \in Cancellable
  /\ rbRow[r] \in {"pending", "in_progress"}
  /\ r \notin cancelling
  /\ cancelling' = cancelling \cup {r}
  /\ UNCHANGED <<storeVars, monitorVars, rpc, tries, cancelled>>

CancelWrite(r) ==
  /\ r \in cancelling
  /\ UpdateRollbackStatus(r, "failed")
  /\ cancelling' = cancelling \ {r}
  /\ cancelled' = cancelled \cup {r}
  /\ UNCHANGED <<status, strategy, traffic, criticals, rbOf, monitorVars, rpc, tries>>

(* A process that goes down leaves the rows as they are. *)
ForgetRollbacks ==
  /\ rpc' = [r \in Rollbacks |-> IF rpc[r] \in Performing \cup {"checked"}
                                 THEN "lost" ELSE rpc[r]]
  /\ cancelling' = {}
  /\ UNCHANGED <<tries, cancelled>>

PerformRollback(r) ==
  \/ RollbackInsert(r) \/ RollbackBegin(r) \/ RollbackMark(r) \/ RollbackRead(r)
  \/ RollbackAway(r) \/ RollbackRestore(r) \/ VerifyPasses(r) \/ VerifyFails(r)
  \/ RollbackSettle(r) \/ RollbackComplete(r) \/ RollbackRestart(r)
  \/ RollbackFail(r) \/ RollbackFailRow(r)

RollbackNext(r) ==
  \/ RollbackRequest(r) \/ PerformRollback(r) \/ CancelRequest(r) \/ CancelWrite(r)
=============================================================================
