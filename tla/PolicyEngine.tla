----------------------------- MODULE PolicyEngine -----------------------------
(***************************************************************************)
(* The policy tables of one model version, the evaluations that fill them  *)
(* and the promotion check that reads them.  evaluatePolicies is a series  *)
(* of awaited statements, each of its own transaction, so the requests     *)
(* interleave statement by statement.  Of a policy only the blocking       *)
(* action counts: a failed condition stores a blocking result.             *)
(***************************************************************************)
EXTENDS Naturals, FiniteSets

CONSTANTS
  Policies,    \* policies
  Requests,    \* calls of evaluatePolicies
  Gates,       \* those made by checkStateTransition, the promotion check
  DryRuns,     \* those with dryRun = true
  None,        \* no request
  Errors,      \* statements may fail
  MaxChanges   \* bound: changes of policies, exceptions and the version

ASSUME PolicyAssumption ==
  /\ Gates \subseteq Requests
  /\ DryRuns \subseteq Requests \ Gates
  /\ None \notin Requests
  /\ Errors \in BOOLEAN
  /\ MaxChanges \in Nat

VARIABLES
  active,      \* active[p]       : policies.status = 'active'
  compliant,   \* compliant[p]    : the version satisfies the conditions of p
  exception,   \* exception[p]    : the policy_exceptions row, of which there is one
  overridden,  \* overridden      : policies whose override was announced, until it expires
  row,         \* row[r][p]       : policy_evaluations.status of the row r inserted
  newest,      \* newest[p]       : the request that inserted the latest row
  violation,   \* violation[r][p] : a blocking result hangs on that row
  pc,          \* pc[r]           : the next statement of r
  policies,    \* policies[r]     : what getActivePolicies returned
  todo,        \* todo[r]         : those left of the running loop
  target,      \* target[r]       : the row storeEvaluationResults found
  found,       \* found[r]        : policies whose conditions r saw fail
  excepted,    \* excepted[r]     : exceptions checkPromotionBlocking read
  decision,    \* decision[r]     : what the promotion check answered
  disturbed,   \* disturbed       : requests that overlapped another one
  erred,       \* erred           : requests of which a statement failed
  changes      \* changes         : changes made so far

engineVars == <<active, compliant, exception, overridden, row, newest, violation,
                pc, policies, todo, target, found, excepted, decision, disturbed,
                erred, changes>>
adminVars == <<active, compliant, exception, overridden, changes>>
requestVars == <<pc, policies, todo, target, found, excepted, decision, disturbed, erred>>
tableVars == <<row, newest, violation>>

(* getActivePolicies orders by severity and age: every request takes the   *)
(* policies in one fixed order.                                            *)
First(S) == CHOOSE p \in S : TRUE

EngineInit ==
  /\ active = [p \in Policies |-> TRUE]
  /\ compliant \in [Policies -> BOOLEAN]
  /\ exception = [p \in Policies |-> "none"]
  /\ overridden = {}
  /\ row = [r \in Requests |-> [p \in Policies |-> "absent"]]
  /\ newest = [p \in Policies |-> None]
  /\ violation = [r \in Requests |-> [p \in Policies |-> FALSE]]
  /\ pc = [r \in Requests |-> "idle"]
  /\ policies = [r \in Requests |-> {}]
  /\ todo = [r \in Requests |-> {}]
  /\ target = [r \in Requests |-> None]
  /\ found = [r \in Requests |-> {}]
  /\ excepted = [r \in Requests |-> {}]
  /\ decision = [r \in Requests |-> "none"]
  /\ disturbed = {}
  /\ erred = {}
  /\ changes = 0

Running == {r \in Requests : pc[r] \notin {"idle", "done"}}

Goto(r, at) == pc' = [pc EXCEPT ![r] = at]

(* updateEvaluationStatus: every row of the policy, not only the request's *)
WithStatus(p, status) ==
  [r \in Requests |->
     [row[r] EXCEPT ![p] = IF @ = "absent" THEN "absent" ELSE status]]

(* The request ends; the promotion check has an answer. *)
Settle(r, answer) ==
  /\ Goto(r, "done")
  /\ decision' = [decision EXCEPT ![r] = IF r \in Gates THEN answer ELSE "none"]

------------------------------------------------------------------------------
(* getActivePolicies; without a policy evaluatePolicies throws and the     *)
(* promotion check answers no.                                             *)
Begin(r) ==
  LET these == {p \in Policies : active[p]}
  IN /\ pc[r] = "idle"
     /\ IF these = {} THEN Settle(r, "blocked")
        ELSE Goto(r, "insert") /\ UNCHANGED decision
     /\ policies' = [policies EXCEPT ![r] = these]
     /\ todo' = [todo EXCEPT ![r] = these]
     /\ disturbed' =
          IF Running = {} THEN disturbed ELSE disturbed \cup Running \cup {r}
     /\ UNCHANGED <<target, found, excepted, erred, tableVars, adminVars>>

(* one INSERT of the first loop of evaluatePolicies *)
Insert(r) ==
  LET p == First(todo[r])
      last == todo[r] = {p}
  IN /\ pc[r] = "insert"
     /\ row' = [row EXCEPT ![r][p] = "pending"]
     /\ newest' = [newest EXCEPT ![p] = r]
     /\ todo' = [todo EXCEPT ![r] = IF last THEN policies[r] ELSE @ \ {p}]
     /\ Goto(r, IF last THEN "start" ELSE "insert")
     /\ UNCHANGED <<violation, policies, target, found, excepted, decision,
                    disturbed, erred, adminVars>>

(* executePolicyEvaluation marks the policy's rows running *)
Start(r) ==
  /\ pc[r] = "start"
  /\ row' = WithStatus(First(todo[r]), "running")
  /\ Goto(r, "judge")
  /\ UNCHANGED <<newest, violation, policies, todo, target, found, excepted,
                 decision, disturbed, erred, adminVars>>

(* buildEvaluationContext and the conditions *)
Judge(r) ==
  LET p == First(todo[r])
  IN /\ pc[r] = "judge"
     /\ found' = [found EXCEPT ![r] = IF compliant[p] THEN @ ELSE @ \cup {p}]
     /\ Goto(r, IF r \in DryRuns THEN "finish" ELSE "locate")
     /\ UNCHANGED <<policies, todo, target, excepted, decision, disturbed, erred,
                    tableVars, adminVars>>

(* storeEvaluationResults looks for the latest row of version and policy *)
Locate(r) ==
  /\ pc[r] = "locate"
  /\ target' = [target EXCEPT ![r] = newest[First(todo[r])]]
  /\ Goto(r, "store")
  /\ UNCHANGED <<policies, todo, found, excepted, decision, disturbed, erred,
                 tableVars, adminVars>>

(* and hangs the results on it *)
Store(r) ==
  LET p == First(todo[r])
  IN /\ pc[r] = "store"
     /\ violation' = [violation EXCEPT ![target[r]][p] = @ \/ p \in found[r]]
     /\ Goto(r, "finish")
     /\ UNCHANGED <<row, newest, policies, todo, target, found, excepted, decision,
                    disturbed, erred, adminVars>>

(* A statement of storeEvaluationResults fails: executePolicy catches it,  *)
(* returns an error that does not block, and the evaluation goes on.  (A   *)
(* failure after the blocking result was stored is a Store.)               *)
StoreFails(r) ==
  /\ Errors
  /\ pc[r] \in {"locate", "store"}
  /\ Goto(r, "finish")
  /\ erred' = erred \cup {r}
  /\ UNCHANGED <<policies, todo, target, found, excepted, decision, disturbed,
                 tableVars, adminVars>>

(* what follows the statement that ends the evaluation of a policy *)
Continue(r, left) ==
  Goto(r, IF left # {} THEN "start" ELSE IF r \in Gates THEN "exceptions" ELSE "done")

(* mutant: only the latest row is completed *)
FinishLatest(r) ==
  LET p == First(todo[r])
  IN /\ pc[r] = "finish"
     /\ row' = [row EXCEPT ![newest[p]][p] = "completed"]
     /\ todo' = [todo EXCEPT ![r] = @ \ {p}]
     /\ Continue(r, todo[r] \ {p})
     /\ target' = [target EXCEPT ![r] = None]
     /\ UNCHANGED <<newest, violation, policies, found, excepted, decision,
                    disturbed, erred, adminVars>>

(* mutant: completed_at is not written *)
FinishSilent(r) ==
  LET p == First(todo[r])
  IN /\ pc[r] = "finish"
     /\ todo' = [todo EXCEPT ![r] = @ \ {p}]
     /\ Continue(r, todo[r] \ {p})
     /\ target' = [target EXCEPT ![r] = None]
     /\ UNCHANGED <<row, newest, violation, policies, found, excepted, decision,
                    disturbed, erred, adminVars>>

(* the policy's rows are completed, and the loop goes on *)
Finish(r) ==
  LET p == First(todo[r])
  IN /\ pc[r] = "finish"
     /\ row' = WithStatus(p, "completed")
     /\ todo' = [todo EXCEPT ![r] = @ \ {p}]
     /\ Continue(r, todo[r] \ {p})
     /\ target' = [target EXCEPT ![r] = None]
     /\ UNCHANGED <<newest, violation, policies, found, excepted, decision,
                    disturbed, erred, adminVars>>

(* getActiveExceptions, first query of checkPromotionBlocking *)
ReadExceptions(r) ==
  /\ pc[r] = "exceptions"
  /\ excepted' = [excepted EXCEPT ![r] = {p \in Policies : exception[p] = "active"}]
  /\ Goto(r, "violations")
  /\ UNCHANGED <<policies, todo, target, found, decision, disturbed, erred,
                 tableVars, adminVars>>

(* the second one: every blocking result ever stored on a row that is not  *)
(* a dry run and has been completed                                        *)
Blocking ==
  {p \in Policies : \E q \in Requests \ DryRuns :
     violation[q][p] /\ row[q][p] \in {"completed", "failed"}}

(* mutant: only the results of this evaluation count *)
DecideLatest(r) ==
  LET mine == {p \in Policies : violation[r][p]}
  IN /\ pc[r] = "violations"
     /\ Settle(r, IF mine \subseteq excepted[r] THEN "allowed" ELSE "blocked")
     /\ UNCHANGED <<policies, todo, target, found, excepted, disturbed, erred,
                    tableVars, adminVars>>

Decide(r) ==
  /\ pc[r] = "violations"
  /\ Settle(r, IF Blocking \subseteq excepted[r] THEN "allowed" ELSE "blocked")
  /\ UNCHANGED <<policies, todo, target, found, excepted, disturbed, erred,
                 tableVars, adminVars>>

(* A statement outside storeEvaluationResults fails: the request ends and  *)
(* a promotion check answers no.  Inside executePolicyEvaluation the rows  *)
(* of the policy are marked failed, unless that fails too.                 *)
Throw(r) ==
  /\ Errors
  /\ pc[r] \in {"insert", "start", "judge", "finish", "exceptions", "violations"}
  /\ \/ UNCHANGED row
     \/ /\ pc[r] \in {"start", "judge", "finish"}
        /\ row' = WithStatus(First(todo[r]), "failed")
  /\ Settle(r, "blocked")
  /\ erred' = erred \cup {r}
  /\ UNCHANGED <<newest, violation, policies, todo, target, found, excepted, disturbed,
                 adminVars>>

EvaluatePolicies(r) ==
  \/ Begin(r) \/ Insert(r) \/ Start(r) \/ Judge(r) \/ Locate(r) \/ Store(r)
  \/ StoreFails(r) \/ Finish(r) \/ ReadExceptions(r) \/ Decide(r) \/ Throw(r)

------------------------------------------------------------------------------
Change ==
  /\ changes < MaxChanges
  /\ changes' = changes + 1
  /\ UNCHANGED <<requestVars, tableVars>>

(* updatePolicy *)
UpdatePolicy(p) ==
  /\ Change
  /\ active' = [active EXCEPT ![p] = ~@]
  /\ UNCHANGED <<compliant, exception, overridden>>

(* new artifacts, evaluation results or metadata of the version *)
ChangeVersion(p) ==
  /\ Change
  /\ compliant' = [compliant EXCEPT ![p] = ~@]
  /\ UNCHANGED <<active, exception, overridden>>

(* createPolicyException; a second row for the policy is refused *)
CreateException(p) ==
  /\ Change
  /\ exception[p] = "none"
  /\ exception' = [exception EXCEPT ![p] = "active"]
  /\ UNCHANGED <<active, compliant, overridden>>

(* expires_at has passed: the row stays, nobody reads it any more *)
Expire(p) ==
  /\ Change
  /\ exception[p] = "active"
  /\ exception' = [exception EXCEPT ![p] = "expired"]
  /\ overridden' = overridden \ {p}
  /\ UNCHANGED <<active, compliant>>

(* forceOverrideBlocking: a refused exception is only logged *)
ForceOverride(p) ==
  /\ Change
  /\ exception' = [exception EXCEPT ![p] = IF @ = "none" THEN "active" ELSE @]
  /\ overridden' = overridden \cup {p}
  /\ UNCHANGED <<active, compliant>>

Administration(p) ==
  UpdatePolicy(p) \/ ChangeVersion(p) \/ CreateException(p) \/ Expire(p) \/ ForceOverride(p)

EngineNext ==
  (\E r \in Requests : EvaluatePolicies(r)) \/ (\E p \in Policies : Administration(p))

------------------------------------------------------------------------------
PC == {"idle", "insert", "start", "judge", "locate", "store", "finish", "exceptions",
       "violations", "done"}

InLoop == {"insert", "start", "judge", "locate", "store", "finish"}

EngineType ==
  /\ active \in [Policies -> BOOLEAN]
  /\ compliant \in [Policies -> BOOLEAN]
  /\ exception \in [Policies -> {"none", "active", "expired"}]
  /\ overridden \subseteq Policies
  /\ row \in [Requests ->
              [Policies -> {"absent", "pending", "running", "completed", "failed"}]]
  /\ newest \in [Policies -> Requests \cup {None}]
  /\ violation \in [Requests -> [Policies -> BOOLEAN]]
  /\ pc \in [Requests -> PC]
  /\ policies \in [Requests -> SUBSET Policies]
  /\ todo \in [Requests -> SUBSET Policies]
  /\ \A r \in Requests : todo[r] \subseteq policies[r]
  /\ \A r \in Requests : pc[r] \in InLoop => todo[r] # {}
  /\ target \in [Requests -> Requests \cup {None}]
  /\ found \in [Requests -> SUBSET Policies]
  /\ excepted \in [Requests -> SUBSET Policies]
  /\ decision \in [Requests -> {"none", "allowed", "blocked"}]
  /\ disturbed \subseteq Requests
  /\ erred \subseteq Requests
  /\ changes \in 0..MaxChanges

Undisturbed(r) == r \notin disturbed /\ r \notin erred

(* A promotion check that nothing disturbed lets no violation through that *)
(* it found itself: whatever earlier requests, dry runs and failures left  *)
(* in the tables, its own rows are the latest and completed when it looks. *)
GateStopsViolations ==
  \A r \in Gates :
    decision[r] = "allowed" /\ Undisturbed(r) => found[r] \subseteq excepted[r]

(* Nor does it forget one: a violation ever stored for a policy that is    *)
(* still active blocks, although the version may comply by now.            *)
ViolationsStick ==
  [][\A r \in Gates :
       decision[r] = "none" /\ decision'[r] = "allowed" /\ Undisturbed(r) =>
         \A p \in policies[r] :
           (\E q \in Requests \ DryRuns : violation[q][p]) => p \in excepted[r]]_engineVars

(* Overlapping requests write each other's rows, but when all have ended   *)
(* without a failure no row is left pending or running.                    *)
RowsSettle ==
  Running = {} /\ erred = {} =>
    \A r \in Requests, p \in Policies : row[r][p] \in {"absent", "completed"}

------------------------------------------------------------------------------
(* policyBlockingService.test.ts "should block transition when blocking    *)
(* violations exist": no promotion check answers yes after its own         *)
(* evaluation found a violation without an exception.                      *)
FoundIsBlocked ==
  \A r \in Gates : decision[r] = "allowed" => found[r] \subseteq excepted[r]

(* policyNotificationService.ts "Get latest blocking violations": a check  *)
(* that nothing disturbed and that finds the version compliant says yes.   *)
CleanIsAllowed ==
  \A r \in Gates :
    policies[r] # {} /\ found[r] = {} /\ decision[r] # "none" /\ Undisturbed(r) =>
      decision[r] = "allowed"

(* policyBlockingService.ts "Create temporary exceptions for overridden    *)
(* policies": while an override that was announced lasts there is one.     *)
OverrideTakesEffect == \A p \in overridden : exception[p] = "active"
=============================================================================
