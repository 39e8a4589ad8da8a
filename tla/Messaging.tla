------------------------------ MODULE Messaging ------------------------------
(***************************************************************************)
(* EventBus and MessagingManager in every process of the system.  Redis    *)
(* hands a published event to the processes that are subscribed at that    *)
(* moment and keeps nothing.  A handler tells other services what happened,*)
(* one request after the other; the first that fails for good ends it, and *)
(* nobody learns of it.  Handlers of successive events are not awaited and *)
(* overlap.                                                                *)
(***************************************************************************)
EXTENDS Naturals, Sequences, FiniteSets, Bags

CONSTANTS
  Processes,  \* processes with a MessagingManager
  Events,     \* events that are published
  MaxPosts    \* bound: attempts that may be given up on while fewer have been received

ASSUME MessagingAssumption == MaxPosts \in Nat \ {0}

VARIABLES
  kind,        \* kind[e]       : type and, where a handler looks at it, content of an event
  phase,       \* phase[p]      : how far initialize of p is
  subscribed,  \* subscribed[p] : event types Redis has p down for
  inbox,       \* inbox[p]      : events on the connection of the subscriber of p
  published,   \* published     : the events Redis was given, in that order
  running,     \* running[p][e] : what the handler has still to ask for
  received,    \* received[e]   : the requests that reached a service: <<process, service, path>>
  late         \* late[e]       : the attempts nobody waits for any more that are on their way

messagingVars == <<kind, phase, subscribed, inbox, published, running, received, late>>

(* The types setupEventHandlers subscribes to, in its order. *)
EventTypes ==
  <<"model.created", "version.created", "version.state.changed", "policy.violation",
    "approval.required", "evaluation.completed", "threshold.violated", "deployment.failed",
    "slo.violation">>

TypeSet == {EventTypes[n] : n \in 1..Len(EventTypes)}

(* marked: the new state is approved_prod, the violation blocks, the       *)
(* evaluation did not pass, the rollback is automatic, the severity is     *)
(* critical                                                                *)
Event == [type : TypeSet, marked : BOOLEAN]

When(condition, calls) == IF condition THEN calls ELSE <<>>

HandleModelCreated(e) ==
  <<<<"audit", "model-created">>, <<"policy-engine", "evaluate">>>>

HandleVersionCreated(e) ==
  <<<<"evaluation", "run">>, <<"audit", "version-created">>>>

HandleVersionStateChanged(e) ==
  When(e.marked, <<<<"deployment", "prepare">>>>) \o <<<<"audit", "state-changed">>>>

HandlePolicyViolation(e) == When(e.marked, <<<<"policy-engine", "block">>>>)

(* the notification is a line of the log *)
HandleApprovalRequired(e) == <<>>

HandleEvaluationCompleted(e) ==
  When(e.marked, <<<<"policy-engine", "block">>>>) \o <<<<"model-registry", "evaluations">>>>

HandleThresholdViolated(e) == <<<<"policy-engine", "block">>>>

HandleDeploymentFailed(e) == When(e.marked, <<<<"deployment", "rollback">>>>)

HandleSLOViolation(e) == When(e.marked, <<<<"deployment", "rollback">>>>)

Handler(e) ==
  CASE e.type = "model.created" -> HandleModelCreated(e)
    [] e.type = "version.created" -> HandleVersionCreated(e)
    [] e.type = "version.state.changed" -> HandleVersionStateChanged(e)
    [] e.type = "policy.violation" -> HandlePolicyViolation(e)
    [] e.type = "approval.required" -> HandleApprovalRequired(e)
    [] e.type = "evaluation.completed" -> HandleEvaluationCompleted(e)
    [] e.type = "threshold.violated" -> HandleThresholdViolated(e)
    [] e.type = "deployment.failed" -> HandleDeploymentFailed(e)
    [] e.type = "slo.violation" -> HandleSLOViolation(e)

MessagingInit ==
  /\ kind \in [Events -> Event]
  /\ phase = [p \in Processes |-> "new"]
  /\ subscribed = [p \in Processes |-> {}]
  /\ inbox = [p \in Processes |-> <<>>]
  /\ published = <<>>
  /\ running = [p \in Processes |-> [e \in Events |-> <<>>]]
  /\ received = [e \in Events |-> <<>>]
  /\ late = [e \in Events |-> EmptyBag]

-----------------------------------------------------------------------------
(* initialize: both connections are there; the clients of the services are *)
(* made, and in the same turn of the event loop the subscriptions are sent *)
(* without waiting for them: the manager is initialized.                   *)
Connect(p) ==
  /\ phase[p] = "new"
  /\ phase' = [phase EXCEPT ![p] = "initialized"]
  /\ UNCHANGED <<kind, subscribed, inbox, published, running, received, late>>

(* Redis takes the SUBSCRIBEs one by one, in their order. *)
Subscribe(p) ==
  LET next == Cardinality(subscribed[p]) + 1
  IN  /\ phase[p] = "initialized"
      /\ next <= Len(EventTypes)
      /\ subscribed' = [subscribed EXCEPT ![p] = @ \cup {EventTypes[next]}]
      /\ UNCHANGED <<kind, phase, inbox, published, running, received, late>>

(* external: the subscriber loses its connection, and with it what was on  *)
(* it; the client connects again and renews its subscriptions              *)
Drop(p) ==
  /\ subscribed[p] # {}
  /\ subscribed' = [subscribed EXCEPT ![p] = {}]
  /\ inbox' = [inbox EXCEPT ![p] = <<>>]
  /\ UNCHANGED <<kind, phase, published, running, received, late>>

(* disconnect, by shutdown: requests that are under way go on *)
Shutdown(p) ==
  /\ phase[p] = "initialized"
  /\ phase' = [phase EXCEPT ![p] = "down"]
  /\ subscribed' = [subscribed EXCEPT ![p] = {}]
  /\ inbox' = [inbox EXCEPT ![p] = <<>>]
  /\ UNCHANGED <<kind, published, running, received, late>>

(* publishEvent, refused before initialize and after shutdown *)
Publish(p, e) ==
  /\ phase[p] = "initialized"
  /\ \A n \in 1..Len(published) : published[n] # e
  /\ published' = Append(published, e)
  /\ inbox' = [q \in Processes |->
                 IF kind[e].type \in subscribed[q] THEN Append(inbox[q], e) ELSE inbox[q]]
  /\ UNCHANGED <<kind, phase, subscribed, running, received, late>>

-----------------------------------------------------------------------------
(* handleMessage: the handler starts and is not waited for *)
HandleMessage(p) ==
  /\ inbox[p] # <<>>
  /\ inbox' = [inbox EXCEPT ![p] = Tail(@)]
  /\ running' = [running EXCEPT ![p][Head(inbox[p])] = Handler(kind[Head(inbox[p])])]
  /\ UNCHANGED <<kind, phase, subscribed, published, received, late>>

(* what the handler asks for now *)
Asked(p, e) == <<p>> \o Head(running[p][e])
Reaches(e, request) == received' = [received EXCEPT ![e] = Append(@, request)]

(* The answer is late, lost, or an error: this attempt is given up on.  It *)
(* may still be received, now or at any later time, or never.              *)
GivenUp(p, e) ==
  /\ Len(received[e]) + BagCardinality(late[e]) < MaxPosts
  /\ late' = [late EXCEPT ![e] = @ (+) SetToBag({Asked(p, e)})]

ArrivesLate(e) ==
  \E request \in BagToSet(late[e]) :
    /\ Reaches(e, request)
    /\ late' = [late EXCEPT ![e] = @ (-) SetToBag({request})]
    /\ UNCHANGED <<kind, phase, subscribed, inbox, published, running>>

(* mutant: the client takes a request it gave up on for received *)
GoesOnUnheard(p, e) ==
  /\ running[p][e] # <<>>
  /\ GivenUp(p, e)
  /\ running' = [running EXCEPT ![p][e] = Tail(@)]
  /\ UNCHANGED <<kind, phase, subscribed, inbox, published, received>>

(* the client sends the request again *)
PostAgain(p, e) ==
  /\ running[p][e] # <<>>
  /\ GivenUp(p, e)
  /\ UNCHANGED <<kind, phase, subscribed, inbox, published, running, received>>

PostSucceeds(p, e) ==
  /\ running[p][e] # <<>>
  /\ Reaches(e, Asked(p, e))
  /\ running' = [running EXCEPT ![p][e] = Tail(@)]
  /\ UNCHANGED <<kind, phase, subscribed, inbox, published, late>>

(* The last attempt failed, or the breaker let none through: the handler   *)
(* catches and is over.                                                    *)
PostFails(p, e) ==
  /\ running[p][e] # <<>>
  /\ GivenUp(p, e) \/ UNCHANGED late
  /\ running' = [running EXCEPT ![p][e] = <<>>]
  /\ UNCHANGED <<kind, phase, subscribed, inbox, published, received>>

MessagingNext ==
  \/ \E p \in Processes :
       \/ Connect(p) \/ Subscribe(p) \/ Drop(p) \/ Shutdown(p) \/ HandleMessage(p)
       \/ \E e \in Events :
            Publish(p, e) \/ PostAgain(p, e) \/ PostSucceeds(p, e) \/ PostFails(p, e)
  \/ \E e \in Events : ArrivesLate(e)

MessagingSpec == MessagingInit /\ [][MessagingNext]_messagingVars

-----------------------------------------------------------------------------
(* HeldBack: whatever is retried, lost, or received long after it was      *)
(* given up on, the registry hears of an evaluation that did not pass only *)
(* after the policy engine was asked by the same process to block the      *)
(* version, and the audit log hears of an approval for production only     *)
(* after the deployment service was asked to prepare it: the second is     *)
(* sent when the first was answered (handleEvaluationCompleted,            *)
(* handleVersionStateChanged).  Nothing holds of the last time: the first  *)
(* may be received once more after the second.                             *)
HeldBack ==
  \A e \in Events : \A n \in 1..Len(received[e]) :
    LET before == {received[e][k] : k \in 1..(n - 1)}
        p == received[e][n][1]
    IN  kind[e].marked =>
          /\ received[e][n] = <<p, "model-registry", "evaluations">>
               => <<p, "policy-engine", "block">> \in before
          /\ received[e][n] = <<p, "audit", "state-changed">>
               => <<p, "deployment", "prepare">> \in before
=============================================================================
