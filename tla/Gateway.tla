------------------------------- MODULE Gateway -------------------------------
(***************************************************************************)
(* APIGateway in front of one service: ServiceRegistry checks the health   *)
(* of the instances, LoadBalancer picks one of the healthy ones, and the   *)
(* circuit breaker of the service counts what comes of it.  The three know *)
(* nothing of each other: an instance that dies stays in the rotation for  *)
(* some rounds of checks, and one that is missing counts as a failure of   *)
(* the service.                                                            *)
(***************************************************************************)
EXTENDS CircuitBreaker, FiniteSets

CONSTANTS
  Instances,    \* targets of the service
  Proxied,      \* requests that may be under way at once
  MaxFailures,  \* MAX_CONSECUTIVE_FAILURES
  Turns,        \* bound: the round-robin counter is kept modulo this number
  NoInstance    \* the router found no target

ASSUME GatewayAssumption ==
  /\ MaxFailures \in Nat \ {0}
  /\ Turns \in Nat \ {0}
  /\ \A n \in 1..Cardinality(Instances) : Turns % n = 0
  /\ NoInstance \notin Instances

VARIABLES
  up,        \* up[i]       : external: instance i answers
  healthy,   \* healthy[i]  : isHealthy of the instance
  failed,    \* failed[i]   : its consecutiveFailures, which matter up to MaxFailures
  checking,  \* checking[i] : health checks under way, "register" and "round"
  serving,   \* serving     : isHealthy of the service
  turn,      \* turn        : roundRobinCounters of the service
  guard,     \* guard       : the circuit breaker of the service
  sent       \* sent[r]     : where request r was sent, or "idle"

gatewayVars == <<up, healthy, failed, checking, serving, turn, guard, sent>>

(* registerServices: the instances are registered, which checks each once, *)
(* and the first round of checks begins at once.                           *)
GatewayInit ==
  /\ up \in [Instances -> BOOLEAN]
  /\ healthy = [i \in Instances |-> FALSE]
  /\ failed = [i \in Instances |-> 0]
  /\ checking = [i \in Instances |-> {"register", "round"}]
  /\ serving = FALSE
  /\ turn = 0
  /\ guard = NewBreaker
  /\ sent = [r \in Proxied |-> "idle"]

(* external: an instance goes down or comes back *)
Flip(i) ==
  /\ up' = [up EXCEPT ![i] = ~@]
  /\ UNCHANGED <<healthy, failed, checking, serving, turn, guard, sent>>

-----------------------------------------------------------------------------
(* performHealthChecks; the interval is longer than any time-out, so the   *)
(* last round is over                                                      *)
StartRound ==
  /\ \A i \in Instances : checking[i] = {}
  /\ checking' = [i \in Instances |-> {"round"}]
  /\ UNCHANGED <<up, healthy, failed, serving, turn, guard, sent>>

(* updateServiceHealthStatus, once all checks of the round have settled *)
Settled(checks, health) ==
  IF \A i \in Instances : "round" \notin checks[i]
    THEN \E i \in Instances : health[i]
    ELSE serving

CheckSucceeds(i, check) ==
  /\ check \in checking[i] /\ up[i]
  /\ healthy' = [healthy EXCEPT ![i] = TRUE]
  /\ failed' = [failed EXCEPT ![i] = 0]
  /\ checking' = [checking EXCEPT ![i] = @ \ {check}]
  /\ serving' = IF check = "round" THEN Settled(checking', healthy') ELSE serving
  /\ UNCHANGED <<up, turn, guard, sent>>

(* markInstanceUnhealthy *)
CheckFails(i, check) ==
  /\ check \in checking[i] /\ ~up[i]
  /\ failed' = [failed EXCEPT ![i] = IF @ < MaxFailures THEN @ + 1 ELSE @]
  /\ healthy' = [healthy EXCEPT ![i] = @ /\ failed'[i] < MaxFailures]
  /\ checking' = [checking EXCEPT ![i] = @ \ {check}]
  /\ serving' = IF check = "round" THEN Settled(checking', healthy') ELSE serving
  /\ UNCHANGED <<up, turn, guard, sent>>

-----------------------------------------------------------------------------
(* An order of the instances, that of their registration. *)
Rank == CHOOSE f \in [Instances -> 1..Cardinality(Instances)] :
          \A i, j \in Instances : i # j => f[i] # f[j]

(* roundRobinSelection: the counter is taken modulo those healthy now *)
Nth(S, n) == CHOOSE i \in S : Cardinality({j \in S : Rank[j] < Rank[i]}) = n

(* getNextInstance: one healthy instance takes no turn *)
Pick(S) ==
  IF S = {} THEN NoInstance ELSE Nth(S, IF Cardinality(S) = 1 THEN 0 ELSE turn % Cardinality(S))

Bounded(b) == [b EXCEPT !.failures = IF @ > FailureThreshold THEN FailureThreshold ELSE @]

Refuse ==
  /\ IsOpen(guard)
  /\ guard' = Updated(guard)
  /\ UNCHANGED <<up, healthy, failed, checking, serving, turn, sent>>

(* The middleware of the breaker and, in the same turn of the event loop,  *)
(* the router, which looks at the service before it looks at the instances.*)
Forward(r) ==
  LET usable == IF serving THEN {i \in Instances : healthy[i]} ELSE {}
  IN  /\ sent[r] = "idle"
      /\ ~IsOpen(guard)
      /\ guard' = Updated(guard)
      /\ sent' = [sent EXCEPT ![r] = Pick(usable)]
      /\ turn' = IF Cardinality(usable) > 1 THEN (turn + 1) % Turns ELSE turn
      /\ UNCHANGED <<up, healthy, failed, checking, serving>>

(* mutant: only a breaker that is closed hears of successes *)
AnsweredStays(r) ==
  /\ sent[r] \in Instances /\ up[sent[r]]
  /\ guard' = IF guard.state = "closed" THEN AfterSuccess(guard) ELSE guard
  /\ sent' = [sent EXCEPT ![r] = "idle"]
  /\ UNCHANGED <<up, healthy, failed, checking, serving, turn>>

(* onProxyRes: whatever the status *)
Answered(r) ==
  /\ sent[r] \in Instances /\ up[sent[r]]
  /\ guard' = AfterSuccess(guard)
  /\ sent' = [sent EXCEPT ![r] = "idle"]
  /\ UNCHANGED <<up, healthy, failed, checking, serving, turn>>

(* onError; without a target the proxy tries its own host, where nothing   *)
(* listens                                                                 *)
ProxyError(r) ==
  /\ sent[r] = NoInstance \/ (sent[r] \in Instances /\ ~up[sent[r]])
  /\ guard' = Bounded(AfterFailure(guard))
  /\ sent' = [sent EXCEPT ![r] = "idle"]
  /\ UNCHANGED <<up, healthy, failed, checking, serving, turn>>

(* The client hangs up: neither handler is called. *)
ClientLeaves(r) ==
  /\ sent[r] # "idle"
  /\ sent' = [sent EXCEPT ![r] = "idle"]
  /\ UNCHANGED <<up, healthy, failed, checking, serving, turn, guard>>

GatewayTick ==
  /\ guard' = Later(guard)
  /\ UNCHANGED <<up, healthy, failed, checking, serving, turn, sent>>

-----------------------------------------------------------------------------
CheckEnds(i) == \E check \in checking[i] : CheckSucceeds(i, check) \/ CheckFails(i, check)

GatewayNext ==
  \/ \E i \in Instances : Flip(i) \/ CheckEnds(i)
  \/ \E r \in Proxied : Forward(r) \/ Answered(r) \/ ProxyError(r) \/ ClientLeaves(r)
  \/ StartRound \/ Refuse \/ GatewayTick

RequestEnds(r) == Answered(r) \/ ProxyError(r)

(* The interval comes back, checks end, time passes; requests keep coming, *)
(* and again and again one is waited for.                                  *)
GatewayFairness ==
  /\ WF_gatewayVars(StartRound) /\ WF_gatewayVars(GatewayTick)
  /\ \A i \in Instances : WF_gatewayVars(CheckEnds(i))
  /\ \A r \in Proxied : WF_gatewayVars(Forward(r))
  /\ SF_gatewayVars(\E r \in Proxied : RequestEnds(r))

GatewaySpec == GatewayInit /\ [][GatewayNext]_gatewayVars

-----------------------------------------------------------------------------
(* ServiceComesBack: once all instances stay up, the service ends up with  *)
(* all of them in the rotation and its breaker closed for good, whatever   *)
(* checks and requests were under way and however long it was down.        *)
ServiceComesBack ==
  <>[](\A i \in Instances : up[i]) =>
    <>[](serving /\ guard.state = "closed" /\ \A i \in Instances : healthy[i])
=============================================================================
