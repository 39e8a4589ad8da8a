---------------------------- MODULE ServiceClient ----------------------------
(***************************************************************************)
(* ServiceClient: calls that share one circuit breaker.  executeWithRetry  *)
(* asks the breaker once, then sends, sleeps and sends again; the response *)
(* interceptors report every answer to the breaker.                        *)
(***************************************************************************)
EXTENDS CircuitBreaker

CONSTANTS
  Calls,     \* calls that may be under way at once
  Retries,   \* config.retries
  Operated,  \* an operator may force the breaker open or closed
  MaxCount   \* bound: failures are counted up to this many

ASSUME ClientAssumption ==
  /\ Retries \in Nat
  /\ Operated \in BOOLEAN
  /\ MaxCount \in Nat

VARIABLES
  breaker,  \* breaker    : this.circuitBreaker
  pc,       \* pc[c]      : "idle", "sent" or "sleeping"
  attempt,  \* attempt[c] : attempts of executeWithRetry before this one
  streak    \* streak     : failures reported since the last success

vars == <<breaker, pc, attempt, streak>>

Init ==
  /\ breaker = NewBreaker
  /\ pc = [c \in Calls |-> "idle"]
  /\ attempt = [c \in Calls |-> 0]
  /\ streak = 0

Goto(c, at) == pc' = [pc EXCEPT ![c] = at]

(* executeWithRetry begins: it throws when the breaker is open *)
Begin(c) ==
  /\ pc[c] = "idle"
  /\ breaker' = Updated(breaker)
  /\ Goto(c, IF IsOpen(breaker) THEN "idle" ELSE "sent")
  /\ attempt' = [attempt EXCEPT ![c] = 0]
  /\ UNCHANGED streak

Success(c) ==
  /\ pc[c] = "sent"
  /\ breaker' = AfterSuccess(breaker)
  /\ streak' = 0
  /\ Goto(c, "idle")
  /\ UNCHANGED attempt

(* Every error is reported, a client error too; that one, and the error of *)
(* the last attempt, is thrown, the others are retried.                    *)
Failure(c) ==
  /\ pc[c] = "sent"
  /\ breaker.failures < MaxCount
  /\ breaker' = AfterFailure(breaker)
  /\ streak' = IF streak < MaxCount THEN streak + 1 ELSE streak
  /\ \/ attempt[c] < Retries /\ Goto(c, "sleeping")
     \/ Goto(c, "idle")
  /\ UNCHANGED attempt

(* The delay is over: the next attempt is sent without asking the breaker. *)
Retry(c) ==
  /\ pc[c] = "sleeping"
  /\ Goto(c, "sent")
  /\ attempt' = [attempt EXCEPT ![c] = @ + 1]
  /\ UNCHANGED <<breaker, streak>>

(* isHealthy and getCircuitBreakerStats ask the breaker as well *)
Inspect ==
  /\ breaker' = Updated(breaker)
  /\ UNCHANGED <<pc, attempt, streak>>

ForceOpen ==
  /\ Operated
  /\ breaker' = Open(breaker)
  /\ UNCHANGED <<pc, attempt, streak>>

(* reset and forceClose *)
Reset ==
  /\ Operated
  /\ breaker' = NewBreaker
  /\ UNCHANGED <<pc, attempt, streak>>

Tick ==
  /\ breaker' = Later(breaker)
  /\ UNCHANGED <<pc, attempt, streak>>

Next ==
  \/ \E c \in Calls : Begin(c) \/ Success(c) \/ Failure(c) \/ Retry(c)
  \/ Inspect \/ ForceOpen \/ Reset \/ Tick

Spec == Init /\ [][Next]_vars

(* Time passes, delays end and every request is answered.                  *)
Fairness ==
  /\ WF_vars(Tick)
  /\ \A c \in Calls : WF_vars(Retry(c)) /\ WF_vars(Success(c) \/ Failure(c))

(* The same with callers that keep calling. *)
BusySpec == Spec /\ Fairness /\ \A c \in Calls : WF_vars(Begin(c))

------------------------------------------------------------------------------
TypeOK ==
  /\ breaker \in Breakers
  /\ pc \in [Calls -> {"idle", "sent", "sleeping"}]
  /\ attempt \in [Calls -> 0..Retries]
  /\ streak \in Nat

(* Answers of calls that overlap, of retries and of requests sent before   *)
(* the breaker opened are all counted by one object, yet a closed breaker  *)
(* is always below its threshold and never counts a failure older than the *)
(* last success.                                                           *)
ClosedIsBelowThreshold ==
  breaker.state = "closed" =>
    /\ breaker.failures < FailureThreshold
    /\ breaker.failures <= streak

(* Unless an operator forces it, a closed breaker opens only on            *)
(* failureThreshold failures in a row, with no success of any call between *)
(* them.                                                                   *)
OpensOnStreak ==
  [][breaker.state = "closed" /\ breaker'.state = "open" /\ ~ForceOpen
     => streak' >= FailureThreshold]_vars

(* Nor does it close without an answer: waiting only makes it half-open,   *)
(* whoever asks, and however late.                                         *)
ClosesOnSuccess ==
  [][breaker.state # "closed" /\ breaker'.state = "closed" /\ ~Reset
     => breaker.state = "half_open" /\ streak' = 0]_vars

(* Once the service answers every request, nobody forces the breaker open  *)
(* and callers keep coming, it closes, whatever it has counted before.     *)
Recovers ==
  <>[][~ForceOpen /\ \A c \in Calls : ~Failure(c)]_vars => <>[](breaker.state = "closed")

------------------------------------------------------------------------------
(* design.md "Circuit Breaker: Prevent cascading failures when external    *)
(* services are down": an open breaker lets no request through.            *)
OpenSendsNothing ==
  [][\A c \in Calls :
       pc[c] # "sent" /\ pc'[c] = "sent" => ~IsOpen(breaker)]_vars
=============================================================================
