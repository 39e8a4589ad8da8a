---------------------------- MODULE CircuitBreaker ----------------------------
(***************************************************************************)
(* The CircuitBreaker class as functions on its state.  The two time       *)
(* stamps are kept relative to the clock: wait is what is left until       *)
(* nextAttemptTime, quiet is what has passed since lastFailureTime.        *)
(* Nothing moves by itself: open turns into half-open only when somebody   *)
(* asks (updateState).                                                     *)
(***************************************************************************)
EXTENDS Naturals

CONSTANTS
  FailureThreshold,  \* failureThreshold
  ResetTimeout,      \* resetTimeout, in ticks
  MonitoringPeriod   \* monitoringPeriod, in ticks

ASSUME BreakerAssumption ==
  /\ FailureThreshold \in Nat \ {0}
  /\ ResetTimeout \in Nat \ {0}
  /\ MonitoringPeriod \in Nat

Never == MonitoringPeriod + 1  \* no failure yet, or one that no longer counts

Breakers ==
  [state : {"closed", "open", "half_open"},
   failures : Nat,                \* failureCount
   wait : 0..ResetTimeout,
   quiet : 0..Never]

NewBreaker == [state |-> "closed", failures |-> 0, wait |-> 0, quiet |-> Never]

(* updateState forgets the failures of a closed breaker that had none for   *)
(* longer than monitoringPeriod.                                           *)
Remembered(b) ==
  IF b.state = "closed" /\ b.quiet > MonitoringPeriod THEN 0 ELSE b.failures

(* mutant: the time-out alone closes the breaker *)
UpdatedCloses(b) ==
  [state    |-> IF b.state = "open" /\ b.wait = 0 THEN "closed" ELSE b.state,
   failures |-> Remembered(b),
   wait     |-> b.wait,
   quiet    |-> b.quiet]

(* updateState, the first thing isOpen does *)
Updated(b) ==
  [state    |-> IF b.state = "open" /\ b.wait = 0 THEN "half_open" ELSE b.state,
   failures |-> Remembered(b),
   wait     |-> b.wait,
   quiet    |-> b.quiet]

IsOpen(b) == Updated(b).state = "open"

(* forceOpen, and what recordFailure does when it opens the breaker *)
Open(b) ==
  [state |-> "open", failures |-> b.failures, wait |-> ResetTimeout, quiet |-> b.quiet]

Closed(b) ==
  [state |-> "closed", failures |-> 0, wait |-> b.wait, quiet |-> b.quiet]

(* mutant: a success in the closed state is forgotten *)
AfterSuccessLoose(b) == IF b.state = "half_open" THEN Closed(b) ELSE b

(* mutant: a success is only counted in the closed state *)
AfterSuccessStays(b) == IF b.state = "closed" THEN Closed(b) ELSE b

(* recordSuccess: an answer that reaches an open breaker changes nothing *)
AfterSuccess(b) == IF b.state = "open" THEN b ELSE Closed(b)

Counted(b) ==
  [state |-> b.state, failures |-> b.failures + 1, wait |-> b.wait, quiet |-> 0]

(* recordFailure: an open breaker counts on, its wait is not renewed *)
AfterFailure(b) ==
  IF \/ b.state = "closed" /\ b.failures + 1 >= FailureThreshold
     \/ b.state = "half_open"
  THEN Open(Counted(b)) ELSE Counted(b)

(* one tick of the clock *)
Later(b) ==
  [state    |-> b.state,
   failures |-> b.failures,
   wait     |-> IF b.wait = 0 THEN 0 ELSE b.wait - 1,
   quiet    |-> IF b.quiet = Never THEN Never ELSE b.quiet + 1]
=============================================================================
