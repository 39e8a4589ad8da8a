--------------------------- MODULE PlatformProofs ---------------------------
(***************************************************************************)
(* What holds between the registry and what it calls, for every value of   *)
(* the constants: calls of other services behind a breaker, connections of *)
(* a pool, events and their handlers, machine learning platforms, and      *)
(* pipelines that validate versions.                                       *)
(***************************************************************************)
EXTENDS ServiceClient, DatabasePool, Messaging, MlPlatforms, CicdIntegration, SequenceLemmas

-----------------------------------------------------------------------------
(* Calls.  The inductive invariant is the type invariant together with     *)
(* ClosedIsBelowThreshold: a closed breaker never counts more than the     *)
(* running streak of failures, so what opens it is a streak; and with      *)
(* SleepersMayRetry, which the bound on the attempts rests on.             *)

(* A call that waits for its next attempt still has one. *)
SleepersMayRetry == \A c \in Calls : pc[c] = "sleeping" => attempt[c] < Retries

ClientInv == TypeOK /\ ClosedIsBelowThreshold /\ SleepersMayRetry

(* Every function of the breaker returns a breaker. *)
LEMMA BreakerTypes ==
  ASSUME NEW b \in Breakers
  PROVE  /\ Updated(b) \in Breakers
         /\ Open(b) \in Breakers
         /\ AfterSuccess(b) \in Breakers
         /\ AfterFailure(b) \in Breakers
         /\ Later(b) \in Breakers
  <1> USE BreakerAssumption DEF BreakerAssumption, Breakers, Never
  <1>1. Updated(b) \in Breakers
    BY DEF Updated, Remembered
  <1>2. Open(b) \in Breakers
    BY DEF Open
  <1>3. AfterSuccess(b) \in Breakers
    BY DEF AfterSuccess, Closed
  <1>4. AfterFailure(b) \in Breakers
    BY DEF AfterFailure, Open, Counted
  <1>5. Later(b) \in Breakers
    BY DEF Later
  <1> QED
    BY <1>1, <1>2, <1>3, <1>4, <1>5

(* Asking, waiting and succeeding never add to the count. *)
LEMMA CountsDown ==
  ASSUME NEW b \in Breakers
  PROVE  /\ Updated(b).failures \in {0, b.failures}
         /\ \/ Updated(b).state = b.state
            \/ b.state = "open" /\ Updated(b).state = "half_open"
         /\ Later(b).failures = b.failures /\ Later(b).state = b.state
         /\ AfterSuccess(b).state = "closed" => AfterSuccess(b).failures = 0
         /\ AfterSuccess(b).state # "closed" => AfterSuccess(b).state = b.state
  BY DEF Breakers, Updated, Remembered, Later, AfterSuccess, Closed

(* A failure adds one, and a breaker that is closed after it was so before *)
(* and has not reached its threshold.                                      *)
LEMMA CountsUp ==
  ASSUME NEW b \in Breakers
  PROVE  /\ AfterFailure(b).failures = b.failures + 1
         /\ AfterFailure(b).state = "closed" =>
              b.state = "closed" /\ b.failures + 1 < FailureThreshold
         /\ b.state = "closed" /\ AfterFailure(b).state # "closed" =>
              b.failures + 1 >= FailureThreshold
  BY BreakerAssumption DEF BreakerAssumption, Breakers, AfterFailure, Open, Counted

(* The failures a breaker counts belong to the running streak. *)
BelowThreshold(b, n) ==
  b.state = "closed" => b.failures < FailureThreshold /\ b.failures <= n

(* The new client starts in the invariant. *)
LEMMA ClientInitInv == Init => ClientInv
  BY BreakerAssumption, ClientAssumption
  DEF Init, ClientInv, TypeOK, ClosedIsBelowThreshold, SleepersMayRetry, Breakers,
      NewBreaker, Never

(* Every step of the client preserves the invariant. *)
LEMMA ClientNextInv == ClientInv /\ [Next]_vars => ClientInv'
  <1> SUFFICES ASSUME ClientInv, [Next]_vars PROVE ClientInv'
    OBVIOUS
  <1> USE BreakerAssumption, ClientAssumption
  <1>t. breaker \in Breakers /\ breaker.failures \in Nat /\ streak \in Nat
    BY DEF ClientInv, TypeOK, Breakers
  <1>b. BelowThreshold(breaker, streak)
    BY DEF ClientInv, ClosedIsBelowThreshold, BelowThreshold
  <1>1. ASSUME NEW c \in Calls, Begin(c) PROVE ClientInv'
    <2>1. BelowThreshold(Updated(breaker), streak)
      BY <1>t, <1>b, CountsDown DEF BelowThreshold
    <2>2. Updated(breaker) \in Breakers
      BY <1>t, BreakerTypes
    <2> QED
      BY <1>1, <2>1, <2>2 DEF Begin, Goto, BelowThreshold, ClientInv, TypeOK,
         ClosedIsBelowThreshold, SleepersMayRetry
  <1>2. ASSUME NEW c \in Calls, Success(c) PROVE ClientInv'
    <2>1. BelowThreshold(AfterSuccess(breaker), 0)
      BY <1>t, <1>b, CountsDown DEF BelowThreshold
    <2>2. AfterSuccess(breaker) \in Breakers
      BY <1>t, BreakerTypes
    <2> QED
      BY <1>2, <2>1, <2>2 DEF Success, Goto, BelowThreshold, ClientInv, TypeOK,
         ClosedIsBelowThreshold, SleepersMayRetry
  <1>3. ASSUME NEW c \in Calls, Failure(c) PROVE ClientInv'
    <2>1. BelowThreshold(AfterFailure(breaker), streak')
      <3>1. CASE AfterFailure(breaker).state = "closed"
        <4>1. /\ breaker.state = "closed"
              /\ AfterFailure(breaker).failures = breaker.failures + 1
              /\ breaker.failures + 1 < FailureThreshold
          BY <1>t, <3>1, CountsUp
        <4>2. breaker.failures + 1 <= streak'
          BY <1>3, <1>t, <1>b, <4>1 DEF Failure, BelowThreshold
        <4> QED
          BY <1>t, <4>1, <4>2 DEF BelowThreshold
      <3>2. CASE AfterFailure(breaker).state # "closed"
        BY <3>2 DEF BelowThreshold
      <3> QED
        BY <3>1, <3>2
    <2>2. AfterFailure(breaker) \in Breakers
      BY <1>t, BreakerTypes
    <2>3. streak' \in Nat
      BY <1>3, <1>t DEF Failure
    <2>4. /\ pc' \in [Calls -> {"idle", "sent", "sleeping"}]
          /\ SleepersMayRetry'
      BY <1>3 DEF Failure, Goto, ClientInv, TypeOK, SleepersMayRetry
    <2> QED
      BY <1>3, <2>1, <2>2, <2>3, <2>4 DEF Failure, BelowThreshold, ClientInv, TypeOK,
         ClosedIsBelowThreshold
  <1>4. ASSUME NEW c \in Calls, Retry(c) PROVE ClientInv'
    BY <1>4 DEF Retry, Goto, ClientInv, TypeOK, ClosedIsBelowThreshold, SleepersMayRetry
  <1>5. CASE Inspect
    <2>1. BelowThreshold(Updated(breaker), streak)
      BY <1>t, <1>b, CountsDown DEF BelowThreshold
    <2>2. Updated(breaker) \in Breakers
      BY <1>t, BreakerTypes
    <2> QED
      BY <1>5, <2>1, <2>2 DEF Inspect, BelowThreshold, ClientInv, TypeOK,
         ClosedIsBelowThreshold, SleepersMayRetry
  <1>6. CASE ForceOpen
    <2>1. Open(breaker) \in Breakers /\ Open(breaker).state = "open"
      BY <1>t, BreakerTypes DEF Open
    <2> QED
      BY <1>6, <2>1 DEF ForceOpen, ClientInv, TypeOK, ClosedIsBelowThreshold, SleepersMayRetry
  <1>7. CASE Reset
    <2>1. NewBreaker \in Breakers /\ NewBreaker.failures = 0
      BY DEF NewBreaker, Breakers, Never
    <2> QED
      BY <1>t, <1>7, <2>1 DEF Reset, ClientInv, TypeOK, ClosedIsBelowThreshold, SleepersMayRetry
  <1>8. CASE Tick
    <2>1. BelowThreshold(Later(breaker), streak)
      BY <1>t, <1>b, CountsDown DEF BelowThreshold
    <2>2. Later(breaker) \in Breakers
      BY <1>t, BreakerTypes
    <2> QED
      BY <1>8, <2>1, <2>2 DEF Tick, BelowThreshold, ClientInv, TypeOK,
         ClosedIsBelowThreshold, SleepersMayRetry
  <1>9. CASE UNCHANGED vars
    BY <1>9 DEF vars, ClientInv, TypeOK, ClosedIsBelowThreshold, SleepersMayRetry
  <1> QED
    BY <1>1, <1>2, <1>3, <1>4, <1>5, <1>6, <1>7, <1>8, <1>9 DEF Next

(* The invariant holds in every reachable state. *)
THEOREM ClientInvariance == Spec => []ClientInv
  BY ClientInitInv, ClientNextInv, PTL DEF Spec

(* No call makes more attempts than it may, and the breaker stays a        *)
(* breaker, whatever is answered, waited for or forced.                    *)
THEOREM TypeCorrect == Spec => []TypeOK
  BY ClientInvariance, PTL DEF ClientInv

(* A closed breaker is below its threshold and counts only failures of the *)
(* running streak.                                                         *)
THEOREM ClosedBelowThreshold == Spec => []ClosedIsBelowThreshold
  BY ClientInvariance, PTL DEF ClientInv

(* What one step does to the state of the breaker: it opens only on a       *)
(* streak, and it closes only on a success.                                *)
LEMMA StateChanges ==
  ASSUME ClientInv, [Next]_vars
  PROVE  /\ breaker.state = "closed" /\ breaker'.state = "open" /\ ~ForceOpen
              => streak' >= FailureThreshold
         /\ breaker.state # "closed" /\ breaker'.state = "closed" /\ ~Reset
              => breaker.state = "half_open" /\ streak' = 0
  <1> DEFINE OpensIt == breaker.state = "closed" /\ breaker'.state = "open"
             ShutsIt == breaker.state # "closed" /\ breaker'.state = "closed"
             Goal == /\ OpensIt /\ ~ForceOpen => streak' >= FailureThreshold
                     /\ ShutsIt /\ ~Reset => breaker.state = "half_open" /\ streak' = 0
  <1> USE BreakerAssumption, ClientAssumption
  <1>t. breaker \in Breakers /\ breaker.failures \in Nat /\ streak \in Nat
    BY DEF ClientInv, TypeOK, Breakers
  <1>b. BelowThreshold(breaker, streak)
    BY DEF ClientInv, ClosedIsBelowThreshold, BelowThreshold
  <1>1. ASSUME NEW c \in Calls, Begin(c) PROVE Goal
    BY <1>1, <1>t, CountsDown DEF Begin
  <1>2. ASSUME NEW c \in Calls, Success(c) PROVE Goal
    <2>1. breaker' = AfterSuccess(breaker) /\ streak' = 0
      BY <1>2 DEF Success
    <2>2. ~OpensIt
      BY <1>t, <2>1, CountsDown
    <2>3. breaker.state \in {"closed", "open", "half_open"}
      BY <1>t DEF Breakers
    <2>4. ShutsIt => breaker.state = "half_open"
      BY <2>1, <2>3 DEF AfterSuccess
    <2> QED
      BY <2>1, <2>2, <2>4
  <1>3. ASSUME NEW c \in Calls, Failure(c) PROVE Goal
    <2>1. breaker' = AfterFailure(breaker)
      BY <1>3 DEF Failure
    <2>2. ~ShutsIt
      BY <1>t, <2>1, CountsUp
    <2>3. ASSUME OpensIt PROVE streak' >= FailureThreshold
      <3>1. breaker.failures + 1 >= FailureThreshold
        BY <1>t, <2>1, <2>3, CountsUp
      <3>2. breaker.failures + 1 <= streak'
        BY <1>3, <1>t, <1>b, <2>3 DEF Failure, BelowThreshold
      <3>3. streak' \in Nat
        BY <1>3, <1>t DEF Failure
      <3> QED
        BY <1>t, <3>1, <3>2, <3>3
    <2> QED
      BY <2>2, <2>3
  <1>4. ASSUME NEW c \in Calls, Retry(c) PROVE Goal
    BY <1>4 DEF Retry
  <1>5. CASE Inspect
    BY <1>5, <1>t, CountsDown DEF Inspect
  <1>6. CASE Tick
    BY <1>6, <1>t, CountsDown DEF Tick
  <1>7. CASE ForceOpen
    BY <1>7, <1>t DEF ForceOpen, Open
  <1>8. CASE Reset
    BY <1>8, <1>t DEF Reset, NewBreaker
  <1>9. CASE UNCHANGED vars
    BY <1>9 DEF vars
  <1> QED
    BY <1>1, <1>2, <1>3, <1>4, <1>5, <1>6, <1>7, <1>8, <1>9 DEF Next

(* Only failureThreshold failures in a row open a closed breaker, for any  *)
(* number of calls that share it.                                          *)
THEOREM OpeningNeedsStreak == Spec => OpensOnStreak
  <1>1. ClientInv /\ [Next]_vars =>
          [breaker.state = "closed" /\ breaker'.state = "open" /\ ~ForceOpen
             => streak' >= FailureThreshold]_vars
    BY StateChanges
  <1> QED
    BY <1>1, ClientInvariance, PTL DEF Spec, OpensOnStreak

(* Only the success of a call closes a breaker, and only one that has      *)
(* waited out its time.                                                    *)
THEOREM ClosingNeedsSuccess == Spec => ClosesOnSuccess
  <1>1. ClientInv /\ [Next]_vars =>
          [breaker.state # "closed" /\ breaker'.state = "closed" /\ ~Reset
             => breaker.state = "half_open" /\ streak' = 0]_vars
    BY StateChanges
  <1> QED
    BY <1>1, ClientInvariance, PTL DEF Spec, ClosesOnSuccess

-----------------------------------------------------------------------------
(* Connections.  A client is idle, or in the hands of one call that still  *)
(* has to release it, or gone; the place of a call says how many it holds. *)

(* What a call is: where it stands tells how many clients it can hold.      *)
PoolCall == [kind : {"none", "query", "check", "transaction", "process"},
          at : {"rest", "connect", "granted", "inventory", "inventory granted", "search",
                "column", "column granted", "rollback", "release"},
          holds : SUBSET DbClients,
          left : 0..MaxColumns]
Waiting == {"connect", "inventory", "column"}
AtMostOne(S) == \A k, m \in S : k = m
HoldsFit(call) ==
  /\ call.at \in {"rest", "connect"} => call.holds = {}
  /\ call.at \notin {"inventory granted", "column granted"} => AtMostOne(call.holds)
  /\ \A k \in call.holds : AtMostOne(call.holds \ {k})

PoolShape ==
  /\ dbCall \in [DbCalls -> PoolCall]
  /\ \A c \in DbCalls : HoldsFit(dbCall[c])
  /\ queue \in Seq(DbCalls) /\ IsInjective(queue)
  /\ \A c \in DbCalls : c \in Range(queue) => dbCall[c].at \in Waiting

(* Every open client is in one place: idle, in the hands of a call, lost.   *)
InHands(k) == \E c \in DbCalls : k \in dbCall[c].holds
PoolHeld ==
  /\ \A c, d \in DbCalls : \A k \in dbCall[c].holds : k \in dbCall[d].holds => c = d
  /\ \A k \in spare : k \notin forgotten /\ ~InHands(k)
  /\ \A k \in forgotten : ~InHands(k)
  /\ \A k : k \in opened <=> k \in spare \/ k \in forgotten \/ InHands(k)
  /\ spare \subseteq DbClients /\ opened \subseteq DbClients

PoolInv == PoolShape /\ PoolHeld

LEMMA NoCallFits == NoCall \in PoolCall /\ HoldsFit(NoCall)
BY ColumnsAssumption DEF NoCall, PoolCall, HoldsFit, AtMostOne

(* A call whose clients stay in its hands.                                  *)
LEMMA HandsStay ==
  ASSUME PoolHeld, UNCHANGED <<opened, spare, forgotten>>,
         \A d \in DbCalls : dbCall'[d].holds = dbCall[d].holds
  PROVE  PoolHeld'
BY DEF PoolHeld, InHands

(* A call moves: what it is then, and what the queue is.                    *)
LEMMA ShapeStays ==
  ASSUME PoolShape, NEW c \in DbCalls, NEW call \in PoolCall, HoldsFit(call),
         dbCall' = [dbCall EXCEPT ![c] = call],
         queue' \in Seq(DbCalls), IsInjective(queue'),
         Range(queue') \subseteq Range(queue) \cup {c},
         c \in Range(queue') => call.at \in Waiting
  PROVE  PoolShape'
<1>1. dbCall \in [DbCalls -> PoolCall]
  BY DEF PoolShape
<1>2. dbCall' \in [DbCalls -> PoolCall] /\ dbCall'[c] = call
      /\ \A d \in DbCalls : d # c => dbCall'[d] = dbCall[d]
  BY <1>1
<1>3. \A d \in DbCalls : HoldsFit(dbCall'[d])
  BY <1>2 DEF PoolShape
<1>4. \A d \in DbCalls : d \in Range(queue') => dbCall'[d].at \in Waiting
  BY <1>2 DEF PoolShape
<1>5. QED
  BY <1>2, <1>3, <1>4 DEF PoolShape, HoldsFit, AtMostOne

(* A call that is not in the queue moves.                                   *)
LEMMA MovesOn ==
  ASSUME PoolInv, NEW c \in DbCalls, NEW at \in {"rollback", "release"},
         dbCall[c].at \in {"granted", "search", "rollback"},
         CallGo(c, at), UNCHANGED <<opened, spare, queue, forgotten>>
  PROVE  PoolInv'
<1> DEFINE call == [dbCall[c] EXCEPT !.at = at]
<1>1. dbCall[c] \in PoolCall /\ c \notin Range(queue) /\ HoldsFit(dbCall[c])
  BY DEF PoolInv, PoolShape, Waiting
<1>2. call \in PoolCall /\ call.holds = dbCall[c].holds /\ call.at = at
  BY <1>1 DEF PoolCall
<1>3. dbCall' = [dbCall EXCEPT ![c] = call]
  BY DEF CallGo
<1>4. HoldsFit(call)
  BY <1>1, <1>2 DEF HoldsFit
<1> HIDE DEF call
<1>5. PoolShape'
  BY <1>1, <1>2, <1>3, <1>4, ShapeStays DEF PoolInv, PoolShape
<1>6. PoolHeld'
  BY <1>2, <1>3, HandsStay DEF PoolInv, PoolShape
<1>7. QED
  BY <1>5, <1>6 DEF PoolInv

(* A call ends with its one client, which goes back, is closed or is lost.  *)
LEMMA EndsHolding ==
  ASSUME PoolInv, NEW c \in DbCalls, NEW k \in dbCall[c].holds,
         dbCall[c].at \in {"granted", "release"},
         \/ GivesBack(k) /\ UNCHANGED forgotten
         \/ Closes(k) /\ UNCHANGED forgotten
         \/ forgotten' = forgotten \cup {k} /\ UNCHANGED <<opened, spare>>,
         dbCall' = [dbCall EXCEPT ![c] = NoCall], UNCHANGED queue
  PROVE  PoolInv'
<1>1. dbCall[c] \in PoolCall /\ c \notin Range(queue) /\ HoldsFit(dbCall[c])
      /\ dbCall \in [DbCalls -> PoolCall]
  BY DEF PoolInv, PoolShape, Waiting
<1>2. dbCall[c].holds = {k} /\ k \in DbClients
  <2>1. dbCall[c].holds \subseteq DbClients
    BY <1>1 DEF PoolCall
  <2>2. \A m \in dbCall[c].holds : m = k
    BY <1>1 DEF HoldsFit, AtMostOne
  <2>3. QED
    BY <2>1, <2>2
<1>3. NoCall \in PoolCall /\ HoldsFit(NoCall)
  BY NoCallFits
<1>4. PoolShape'
  BY <1>1, <1>3, ShapeStays DEF PoolInv, PoolShape
<1>5. dbCall'[c].holds = {} /\ \A d \in DbCalls : d # c => dbCall'[d] = dbCall[d]
  BY <1>1 DEF NoCall
<1>6. PoolHeld'
  BY <1>2, <1>5 DEF PoolInv, PoolHeld, InHands, GivesBack, Closes
<1>7. QED
  BY <1>4, <1>6 DEF PoolInv

LEMMA PoolStarts ==
  ASSUME PoolInit PROVE PoolInv
<1>1. NoCall \in PoolCall /\ HoldsFit(NoCall) /\ NoCall.holds = {}
  BY NoCallFits DEF NoCall
<1>2. queue \in Seq(DbCalls) /\ IsInjective(queue) /\ Range(queue) = {}
  BY DEF PoolInit, IsInjective, Range
<1>3. QED
  BY <1>1, <1>2 DEF PoolInit, PoolInv, PoolShape, PoolHeld, InHands

LEMMA BeginsKeeps ==
  ASSUME PoolInv, NEW c \in DbCalls, NEW sort \in {"query", "check", "transaction", "process"},
         Begins(c, sort)
  PROVE  PoolInv'
<1> DEFINE call == [dbCall[c] EXCEPT !.kind = sort, !.at = "connect"]
<1>1. dbCall[c] \in PoolCall /\ c \notin Range(queue) /\ HoldsFit(dbCall[c]) /\ dbCall[c].at = "rest"
      /\ dbCall \in [DbCalls -> PoolCall] /\ queue \in Seq(DbCalls) /\ IsInjective(queue)
  BY DEF PoolInv, PoolShape, Begins, CallAt, Waiting
<1>2. dbCall' = [dbCall EXCEPT ![c] = call]
  BY <1>1 DEF Begins, PoolCall
<1>3. call \in PoolCall /\ call.at = "connect" /\ call.holds = dbCall[c].holds
  BY <1>1 DEF PoolCall
<1>4. HoldsFit(call)
  BY <1>1, <1>3 DEF HoldsFit
<1> HIDE DEF call
<1>5. queue' \in Seq(DbCalls) /\ IsInjective(queue') /\ Range(queue') = Range(queue) \cup {c}
  BY <1>1, AppendPutsIn DEF Begins
<1>6. PoolShape'
  BY <1>2, <1>3, <1>4, <1>5, ShapeStays DEF PoolInv, Waiting
<1>7. PoolHeld'
  BY <1>1, <1>2, <1>3, HandsStay DEF PoolInv, Begins
<1>8. QED
  BY <1>6, <1>7 DEF PoolInv

LEMMA ServeKeeps ==
  ASSUME PoolInv, Serve PROVE PoolInv'
<1>1. dbCall \in [DbCalls -> PoolCall] /\ queue \in Seq(DbCalls) /\ IsInjective(queue)
  BY DEF PoolInv, PoolShape
<1> DEFINE c == Head(queue)
<1>2. c \in DbCalls /\ c \in Range(queue)
      /\ queue' \in Seq(DbCalls) /\ IsInjective(queue') /\ Range(queue') = Range(queue) \ {c}
  BY <1>1, TailTakesOut DEF Serve
<1>3. PICK k \in Available :
        /\ opened' = opened \cup {k} /\ spare' = spare \ {k}
        /\ dbCall' = [dbCall EXCEPT ![c].at = Granted(@), ![c].holds = @ \cup {k}]
  BY DEF Serve
<1>4. k \in DbClients /\ k \notin forgotten /\ ~InHands(k) /\ (k \in spare \/ k \notin opened)
  BY DEF Available, PoolInv, PoolHeld
<1> HIDE DEF c
<1> DEFINE at == Granted(dbCall[c].at)
           call == [dbCall[c] EXCEPT !.at = at, !.holds = dbCall[c].holds \cup {k}]
<1>5. dbCall[c] \in PoolCall /\ HoldsFit(dbCall[c]) /\ dbCall[c].at \in Waiting
  BY <1>1, <1>2 DEF PoolInv, PoolShape
<1>6. dbCall' = [dbCall EXCEPT ![c] = call]
  BY <1>1, <1>3
<1>a. /\ dbCall[c].at = "connect" => at = "granted"
      /\ dbCall[c].at = "inventory" => at = "inventory granted"
      /\ dbCall[c].at = "column" => at = "column granted"
  BY DEF Granted
<1> HIDE DEF at
<1>7. call \in PoolCall /\ call.at = at /\ call.holds = dbCall[c].holds \cup {k}
  BY <1>4, <1>5, <1>a DEF PoolCall, Waiting
<1> HIDE DEF call
<1>8. HoldsFit(call)
  BY <1>5, <1>7, <1>a DEF HoldsFit, AtMostOne, Waiting
<1>9. PoolShape'
  BY <1>2, <1>6, <1>7, <1>8, ShapeStays DEF PoolInv
<1>10. dbCall'[c].holds = dbCall[c].holds \cup {k}
       /\ \A d \in DbCalls : d # c => dbCall'[d] = dbCall[d]
  BY <1>1, <1>2, <1>6, <1>7
<1>11. \A m : InHands(m)' <=> InHands(m) \/ m = k
  BY <1>2, <1>10 DEF InHands
<1>12. \A a, b \in DbCalls : \A m \in dbCall'[a].holds : m \in dbCall'[b].holds => a = b
  BY <1>4, <1>10 DEF PoolInv, PoolHeld, InHands
<1>13. PoolHeld'
  BY <1>3, <1>4, <1>11, <1>12 DEF PoolInv, PoolHeld, Serve
<1>14. QED
  BY <1>9, <1>13 DEF PoolInv

LEMMA TimesOutKeeps ==
  ASSUME PoolInv, NEW c \in DbCalls, TimesOut(c) PROVE PoolInv'
<1> DEFINE call == GivesUp(dbCall[c])
<1>1. dbCall \in [DbCalls -> PoolCall] /\ queue \in Seq(DbCalls) /\ IsInjective(queue)
      /\ HoldsFit(dbCall[c]) /\ dbCall[c] \in PoolCall
  BY DEF PoolInv, PoolShape
<1>2. queue' \in Seq(DbCalls) /\ IsInjective(queue') /\ Range(queue') = Range(queue) \ {c}
  BY <1>1, RemoveFirstTakesOut DEF TimesOut
<1>3. dbCall' = [dbCall EXCEPT ![c] = call] /\ dbCall[c].at \in Waiting
  BY DEF TimesOut, Waits, PoolInv, PoolShape
<1>4. call \in PoolCall /\ call.holds = dbCall[c].holds /\ HoldsFit(call)
  <2>1. CASE dbCall[c].at = "connect"
    <3>1. call = NoCall /\ dbCall[c].holds = {}
      BY <1>1, <2>1 DEF GivesUp, HoldsFit
    <3>2. QED
      BY <3>1, NoCallFits DEF NoCall
  <2>2. CASE dbCall[c].at = "inventory"
    <3>1. call = [dbCall[c] EXCEPT !.at = "rollback"]
      BY <2>2 DEF GivesUp
    <3>2. QED
      BY <1>1, <2>2, <3>1 DEF PoolCall, HoldsFit
  <2>3. CASE dbCall[c].at = "column"
    <3>1. call = [dbCall[c] EXCEPT !.at = "search"]
      BY <2>3 DEF GivesUp
    <3>2. QED
      BY <1>1, <2>3, <3>1 DEF PoolCall, HoldsFit
  <2>4. QED
    BY <1>3, <2>1, <2>2, <2>3 DEF Waiting
<1> HIDE DEF call
<1>5. PoolShape'
  BY <1>2, <1>3, <1>4, ShapeStays DEF PoolInv
<1>6. PoolHeld'
  BY <1>1, <1>3, <1>4, HandsStay DEF PoolInv, TimesOut
<1>7. QED
  BY <1>5, <1>6 DEF PoolInv

(* A call asks the pool again, with the client it has.                      *)
LEMMA AsksAgainKeeps ==
  ASSUME PoolInv, NEW c \in DbCalls, NEW at \in {"inventory", "column"}, NEW left \in 0..MaxColumns,
         dbCall[c].at \in {"granted", "search"},
         dbCall' = [dbCall EXCEPT ![c].at = at, ![c].left = left],
         queue' = Append(queue, c), UNCHANGED <<opened, spare, forgotten>>
  PROVE  PoolInv'
<1> DEFINE call == [dbCall[c] EXCEPT !.at = at, !.left = left]
<1>1. dbCall[c] \in PoolCall /\ c \notin Range(queue) /\ HoldsFit(dbCall[c])
      /\ dbCall \in [DbCalls -> PoolCall] /\ queue \in Seq(DbCalls) /\ IsInjective(queue)
  BY DEF PoolInv, PoolShape, Waiting
<1>2. dbCall' = [dbCall EXCEPT ![c] = call]
  BY <1>1
<1>3. call \in PoolCall /\ call.at = at /\ call.holds = dbCall[c].holds
  BY <1>1 DEF PoolCall
<1>4. HoldsFit(call)
  BY <1>1, <1>3 DEF HoldsFit
<1> HIDE DEF call
<1>5. queue' \in Seq(DbCalls) /\ IsInjective(queue') /\ Range(queue') = Range(queue) \cup {c}
  BY <1>1, AppendPutsIn
<1>6. PoolShape'
  BY <1>2, <1>3, <1>4, <1>5, ShapeStays DEF PoolInv, Waiting
<1>7. PoolHeld'
  BY <1>1, <1>2, <1>3, HandsStay DEF PoolInv
<1>8. QED
  BY <1>6, <1>7 DEF PoolInv

LEMMA ReadsRequestKeeps ==
  ASSUME PoolInv, NEW c \in DbCalls, ReadsRequest(c) PROVE PoolInv'
<1>1. CASE CallGo(c, "inventory") /\ queue' = Append(queue, c)
  <2>1. dbCall[c] \in PoolCall /\ dbCall \in [DbCalls -> PoolCall]
    BY DEF PoolInv, PoolShape
  <2>2. dbCall[c].left \in 0..MaxColumns
    BY <2>1 DEF PoolCall
  <2>3. dbCall' = [dbCall EXCEPT ![c].at = "inventory", ![c].left = dbCall[c].left]
    BY <1>1, <2>1 DEF CallGo, PoolCall
  <2>4. QED
    BY <1>1, <2>2, <2>3, AsksAgainKeeps DEF ReadsRequest, CallAt
<1>2. CASE (CallGo(c, "release") \/ CallGo(c, "rollback")) /\ UNCHANGED queue
  BY <1>2, MovesOn DEF ReadsRequest, CallAt
<1>3. QED
  BY <1>1, <1>2 DEF ReadsRequest

LEMMA NextColumnKeeps ==
  ASSUME PoolInv, NEW c \in DbCalls, NextColumn(c) PROVE PoolInv'
<1>1. dbCall[c] \in PoolCall
  BY DEF PoolInv, PoolShape
<1>2. dbCall[c].left \in 0..MaxColumns
  BY <1>1 DEF PoolCall
<1>3. dbCall[c].left - 1 \in 0..MaxColumns
  BY <1>2, ColumnsAssumption DEF NextColumn
<1>4. QED
  BY <1>3, AsksAgainKeeps DEF NextColumn, CallAt

(* An inner query ends; its client goes back or is closed.                  *)
LEMMA NestedKeeps ==
  ASSUME PoolInv, NEW c \in DbCalls, NEW k \in dbCall[c].holds,
         NEW at \in {"search", "rollback"}, NEW left \in 0..MaxColumns,
         dbCall[c].at \in {"inventory granted", "column granted"},
         GivesBack(k) \/ Closes(k),
         dbCall' = [dbCall EXCEPT ![c].holds = @ \ {k}, ![c].at = at, ![c].left = left],
         UNCHANGED <<queue, forgotten>>
  PROVE  PoolInv'
<1> DEFINE call == [dbCall[c] EXCEPT !.holds = dbCall[c].holds \ {k}, !.at = at, !.left = left]
<1>1. dbCall[c] \in PoolCall /\ c \notin Range(queue) /\ HoldsFit(dbCall[c])
      /\ dbCall \in [DbCalls -> PoolCall]
  BY DEF PoolInv, PoolShape, Waiting
<1>3. dbCall' = [dbCall EXCEPT ![c] = call]
  BY <1>1
<1>4. call \in PoolCall /\ call.at = at /\ call.holds = dbCall[c].holds \ {k} /\ k \in DbClients
  BY <1>1 DEF PoolCall
<1> HIDE DEF call
<1>5. HoldsFit(call)
  BY <1>1, <1>4 DEF HoldsFit, AtMostOne
<1>6. PoolShape'
  BY <1>1, <1>3, <1>4, <1>5, ShapeStays DEF PoolInv, PoolShape
<1>7. dbCall'[c].holds = dbCall[c].holds \ {k}
      /\ \A d \in DbCalls : d # c => dbCall'[d] = dbCall[d]
  BY <1>1, <1>3, <1>4
<1>8. \A m : InHands(m)' <=> InHands(m) /\ m # k
  <2>1. \A d \in DbCalls : k \in dbCall[d].holds => d = c
    BY DEF PoolInv, PoolHeld
  <2>2. \A d \in DbCalls : \A m : m \in dbCall'[d].holds <=> m \in dbCall[d].holds /\ m # k
    BY <1>7, <2>1
  <2>3. QED
    BY <2>2 DEF InHands
<1>9. \A a, b \in DbCalls : \A m \in dbCall'[a].holds : m \in dbCall'[b].holds => a = b
  BY <1>7 DEF PoolInv, PoolHeld
<1>10. InHands(k) /\ UNCHANGED forgotten
       /\ \/ spare' = spare \cup {k} /\ opened' = opened
          \/ spare' = spare /\ opened' = opened \ {k}
  BY DEF InHands, GivesBack, Closes
<1>11. PoolHeld'
  BY <1>4, <1>8, <1>9, <1>10 DEF PoolInv, PoolHeld
<1>12. QED
  BY <1>6, <1>11 DEF PoolInv

LEMMA InventoryRunsKeeps ==
  ASSUME PoolInv, NEW c \in DbCalls, InventoryRuns(c) PROVE PoolInv'
<1>1. dbCall[c] \in PoolCall /\ dbCall \in [DbCalls -> PoolCall]
  BY DEF PoolInv, PoolShape
<1>2. PICK k \in dbCall[c].holds, n \in 0..MaxColumns :
        \/ /\ GivesBack(k)
           /\ dbCall' = [dbCall EXCEPT ![c].holds = @ \ {k}, ![c].at = "search", ![c].left = n]
        \/ /\ Closes(k)
           /\ dbCall' = [dbCall EXCEPT ![c].holds = @ \ {k}, ![c].at = "rollback"]
  BY DEF InventoryRuns
<1>3. CASE /\ GivesBack(k)
           /\ dbCall' = [dbCall EXCEPT ![c].holds = @ \ {k}, ![c].at = "search", ![c].left = n]
  BY <1>3, NestedKeeps DEF InventoryRuns, CallAt
<1>4. CASE /\ Closes(k)
           /\ dbCall' = [dbCall EXCEPT ![c].holds = @ \ {k}, ![c].at = "rollback"]
  <2>1. dbCall[c].left \in 0..MaxColumns
    BY <1>1 DEF PoolCall
  <2>2. dbCall' = [dbCall EXCEPT ![c].holds = @ \ {k}, ![c].at = "rollback", ![c].left = dbCall[c].left]
    BY <1>1, <1>4 DEF PoolCall
  <2>3. QED
    BY <1>4, <2>1, <2>2, NestedKeeps DEF InventoryRuns, CallAt
<1>5. QED
  BY <1>2, <1>3, <1>4

LEMMA ColumnRunsKeeps ==
  ASSUME PoolInv, NEW c \in DbCalls, ColumnRuns(c) PROVE PoolInv'
<1>1. dbCall[c] \in PoolCall /\ dbCall \in [DbCalls -> PoolCall]
  BY DEF PoolInv, PoolShape
<1>2. PICK k \in dbCall[c].holds :
        /\ GivesBack(k) \/ Closes(k)
        /\ dbCall' = [dbCall EXCEPT ![c].holds = @ \ {k}, ![c].at = "search"]
  BY DEF ColumnRuns
<1>3. dbCall[c].left \in 0..MaxColumns
  BY <1>1 DEF PoolCall
<1>4. dbCall' = [dbCall EXCEPT ![c].holds = @ \ {k}, ![c].at = "search", ![c].left = dbCall[c].left]
  BY <1>1, <1>2 DEF PoolCall
<1>5. QED
  BY <1>2, <1>3, <1>4, NestedKeeps DEF ColumnRuns, CallAt

LEMMA PoolStepKeeps ==
  ASSUME PoolInv, NEW c \in DbCalls, PoolStep(c) PROVE PoolInv'
<1>1. CASE QueryRuns(c)
  BY <1>1, EndsHolding DEF QueryRuns, CallAt
<1>2. CASE CheckRuns(c)
  BY <1>2, EndsHolding DEF CheckRuns, CallAt
<1>3. CASE CallbackRuns(c)
  BY <1>3, MovesOn DEF CallbackRuns, CallAt
<1>4. CASE RollsBack(c)
  BY <1>4, MovesOn DEF RollsBack, CallAt
<1>5. CASE Releases(c)
  BY <1>5, EndsHolding DEF Releases, CallAt
<1>6. CASE ReadsRequest(c) \/ InventoryRuns(c) \/ NextColumn(c) \/ ColumnRuns(c)
  BY <1>6, ReadsRequestKeeps, InventoryRunsKeeps, NextColumnKeeps, ColumnRunsKeeps
<1>7. CASE ProcessEnds(c)
  BY <1>7, MovesOn DEF ProcessEnds, CallAt
<1>8. QED
  BY <1>1, <1>2, <1>3, <1>4, <1>5, <1>6, <1>7 DEF PoolStep

LEMMA RetireKeeps ==
  ASSUME PoolInv, NEW k \in DbClients, Retire(k) PROVE PoolInv'
<1>1. PoolShape'
  BY DEF PoolInv, PoolShape, Retire
<1>2. PoolHeld'
  BY DEF PoolInv, PoolHeld, InHands, Retire
<1>3. QED
  BY <1>1, <1>2 DEF PoolInv

LEMMA PoolKeeps ==
  ASSUME PoolInv, [PoolNext]_poolVars PROVE PoolInv'
<1>1. CASE Serve
  BY <1>1, ServeKeeps
<1>2. ASSUME NEW c \in DbCalls,
             \/ Query(c) \/ HealthCheck(c) \/ Transaction(c) \/ ProcessRequest(c)
             \/ PoolStep(c) \/ TimesOut(c)
      PROVE  PoolInv'
  BY <1>2, BeginsKeeps, PoolStepKeeps, TimesOutKeeps
     DEF Query, HealthCheck, Transaction, ProcessRequest
<1>3. ASSUME NEW k \in DbClients, Retire(k) PROVE PoolInv'
  BY <1>3, RetireKeeps
<1>4. CASE UNCHANGED poolVars
  BY <1>4 DEF poolVars, PoolInv, PoolShape, PoolHeld, InHands
<1>5. QED
  BY <1>1, <1>2, <1>3, <1>4 DEF PoolNext

(* Of any number of clients and calls, whatever fails and whoever gives up  *)
(* waiting: an open client is idle, held by one call, or was lost by a      *)
(* health check.                                                            *)
THEOREM ClientsComeBack == PoolSpec => []ClientsAreReturned
<1>1. PoolInit => PoolInv
  BY PoolStarts
<1>2. PoolInv /\ [PoolNext]_poolVars => PoolInv'
  BY PoolKeeps
<1>3. PoolInv => ClientsAreReturned
  <2> SUFFICES ASSUME PoolInv, NEW k \in opened
               PROVE  Cardinality({c \in DbCalls : k \in dbCall[c].holds})
                        + (IF k \in spare THEN 1 ELSE 0) + (IF k \in forgotten THEN 1 ELSE 0) = 1
    BY DEF ClientsAreReturned
  <2> DEFINE H == {c \in DbCalls : k \in dbCall[c].holds}
  <2>1. CASE InHands(k)
    <3>1. PICK c \in DbCalls : k \in dbCall[c].holds
      BY <2>1 DEF InHands
    <3>2. H = {c} /\ k \notin spare /\ k \notin forgotten
      BY <2>1, <3>1 DEF PoolInv, PoolHeld
    <3>3. Cardinality(H) = 1
      BY <3>2, FS_Singleton
    <3>4. QED
      BY <3>2, <3>3
  <2>2. CASE ~InHands(k)
    <3>1. H = {}
      BY <2>2 DEF InHands
    <3>2. Cardinality(H) = 0
      BY <3>1, FS_EmptySet
    <3>3. (k \in spare /\ k \notin forgotten) \/ (k \in forgotten /\ k \notin spare)
      BY <2>2 DEF PoolInv, PoolHeld
    <3>4. QED
      BY <3>2, <3>3
  <2>3. QED
    BY <2>1, <2>2
<1>4. QED
  BY <1>1, <1>2, <1>3, PTL DEF PoolSpec

-----------------------------------------------------------------------------
(* Events.  A process handles an event at most once, for Redis is given it *)
(* once: what waits in an inbox is published, waits there once, and its    *)
(* process has neither begun nor asked for anything because of it.  A      *)
(* handler asks for one thing or for two, and asks for the second when     *)
(* the first has reached its service; so has the first when an attempt at  *)
(* the second is on its way that nobody waits for any more.                *)

Requests ==
  {<<"audit", "model-created">>, <<"policy-engine", "evaluate">>, <<"evaluation", "run">>,
   <<"audit", "version-created">>, <<"deployment", "prepare">>, <<"audit", "state-changed">>,
   <<"policy-engine", "block">>, <<"model-registry", "evaluations">>,
   <<"deployment", "rollback">>}

From(p, r) == <<p, r[1], r[2]>>
Heard == {From(p, r) : p \in Processes, r \in Requests}

MessagingTypeOK ==
  /\ kind \in [Events -> Event]
  /\ inbox \in [Processes -> Seq(Events)]
  /\ published \in Seq(Events)
  /\ running \in [Processes -> [Events -> Seq(Requests)]]
  /\ received \in [Events -> Seq(Heard)]
  /\ DOMAIN late = Events /\ \A e \in Events : DOMAIN late[e] \subseteq Heard

(* nothing of e has happened in p *)
Fresh(p, e) ==
  /\ running[p][e] = <<>>
  /\ \A n \in 1..Len(received[e]) : received[e][n][1] # p
  /\ \A r \in DOMAIN late[e] : r[1] # p

WaitingIsFresh ==
  \A p \in Processes :
    /\ IsInjective(inbox[p])
    /\ \A e \in Range(inbox[p]) : e \in Range(published) /\ Fresh(p, e)

UnpublishedIsFresh ==
  \A e \in Events : e \notin Range(published) => \A p \in Processes : Fresh(p, e)

(* what is left of a handler that asks for calls *)
Begun(r, calls) == r = calls /\ calls # <<>>
Halfway(r, calls) == Len(calls) = 2 /\ r = <<calls[2]>>

Hears(heard, r) == \E n \in 1..Len(heard) : heard[n] = r

(* r is what the handler asks for first, or second when the first was heard *)
Due(r, calls, p, heard) ==
  \/ Len(calls) >= 1 /\ r = From(p, calls[1])
  \/ Len(calls) = 2 /\ r = From(p, calls[2]) /\ Hears(heard, From(p, calls[1]))

InPlace(left, calls, p, heard, away) ==
  /\ left = <<>> \/ Begun(left, calls) \/ Halfway(left, calls)
  /\ Begun(left, calls) => \A r \in away : r[1] = p => r = From(p, calls[1])
  /\ Halfway(left, calls) => Hears(heard, From(p, calls[1]))

InOrder(left, calls, p, heard, away) ==
  /\ InPlace(left, calls, p, heard, away)
  /\ \A r \in away : r[1] = p => Due(r, calls, p, heard)

HandlersInOrder ==
  \A p \in Processes, e \in Events :
    InOrder(running[p][e], Handler(kind[e]), p, received[e], DOMAIN late[e])

(* the n-th of heard comes in its turn: HeldBack says it of all            *)
InTurn(heard, marked, n) ==
  LET before == {heard[k] : k \in 1..(n - 1)}
      p == heard[n][1]
  IN  marked =>
        /\ heard[n] = <<p, "model-registry", "evaluations">>
             => <<p, "policy-engine", "block">> \in before
        /\ heard[n] = <<p, "audit", "state-changed">>
             => <<p, "deployment", "prepare">> \in before

MessagingInv ==
  MessagingTypeOK /\ WaitingIsFresh /\ UnpublishedIsFresh /\ HandlersInOrder /\ HeldBack

(* Every handler: at most two requests; the results of an evaluation that  *)
(* did not pass come second, after the block, and the audit of an approval *)
(* after the preparation.                                                  *)
FirstOf(r) == IF r = <<"model-registry", "evaluations">> THEN <<"policy-engine", "block">>
                                                        ELSE <<"deployment", "prepare">>
HeldRequests == {<<"model-registry", "evaluations">>, <<"audit", "state-changed">>}
LEMMA HandlerShape ==
  ASSUME NEW k \in Event
  PROVE  /\ Handler(k) \in Seq(Requests) /\ Len(Handler(k)) <= 2
         /\ \A i \in 1..Len(Handler(k)) :
              Handler(k)[i] \in HeldRequests /\ k.marked
                => i = 2 /\ Handler(k)[1] = FirstOf(Handler(k)[2])
<1>s. /\ <<"audit", "model-created">> \in Requests /\ <<"policy-engine", "evaluate">> \in Requests
      /\ <<"evaluation", "run">> \in Requests /\ <<"audit", "version-created">> \in Requests
      /\ <<"deployment", "prepare">> \in Requests /\ <<"audit", "state-changed">> \in Requests
      /\ <<"policy-engine", "block">> \in Requests
      /\ <<"model-registry", "evaluations">> \in Requests /\ <<"deployment", "rollback">> \in Requests
  BY DEF Requests
<1>b. k.marked \in BOOLEAN /\ k.type \in TypeSet
  BY DEF Event
<1>e. ASSUME NEW a, NEW b
      PROVE  <<a>> \o <<b>> = <<a, b>> /\ <<>> \o <<b>> = <<b>>
  <2> DEFINE T == {a, b}
  <2>1. <<a>> \in Seq(T) /\ <<b>> \in Seq(T) /\ <<a, b>> \in Seq(T)
    OBVIOUS
  <2>2. <<>> \o <<b>> = <<b>>
    BY <2>1, ConcatEmptySeq
  <2> DEFINE q == <<a>> \o <<b>>
  <2>3. q \in Seq(T) /\ Len(q) = 2 /\ q[1] = a /\ q[2] = b
    BY <2>1, ConcatProperties
  <2> HIDE DEF q, T
  <2>4. q = <<a, b>>
    BY <2>1, <2>3, SeqEqual
  <2> QED BY <2>2, <2>4 DEF q
<1>t. k.type \in {"model.created", "version.created", "version.state.changed", "policy.violation",
                  "approval.required", "evaluation.completed", "threshold.violated",
                  "deployment.failed", "slo.violation"}
  BY <1>b DEF TypeSet, EventTypes
<1>1. CASE k.type = "model.created"
  <2>1. Handler(k) = <<<<"audit", "model-created">>, <<"policy-engine", "evaluate">>>>
    BY <1>1 DEF Handler, HandleModelCreated
  <2> QED BY <2>1, <1>s DEF HeldRequests, FirstOf
<1>2. CASE k.type = "version.created"
  <2>1. Handler(k) = <<<<"evaluation", "run">>, <<"audit", "version-created">>>>
    BY <1>2 DEF Handler, HandleVersionCreated
  <2> QED BY <2>1, <1>s DEF HeldRequests, FirstOf
<1>3. CASE k.type = "version.state.changed"
  <2>1. Handler(k) = IF k.marked THEN <<<<"deployment", "prepare">>, <<"audit", "state-changed">>>>
                                 ELSE <<<<"audit", "state-changed">>>>
    BY <1>3, <1>b, <1>e DEF Handler, HandleVersionStateChanged, When
  <2>2. CASE k.marked
    BY <2>1, <2>2, <1>s DEF HeldRequests, FirstOf
  <2>3. CASE ~k.marked
    BY <2>1, <2>3, <1>s DEF HeldRequests, FirstOf
  <2> QED BY <2>2, <2>3
<1>4. CASE k.type \in {"policy.violation", "threshold.violated"}
  <2>1. Handler(k) \in {<<>>, <<<<"policy-engine", "block">>>>}
    BY <1>4 DEF Handler, HandlePolicyViolation, HandleThresholdViolated, When
  <2>2. CASE Handler(k) = <<>>
    BY <2>2 DEF HeldRequests
  <2>3. CASE Handler(k) = <<<<"policy-engine", "block">>>>
    BY <2>3, <1>s DEF HeldRequests, FirstOf
  <2> QED BY <2>1, <2>2, <2>3
<1>5. CASE k.type = "approval.required"
  <2>1. Handler(k) = <<>>
    BY <1>5 DEF Handler, HandleApprovalRequired
  <2> QED BY <2>1 DEF HeldRequests
<1>6. CASE k.type = "evaluation.completed"
  <2>1. Handler(k) =
          IF k.marked THEN <<<<"policy-engine", "block">>, <<"model-registry", "evaluations">>>>
                      ELSE <<<<"model-registry", "evaluations">>>>
    BY <1>6, <1>b, <1>e DEF Handler, HandleEvaluationCompleted, When
  <2>2. CASE k.marked
    BY <2>1, <2>2, <1>s DEF HeldRequests, FirstOf
  <2>3. CASE ~k.marked
    BY <2>1, <2>3, <1>s DEF HeldRequests, FirstOf
  <2> QED BY <2>2, <2>3
<1>7. CASE k.type \in {"deployment.failed", "slo.violation"}
  <2>1. Handler(k) \in {<<>>, <<<<"deployment", "rollback">>>>}
    BY <1>7 DEF Handler, HandleDeploymentFailed, HandleSLOViolation, When
  <2>2. CASE Handler(k) = <<>>
    BY <2>2 DEF HeldRequests
  <2>3. CASE Handler(k) = <<<<"deployment", "rollback">>>>
    BY <2>3, <1>s DEF HeldRequests, FirstOf
  <2> QED BY <2>1, <2>2, <2>3
<1> QED BY <1>t, <1>1, <1>2, <1>3, <1>4, <1>5, <1>6, <1>7

(* What a service hears is the request and who asks.                       *)
LEMMA FromIsWhatIsHeard ==
  ASSUME NEW p, NEW r \in Requests
  PROVE  <<p>> \o r = From(p, r)
<1>1. PICK a, b : r = <<a, b>>
  BY DEF Requests
<1> DEFINE T == {p, a, b}
           q == <<p>> \o r
<1>2. <<p>> \in Seq(T) /\ r \in Seq(T) /\ <<p, a, b>> \in Seq(T) /\ Len(r) = 2
  BY <1>1
<1>3. q \in Seq(T) /\ Len(q) = 3 /\ q[1] = p /\ q[2] = r[1] /\ q[3] = r[2]
  <2> DEFINE s == <<p>>
  <2>1. s \in Seq(T) /\ Len(s) = 1 /\ s[1] = p /\ r \in Seq(T) /\ Len(r) = 2
    BY <1>2
  <2> HIDE DEF s, T
  <2>2. /\ s \o r \in Seq(T) /\ Len(s \o r) = Len(s) + Len(r)
        /\ \A i \in 1..(Len(s) + Len(r)) :
             (s \o r)[i] = IF i <= Len(s) THEN s[i] ELSE r[i - Len(s)]
    BY <2>1, ConcatProperties
  <2> HIDE DEF q
  <2>3. q = s \o r
    BY DEF q, s
  <2> QED BY <2>1, <2>2, <2>3
<1>4. r[1] = a /\ r[2] = b
  BY <1>1
<1> HIDE DEF q, T
<1>5. q = <<p, a, b>>
  BY <1>2, <1>3, <1>4, SeqEqual
<1> QED BY <1>4, <1>5 DEF q, From

(* A handler that is over, or never began, owes nothing.                   *)
LEMMA OverIsInPlace ==
  ASSUME NEW calls, NEW p, NEW heard, NEW away
  PROVE  InPlace(<<>>, calls, p, heard, away)
<1>1. ~Begun(<<>>, calls) /\ ~Halfway(<<>>, calls)
  BY DEF Begun, Halfway
<1> QED BY <1>1 DEF InPlace

LEMMA MessagingInitInv == MessagingInit => MessagingInv
<1> SUFFICES ASSUME MessagingInit  PROVE MessagingInv
  OBVIOUS
<1>1. /\ \A p \in Processes : inbox[p] = <<>>
      /\ \A p \in Processes, e \in Events : running[p][e] = <<>>
      /\ \A e \in Events : received[e] = <<>> /\ Len(received[e]) = 0
      /\ \A e \in Events : DOMAIN late[e] = {}
  BY DEF MessagingInit, EmptyBag, SetToBag
<1>2. MessagingTypeOK
  BY <1>1 DEF MessagingInit, MessagingTypeOK
<1>3. IsInjective(<<>>) /\ Range(<<>>) = {}
  BY DEF IsInjective, Range
<1>4. \A p \in Processes, e \in Events : Fresh(p, e)
  BY <1>1 DEF Fresh
<1>5. \A e \in Events : 1..Len(received[e]) = {}
  BY <1>1
<1>6. HandlersInOrder
  BY <1>1, OverIsInPlace DEF HandlersInOrder, InOrder
<1>7. HeldBack
  BY <1>5 DEF HeldBack
<1>8. WaitingIsFresh
  BY <1>1, <1>3 DEF WaitingIsFresh
<1>9. UnpublishedIsFresh
  BY <1>4 DEF UnpublishedIsFresh
<1> QED BY <1>2, <1>6, <1>7, <1>8, <1>9 DEF MessagingInv

(* A step that asks for nothing leaves what was heard in order.            *)
LEMMA NothingHeard ==
  ASSUME HeldBack, UNCHANGED <<kind, received>>
  PROVE  HeldBack'
<1>1. kind' = kind /\ received' = received
  OBVIOUS
<1>2. \A e \in Events : \A n \in 1..Len(received[e]) :
        {received'[e][k] : k \in 1..(n - 1)} = {received[e][k] : k \in 1..(n - 1)}
  BY <1>1
<1> QED BY <1>1, <1>2 DEF HeldBack

(* An inbox that is lost.                                                  *)
LEMMA InboxIsLost ==
  ASSUME MessagingInv, NEW p \in Processes, inbox' = [inbox EXCEPT ![p] = <<>>],
         UNCHANGED <<kind, published, running, received, late>>
  PROVE  MessagingInv'
<1>t. /\ MessagingTypeOK /\ WaitingIsFresh /\ UnpublishedIsFresh /\ HandlersInOrder /\ HeldBack
  BY DEF MessagingInv
<1>1. MessagingTypeOK'
  BY <1>t DEF MessagingTypeOK
<1>2. \A q \in Processes, e \in Events : Fresh(q, e) => Fresh(q, e)'
  BY DEF Fresh
<1>3. IsInjective(<<>>) /\ Range(<<>>) = {}
  BY DEF IsInjective, Range
<1>4. \A q \in Processes : inbox'[q] = IF q = p THEN <<>> ELSE inbox[q]
  BY <1>t DEF MessagingTypeOK
<1>r. \A q \in Processes : Range(inbox[q]) \subseteq Events
  BY <1>t DEF MessagingTypeOK, Range
<1>5. WaitingIsFresh'
  <2> SUFFICES ASSUME NEW q \in Processes
               PROVE  /\ IsInjective(inbox'[q])
                      /\ \A e \in Range(inbox'[q]) : e \in Range(published) /\ Fresh(q, e)'
    BY DEF WaitingIsFresh
  <2>1. CASE q = p
    BY <2>1, <1>3, <1>4
  <2>2. CASE q # p
    BY <2>2, <1>2, <1>4, <1>r, <1>t DEF WaitingIsFresh
  <2> QED BY <2>1, <2>2
<1>6. UnpublishedIsFresh'
  BY <1>2, <1>t DEF UnpublishedIsFresh
<1>7. HandlersInOrder'
  BY <1>t DEF HandlersInOrder
<1> QED BY <1>1, <1>5, <1>6, <1>7, <1>t, NothingHeard DEF MessagingInv

(* publishEvent: the event waits nowhere yet, and nobody has begun it.     *)
LEMMA PublishStep ==
  ASSUME MessagingInv, NEW p \in Processes, NEW e \in Events, Publish(p, e)
  PROVE  MessagingInv'
<1>t. /\ MessagingTypeOK /\ WaitingIsFresh /\ UnpublishedIsFresh /\ HandlersInOrder /\ HeldBack
      /\ UNCHANGED <<kind, running, received, late>>
  BY DEF MessagingInv, Publish
<1>p. published' = Append(published, e) /\ published \in Seq(Events) /\ e \notin Range(published)
  BY <1>t DEF Publish, MessagingTypeOK, Range
<1>r. \A q \in Processes : inbox[q] \in Seq(Events) /\ Range(inbox[q]) \subseteq Events
  BY <1>t DEF MessagingTypeOK, Range
<1>f. \A q \in Processes, x \in Events : Fresh(q, x) => Fresh(q, x)'
  BY <1>t DEF Fresh
<1>1. Range(published') = Range(published) \cup {e} /\ published' \in Seq(Events)
  <2> DEFINE s == Append(published, e)
  <2>1. s \in Seq(Events) /\ Len(s) = Len(published) + 1 /\ s[Len(published) + 1] = e
        /\ \A i \in 1..Len(published) : s[i] = published[i]
    BY <1>p, AppendProperties
  <2> HIDE DEF s
  <2>2. DOMAIN s = 1..(Len(published) + 1) /\ DOMAIN published = 1..Len(published)
        /\ Len(published) \in Nat
    BY <2>1, <1>p
  <2>3. Range(s) = Range(published) \cup {e}
    BY <2>1, <2>2 DEF Range
  <2> QED BY <2>1, <2>3, <1>p DEF s
<1>2. \A q \in Processes :
        inbox'[q] = IF kind[e].type \in subscribed[q] THEN Append(inbox[q], e) ELSE inbox[q]
  BY DEF Publish
<1>3. ASSUME NEW q \in Processes
      PROVE  /\ inbox'[q] \in Seq(Events) /\ IsInjective(inbox'[q])
             /\ Range(inbox'[q]) \subseteq Range(inbox[q]) \cup {e}
  <2>1. IsInjective(inbox[q]) /\ e \notin Range(inbox[q])
    BY <1>t, <1>p DEF WaitingIsFresh
  <2>2. /\ Append(inbox[q], e) \in Seq(Events) /\ IsInjective(Append(inbox[q], e))
        /\ Range(Append(inbox[q], e)) = Range(inbox[q]) \cup {e}
    BY <2>1, <1>r, AppendPutsIn
  <2>3. inbox[q] \in Seq(Events)
    BY <1>r
  <2>4. CASE kind[e].type \in subscribed[q]
    BY <2>2, <2>4, <1>2
  <2>5. CASE kind[e].type \notin subscribed[q]
    BY <2>1, <2>3, <2>5, <1>2
  <2> QED BY <2>4, <2>5
<1>4. MessagingTypeOK'
  <2>1. inbox' = [q \in Processes |-> inbox'[q]]
    BY DEF Publish
  <2>2. inbox' \in [Processes -> Seq(Events)]
    BY <2>1, <1>3
  <2> QED BY <2>2, <1>1, <1>t DEF MessagingTypeOK
<1>5. WaitingIsFresh'
  <2> SUFFICES ASSUME NEW q \in Processes, NEW x \in Range(inbox'[q])
               PROVE  x \in Range(published') /\ Fresh(q, x)'
    BY <1>3 DEF WaitingIsFresh
  <2>1. CASE x = e
    BY <2>1, <1>1, <1>f, <1>p, <1>t DEF UnpublishedIsFresh
  <2>2. CASE x # e
    <3>1. x \in Range(inbox[q])
      BY <2>2, <1>3
    <3> QED BY <3>1, <1>1, <1>f, <1>r, <1>t DEF WaitingIsFresh
  <2> QED BY <2>1, <2>2
<1>6. UnpublishedIsFresh'
  BY <1>1, <1>f, <1>t DEF UnpublishedIsFresh
<1>7. HandlersInOrder'
  BY <1>t DEF HandlersInOrder
<1> QED BY <1>4, <1>5, <1>6, <1>7, <1>t, NothingHeard DEF MessagingInv

(* What a handler of one process does changes nothing for the others.      *)
LEMMA OneHandlerMoves ==
  ASSUME MessagingTypeOK, NEW p \in Processes, NEW e \in Events, NEW rest \in Seq(Requests),
         running' = [running EXCEPT ![p][e] = rest]
  PROVE  /\ running' \in [Processes -> [Events -> Seq(Requests)]]
         /\ running'[p][e] = rest
         /\ \A q \in Processes, x \in Events :
              q # p \/ x # e => running'[q][x] = running[q][x]
BY DEF MessagingTypeOK

(* handleMessage: the event has been waiting, so it is new to the process. *)
LEMMA HandleMessageStep ==
  ASSUME MessagingInv, NEW p \in Processes, HandleMessage(p)
  PROVE  MessagingInv'
<1> DEFINE e == Head(inbox[p])
<1>t. /\ MessagingTypeOK /\ WaitingIsFresh /\ UnpublishedIsFresh /\ HandlersInOrder /\ HeldBack
      /\ UNCHANGED <<kind, published, received, late>> /\ inbox[p] # <<>>
      /\ inbox[p] \in Seq(Events) /\ IsInjective(inbox[p])
  BY DEF MessagingInv, HandleMessage, MessagingTypeOK, WaitingIsFresh
<1>1. /\ e \in Events /\ e \in Range(inbox[p]) /\ Tail(inbox[p]) \in Seq(Events)
      /\ IsInjective(Tail(inbox[p])) /\ Range(Tail(inbox[p])) = Range(inbox[p]) \ {e}
  BY <1>t, TailTakesOut
<1>2. Fresh(p, e) /\ e \in Range(published)
  BY <1>1, <1>t DEF WaitingIsFresh
<1>3. inbox' = [inbox EXCEPT ![p] = Tail(@)]
      /\ running' = [running EXCEPT ![p][e] = Handler(kind[e])]
  BY DEF HandleMessage
<1>4. kind[e] \in Event /\ Handler(kind[e]) \in Seq(Requests) /\ Len(Handler(kind[e])) <= 2
  BY <1>1, <1>t, HandlerShape DEF MessagingTypeOK
<1> HIDE DEF e
<1>5. /\ running' \in [Processes -> [Events -> Seq(Requests)]]
      /\ running'[p][e] = Handler(kind[e])
      /\ \A q \in Processes, x \in Events : q # p \/ x # e => running'[q][x] = running[q][x]
  BY <1>1, <1>3, <1>4, <1>t, OneHandlerMoves, ZenonT(60)
<1>6. \A q \in Processes : inbox'[q] = IF q = p THEN Tail(inbox[p]) ELSE inbox[q]
  BY <1>3, <1>t DEF MessagingTypeOK
<1>7. MessagingTypeOK'
  BY <1>1, <1>3, <1>5, <1>t DEF MessagingTypeOK
<1>8. \A q \in Processes, x \in Events : (q # p \/ x # e) /\ Fresh(q, x) => Fresh(q, x)'
  BY <1>5, <1>t DEF Fresh
<1>r. \A q \in Processes : Range(inbox[q]) \subseteq Events
  BY <1>t DEF MessagingTypeOK, Range
<1>9. WaitingIsFresh'
  <2> SUFFICES ASSUME NEW q \in Processes
               PROVE  /\ IsInjective(inbox'[q])
                      /\ \A x \in Range(inbox'[q]) : x \in Range(published) /\ Fresh(q, x)'
    BY <1>t DEF WaitingIsFresh
  <2>1. CASE q = p
    BY <2>1, <1>1, <1>6, <1>8, <1>r, <1>t DEF WaitingIsFresh
  <2>2. CASE q # p
    BY <2>2, <1>6, <1>8, <1>r, <1>t DEF WaitingIsFresh
  <2> QED BY <2>1, <2>2
<1>10. UnpublishedIsFresh'
  BY <1>2, <1>8, <1>t DEF UnpublishedIsFresh
<1>11. HandlersInOrder'
  <2> SUFFICES ASSUME NEW q \in Processes, NEW x \in Events
               PROVE  InOrder(running'[q][x], Handler(kind[x]), q, received[x], DOMAIN late[x])
    BY <1>t DEF HandlersInOrder
  <2>1. CASE q = p /\ x = e
    <3>1. \A r \in DOMAIN late[e] : r[1] # p
      BY <1>2 DEF Fresh
    <3>2. ~Halfway(Handler(kind[e]), Handler(kind[e]))
      <4>1. \A z : Len(<<z>>) = 1
        OBVIOUS
      <4> QED BY <4>1, <1>4 DEF Halfway
    <3> QED BY <2>1, <3>1, <3>2, <1>5 DEF Begun, InOrder, InPlace
  <2>2. CASE q # p \/ x # e
    BY <2>2, <1>5, <1>t DEF HandlersInOrder
  <2> QED BY <2>1, <2>2
<1> QED BY <1>7, <1>9, <1>10, <1>11, <1>t, NothingHeard DEF MessagingInv

(* What a handler has asked for and what it asks for next are heard in      *)
(* their turn.                                                             *)
LEMMA DueInTurn ==
  ASSUME NEW k \in Event, NEW p \in Processes, NEW s \in Seq(Heard), NEW t, NEW r,
         Due(r, Handler(k), p, s), Len(t) = Len(s) + 1, t[Len(s) + 1] = r,
         \A n \in 1..Len(s) : t[n] = s[n]
  PROVE  InTurn(t, k.marked, Len(s) + 1)
<1> DEFINE calls == Handler(k)
           before == {t[n] : n \in 1..((Len(s) + 1) - 1)}
<1>1. /\ calls \in Seq(Requests) /\ Len(calls) <= 2 /\ Len(calls) \in Nat
      /\ \A i \in 1..Len(calls) :
           calls[i] \in HeldRequests /\ k.marked => i = 2 /\ calls[1] = FirstOf(calls[2])
  BY HandlerShape
<1>2. \A i \in 1..Len(calls) : calls[i] \in Requests
  BY <1>1, ElementOfSeq
<1>3. \A q \in Requests : q = <<q[1], q[2]>>
  BY DEF Requests
<1>s. Len(s) \in Nat
  OBVIOUS
<1>4. before = {s[n] : n \in 1..Len(s)}
  BY <1>s
<1> HIDE DEF calls, before
<1>5. ASSUME NEW q \in HeldRequests, r = From(p, q), k.marked
      PROVE  From(p, FirstOf(q)) \in before
  <2>1. q = <<q[1], q[2]>>
    BY <1>5 DEF HeldRequests
  <2>2. CASE Len(calls) >= 1 /\ r = From(p, calls[1])
    <3>1. 1 \in 1..Len(calls)
      BY <2>2, <1>1
    <3>2. calls[1] = <<calls[1][1], calls[1][2]>>
      BY <3>1, <1>2, <1>3
    <3>3. calls[1] = q
      BY <2>1, <2>2, <3>2, <1>5 DEF From
    <3> QED BY <3>1, <3>3, <1>1, <1>5
  <2>3. CASE Len(calls) = 2 /\ r = From(p, calls[2]) /\ Hears(s, From(p, calls[1]))
    <3>1. 2 \in 1..Len(calls)
      BY <2>3
    <3>2. calls[2] = <<calls[2][1], calls[2][2]>>
      BY <3>1, <1>2, <1>3
    <3>3. calls[2] = q
      <4>1. <<p, calls[2][1], calls[2][2]>> = <<p, q[1], q[2]>>
        BY <2>3, <1>5 DEF From
      <4>2. calls[2][1] = q[1] /\ calls[2][2] = q[2]
        BY <4>1
      <4> QED BY <2>1, <3>2, <4>2
    <3>4. calls[1] = FirstOf(q)
      BY <3>1, <3>3, <1>1, <1>5
    <3> QED BY <3>4, <2>3, <1>4 DEF Hears
  <2> QED BY <2>2, <2>3 DEF Due, calls
<1>6. r[1] = p
  BY DEF Due, From
<1>7. /\ r = <<p, "model-registry", "evaluations">> /\ k.marked
           => <<p, "policy-engine", "block">> \in before
      /\ r = <<p, "audit", "state-changed">> /\ k.marked
           => <<p, "deployment", "prepare">> \in before
  <2>1. /\ From(p, <<"model-registry", "evaluations">>) = <<p, "model-registry", "evaluations">>
        /\ From(p, <<"audit", "state-changed">>) = <<p, "audit", "state-changed">>
        /\ From(p, FirstOf(<<"model-registry", "evaluations">>)) = <<p, "policy-engine", "block">>
        /\ From(p, FirstOf(<<"audit", "state-changed">>)) = <<p, "deployment", "prepare">>
    BY DEF From, FirstOf
  <2>2. /\ <<"model-registry", "evaluations">> \in HeldRequests
        /\ <<"audit", "state-changed">> \in HeldRequests
    BY DEF HeldRequests
  <2> QED BY <2>1, <2>2, <1>5
<1> QED BY <1>6, <1>7 DEF InTurn, before

(* What is heard, or under way, stays in its turn when more is heard.      *)
LEMMA MoreIsHeard ==
  ASSUME NEW s, NEW t, Len(s) \in Nat, Len(t) = Len(s) \/ Len(t) = Len(s) + 1,
         \A n \in 1..Len(s) : t[n] = s[n]
  PROVE  /\ \A r : Hears(s, r) => Hears(t, r)
         /\ \A n \in 1..Len(s) : \A marked : InTurn(s, marked, n) => InTurn(t, marked, n)
         /\ \A r, calls, p : Due(r, calls, p, s) => Due(r, calls, p, t)
<1>1. \A r : Hears(s, r) => Hears(t, r)
  BY DEF Hears
<1>2. ASSUME NEW n \in 1..Len(s), NEW marked, InTurn(s, marked, n)
      PROVE  InTurn(t, marked, n)
  <2>1. \A k \in 1..(n - 1) : t[k] = s[k]
    OBVIOUS
  <2>2. {t[k] : k \in 1..(n - 1)} = {s[k] : k \in 1..(n - 1)} /\ t[n] = s[n]
    BY <2>1
  <2> QED BY <2>2, <1>2 DEF InTurn
<1> QED BY <1>1, <1>2 DEF Due

(* One request of the handler of e in p is sent, received or given up on.  *)
HandlerStep(p, e) ==
  /\ DOMAIN late' = Events
  /\ running' \in [Processes -> [Events -> Seq(Requests)]]
  /\ \A q \in Processes, x \in Events : q # p \/ x # e => running'[q][x] = running[q][x]
  /\ \A x \in Events : x # e => received'[x] = received[x] /\ late'[x] = late[x]
  /\ \/ UNCHANGED received
     \/ \E r \in Heard :
          /\ r[1] = p /\ Due(r, Handler(kind[e]), p, received[e])
          /\ received' = [received EXCEPT ![e] = Append(@, r)]
  /\ \A r \in DOMAIN late'[e] :
       \/ r \in DOMAIN late[e]
       \/ r \in Heard /\ r[1] = p /\ Due(r, Handler(kind[e]), p, received[e])
  /\ InPlace(running'[p][e], Handler(kind[e]), p, received'[e], DOMAIN late'[e])
  /\ ~Fresh(p, e)
  /\ UNCHANGED <<kind, inbox, published>>

LEMMA HandlerStepKeeps ==
  ASSUME MessagingInv, NEW p \in Processes, NEW e \in Events, HandlerStep(p, e)
  PROVE  MessagingInv'
<1> DEFINE s == received[e]
           t == received'[e]
           calls == Handler(kind[e])
<1>t. /\ MessagingTypeOK /\ WaitingIsFresh /\ UnpublishedIsFresh /\ HandlersInOrder /\ HeldBack
      /\ kind[e] \in Event /\ s \in Seq(Heard) /\ Len(s) \in Nat
      /\ UNCHANGED <<kind, inbox, published>>
  BY DEF MessagingInv, MessagingTypeOK, HandlerStep
<1>h. /\ received' \in [Events -> Seq(Heard)]
      /\ \A n \in 1..Len(s) : t[n] = s[n]
      /\ \/ t = s
         \/ /\ Len(t) = Len(s) + 1 /\ t[Len(s) + 1][1] = p
            /\ Due(t[Len(s) + 1], calls, p, s)
  <2>1. CASE UNCHANGED received
    BY <2>1, <1>t DEF MessagingTypeOK
  <2>2. ASSUME NEW r \in Heard, r[1] = p, Due(r, calls, p, s),
               received' = [received EXCEPT ![e] = Append(@, r)]
        PROVE  <1>h!1 /\ <1>h!2 /\ <1>h!3
    <3> DEFINE q == Append(s, r)
    <3>1. /\ q \in Seq(Heard) /\ Len(q) = Len(s) + 1 /\ q[Len(s) + 1] = r
          /\ \A n \in 1..Len(s) : q[n] = s[n]
      BY <1>t, AppendProperties
    <3>2. received \in [Events -> Seq(Heard)]
      BY <1>t DEF MessagingTypeOK
    <3>3. t = q
      BY <2>2, <3>2
    <3>4. received' = [received EXCEPT ![e] = q]
      BY <2>2
    <3> HIDE DEF q
    <3>5. received' \in [Events -> Seq(Heard)]
      BY <3>1, <3>2, <3>4
    <3> HIDE DEF t, s, calls
    <3> QED BY <2>2, <3>1, <3>3, <3>5
  <2> QED BY <2>1, <2>2 DEF HandlerStep
<1>o. \A x \in Events : x # e => received'[x] = received[x] /\ late'[x] = late[x]
  BY DEF HandlerStep
<1>l. \A r \in DOMAIN late'[e] :
        \/ r \in DOMAIN late[e]
        \/ r \in Heard /\ r[1] = p /\ Due(r, calls, p, s)
  BY DEF HandlerStep
<1>u. /\ running' \in [Processes -> [Events -> Seq(Requests)]]
      /\ \A q \in Processes, x \in Events : q # p \/ x # e => running'[q][x] = running[q][x]
      /\ InPlace(running'[p][e], calls, p, t, DOMAIN late'[e])
      /\ ~Fresh(p, e)
  BY DEF HandlerStep
<1> HIDE DEF s, t, calls
<1>g. /\ Len(t) = Len(s) \/ Len(t) = Len(s) + 1
      /\ \A n \in 1..Len(t) : n \in 1..Len(s) \/ n = Len(s) + 1
  BY <1>h, <1>t
<1>m. /\ \A r : Hears(s, r) => Hears(t, r)
      /\ \A n \in 1..Len(s) : \A marked : InTurn(s, marked, n) => InTurn(t, marked, n)
      /\ \A r, c, q : Due(r, c, q, s) => Due(r, c, q, t)
  BY <1>h, <1>g, <1>t, MoreIsHeard
<1>1. MessagingTypeOK'
  <2>1. \A x \in Events : DOMAIN late'[x] \subseteq Heard
    BY <1>l, <1>o, <1>t DEF MessagingTypeOK
  <2> QED BY <2>1, <1>t, <1>h, <1>u DEF MessagingTypeOK, HandlerStep
<1>2. ASSUME NEW q \in Processes, NEW x \in Events, Fresh(q, x)
      PROVE  Fresh(q, x)'
  <2>1. CASE x # e
    BY <1>2, <2>1, <1>o, <1>u DEF Fresh
  <2>2. CASE x = e
    <3>1. q # p
      BY <1>2, <2>2, <1>u
    <3>2. running'[q][x] = <<>>
      BY <1>2, <3>1, <1>u DEF Fresh
    <3>3. ASSUME NEW n \in 1..Len(t)
          PROVE  t[n][1] # q
      <4>1. CASE n \in 1..Len(s)
        BY <1>2, <2>2, <4>1, <1>h DEF Fresh, s
      <4>2. CASE n \notin 1..Len(s)
        BY <4>2, <3>1, <1>g, <1>h
      <4> QED BY <4>1, <4>2
    <3>4. \A r \in DOMAIN late'[e] : r[1] # q
      BY <1>2, <2>2, <3>1, <1>l DEF Fresh
    <3> QED BY <2>2, <3>2, <3>3, <3>4 DEF Fresh, t
  <2> QED BY <2>1, <2>2
<1>3. WaitingIsFresh'
  <2>1. \A q \in Processes : Range(inbox[q]) \subseteq Events
    BY <1>t DEF MessagingTypeOK, Range
  <2> QED BY <2>1, <1>2, <1>t DEF WaitingIsFresh
<1>4. UnpublishedIsFresh'
  BY <1>2, <1>t DEF UnpublishedIsFresh
<1>5. ASSUME NEW q \in Processes, NEW x \in Events
      PROVE  InOrder(running'[q][x], Handler(kind[x]), q, received'[x], DOMAIN late'[x])
  <2>i. InOrder(running[q][x], Handler(kind[x]), q, received[x], DOMAIN late[x])
    BY <1>t DEF HandlersInOrder
  <2>1. CASE x # e
    BY <2>i, <2>1, <1>o, <1>u
  <2>2. CASE x = e /\ q # p
    <3>1. InOrder(running[q][e], calls, q, s, DOMAIN late[e])
      BY <2>i, <2>2 DEF calls, s
    <3>2. \A r \in DOMAIN late'[e] : r[1] = q => r \in DOMAIN late[e]
      BY <2>2, <1>l
    <3>3. InOrder(running[q][e], calls, q, t, DOMAIN late'[e])
      BY <3>1, <3>2, <1>m DEF InOrder, InPlace
    <3> QED BY <2>2, <3>3, <1>u DEF calls, t
  <2>3. CASE x = e /\ q = p
    <3>1. \A r \in DOMAIN late'[e] : r[1] = p => Due(r, calls, p, t)
      BY <2>i, <2>3, <1>l, <1>m DEF InOrder, calls, s
    <3> QED BY <2>3, <3>1, <1>u DEF InOrder, calls, t
  <2> QED BY <2>1, <2>2, <2>3
<1>6. HandlersInOrder'
  BY <1>5, <1>t DEF HandlersInOrder
<1>7. HeldBack'
  <2> SUFFICES ASSUME NEW x \in Events, NEW n \in 1..Len(received'[x])
               PROVE  InTurn(received'[x], kind[x].marked, n)
    BY <1>t DEF HeldBack, InTurn
  <2>0. \A y \in Events : \A m \in 1..Len(received[y]) : InTurn(received[y], kind[y].marked, m)
    BY <1>t DEF HeldBack, InTurn
  <2>1. CASE x # e
    BY <2>0, <2>1, <1>o
  <2>2. CASE x = e /\ n \in 1..Len(s)
    BY <2>0, <2>2, <1>m DEF s, t
  <2>3. CASE x = e /\ n \notin 1..Len(s)
    <3>1. n = Len(s) + 1 /\ Len(t) = Len(s) + 1 /\ Due(t[Len(s) + 1], calls, p, s)
      BY <2>3, <1>g, <1>h DEF t
    <3>2. InTurn(t, kind[e].marked, Len(s) + 1)
      BY <3>1, <1>h, <1>t, DueInTurn DEF calls
    <3> QED BY <2>3, <3>1, <3>2 DEF t
  <2> QED BY <2>1, <2>2, <2>3
<1> QED BY <1>1, <1>3, <1>4, <1>6, <1>7 DEF MessagingInv

(* What the handler asks for now is due.                                   *)
LEMMA AskedIsDue ==
  ASSUME MessagingInv, NEW p \in Processes, NEW e \in Events, running[p][e] # <<>>
  PROVE  LET left == running[p][e]
             calls == Handler(kind[e])
         IN  /\ Asked(p, e) \in Heard /\ Asked(p, e)[1] = p
             /\ Due(Asked(p, e), calls, p, received[e])
             /\ Begun(left, calls) \/ Halfway(left, calls)
             /\ Begun(left, calls) => Asked(p, e) = From(p, calls[1])
             /\ left \in Seq(Requests) /\ calls \in Seq(Requests) /\ Len(calls) \in {1, 2}
<1> DEFINE left == running[p][e]
           calls == Handler(kind[e])
           h == Head(left)
<1>1. MessagingTypeOK /\ HandlersInOrder /\ left \in Seq(Requests) /\ kind[e] \in Event
  BY DEF MessagingInv, MessagingTypeOK
<1>2. h = left[1] /\ h \in Requests
  BY <1>1, HeadTailProperties
<1>3. InPlace(left, calls, p, received[e], DOMAIN late[e])
  BY <1>1 DEF HandlersInOrder, InOrder
<1>4. calls \in Seq(Requests) /\ Len(calls) <= 2
  BY <1>1, HandlerShape
<1> HIDE DEF left, calls, h
<1>5. Asked(p, e) = From(p, h)
  BY <1>2, FromIsWhatIsHeard DEF Asked, left, h
<1>6. From(p, h) \in Heard /\ From(p, h)[1] = p
  BY <1>2 DEF Heard, From
<1>7. Begun(left, calls) \/ Halfway(left, calls)
  BY <1>3 DEF InPlace, left
<1>8. Begun(left, calls) => h = calls[1] /\ Len(calls) >= 1
  BY <1>2, <1>4 DEF Begun
<1>9. Halfway(left, calls) => h = calls[2] /\ Len(calls) = 2 /\ Hears(received[e], From(p, calls[1]))
  BY <1>2, <1>3 DEF Halfway, InPlace
<1>10. Due(From(p, h), calls, p, received[e])
  BY <1>7, <1>8, <1>9 DEF Due
<1>11. Len(calls) \in {1, 2}
  <2>1. Len(calls) \in Nat /\ Len(calls) >= 1 /\ Len(calls) <= 2
    BY <1>4, <1>7, <1>8, <1>9
  <2>2. \A k \in Nat : k >= 1 /\ k <= 2 => k \in {1, 2}
    OBVIOUS
  <2> QED BY <2>1, <2>2
<1> QED BY <1>1, <1>4, <1>5, <1>6, <1>7, <1>8, <1>10, <1>11 DEF left, calls

(* An attempt that is given up on is one that was due.                     *)
LEMMA GivenUpIsDue ==
  ASSUME MessagingInv, NEW p \in Processes, NEW e \in Events, running[p][e] # <<>>,
         GivenUp(p, e) \/ UNCHANGED late
  PROVE  /\ DOMAIN late' = Events
         /\ \A x \in Events : x # e => late'[x] = late[x]
         /\ \A r \in DOMAIN late'[e] : r \in DOMAIN late[e] \/ r = Asked(p, e)
<1>0. DOMAIN late = Events
  BY DEF MessagingInv, MessagingTypeOK
<1>1. CASE UNCHANGED late
  BY <1>0, <1>1
<1>2. CASE GivenUp(p, e)
  <2>1. late' = [late EXCEPT ![e] = @ (+) SetToBag({Asked(p, e)})]
    BY <1>2 DEF GivenUp
  <2>2. DOMAIN (late[e] (+) SetToBag({Asked(p, e)})) = DOMAIN late[e] \cup {Asked(p, e)}
    BY DEF (+), SetToBag
  <2> QED BY <1>0, <2>1, <2>2
<1> QED BY <1>1, <1>2

LEMMA PostAgainStep ==
  ASSUME MessagingInv, NEW p \in Processes, NEW e \in Events, PostAgain(p, e)
  PROVE  MessagingInv'
<1>0. MessagingTypeOK /\ HandlersInOrder
  BY DEF MessagingInv
<1>1. running[p][e] # <<>> /\ UNCHANGED <<kind, inbox, published, running, received>>
  BY DEF PostAgain
<1>2. /\ DOMAIN late' = Events
      /\ \A x \in Events : x # e => late'[x] = late[x]
      /\ \A r \in DOMAIN late'[e] : r \in DOMAIN late[e] \/ r = Asked(p, e)
  BY <1>1, GivenUpIsDue DEF PostAgain
<1>3. /\ Asked(p, e) \in Heard /\ Asked(p, e)[1] = p
      /\ Due(Asked(p, e), Handler(kind[e]), p, received[e])
      /\ Begun(running[p][e], Handler(kind[e])) => Asked(p, e) = From(p, Handler(kind[e])[1])
  BY <1>1, AskedIsDue
<1>4. InPlace(running[p][e], Handler(kind[e]), p, received[e], DOMAIN late[e])
  BY <1>0 DEF HandlersInOrder, InOrder
<1>5. InPlace(running'[p][e], Handler(kind[e]), p, received'[e], DOMAIN late'[e])
  BY <1>1, <1>2, <1>3, <1>4 DEF InPlace
<1>6. HandlerStep(p, e)
  BY <1>0, <1>1, <1>2, <1>3, <1>5 DEF HandlerStep, MessagingTypeOK, Fresh
<1> QED BY <1>6, HandlerStepKeeps

LEMMA PostFailsStep ==
  ASSUME MessagingInv, NEW p \in Processes, NEW e \in Events, PostFails(p, e)
  PROVE  MessagingInv'
<1>0. MessagingTypeOK
  BY DEF MessagingInv
<1>1. running[p][e] # <<>> /\ UNCHANGED <<kind, inbox, published, received>>
  BY DEF PostFails
<1>2. /\ DOMAIN late' = Events
      /\ \A x \in Events : x # e => late'[x] = late[x]
      /\ \A r \in DOMAIN late'[e] : r \in DOMAIN late[e] \/ r = Asked(p, e)
  BY <1>1, GivenUpIsDue DEF PostFails
<1>3. /\ Asked(p, e) \in Heard /\ Asked(p, e)[1] = p
      /\ Due(Asked(p, e), Handler(kind[e]), p, received[e])
  BY <1>1, AskedIsDue
<1>4. /\ running' \in [Processes -> [Events -> Seq(Requests)]]
      /\ running'[p][e] = <<>>
      /\ \A q \in Processes, x \in Events : q # p \/ x # e => running'[q][x] = running[q][x]
  <2>1. <<>> \in Seq(Requests)
    OBVIOUS
  <2> QED BY <2>1, <1>0, OneHandlerMoves, ZenonT(60) DEF PostFails
<1>5. InPlace(running'[p][e], Handler(kind[e]), p, received'[e], DOMAIN late'[e])
  BY <1>4, OverIsInPlace
<1>6. HandlerStep(p, e)
  BY <1>1, <1>2, <1>3, <1>4, <1>5 DEF HandlerStep, Fresh
<1> QED BY <1>6, HandlerStepKeeps

LEMMA PostSucceedsStep ==
  ASSUME MessagingInv, NEW p \in Processes, NEW e \in Events, PostSucceeds(p, e)
  PROVE  MessagingInv'
<1> DEFINE left == running[p][e]
           calls == Handler(kind[e])
           rest == Tail(left)
           s == received[e]
           t == received'[e]
<1>0. MessagingTypeOK /\ s \in Seq(Heard) /\ received \in [Events -> Seq(Heard)]
  BY DEF MessagingInv, MessagingTypeOK
<1>1. /\ left # <<>> /\ UNCHANGED <<kind, inbox, published, late>>
      /\ received' = [received EXCEPT ![e] = Append(@, Asked(p, e))]
  BY DEF PostSucceeds, Reaches
<1>2. /\ Asked(p, e) \in Heard /\ Asked(p, e)[1] = p /\ Due(Asked(p, e), calls, p, s)
      /\ Begun(left, calls) \/ Halfway(left, calls)
      /\ Begun(left, calls) => Asked(p, e) = From(p, calls[1])
      /\ left \in Seq(Requests) /\ calls \in Seq(Requests) /\ Len(calls) \in {1, 2}
  BY <1>1, AskedIsDue
<1>3. /\ t = Append(s, Asked(p, e)) /\ \A x \in Events : x # e => received'[x] = received[x]
  BY <1>0, <1>1
<1>4. Hears(t, Asked(p, e))
  <2> DEFINE q == Append(s, Asked(p, e))
  <2>1. Len(q) = Len(s) + 1 /\ q[Len(s) + 1] = Asked(p, e) /\ Len(s) \in Nat
    BY <1>0, <1>2, AppendProperties
  <2> HIDE DEF q
  <2>2. Len(s) + 1 \in 1..Len(q)
    BY <2>1
  <2>3. Hears(q, Asked(p, e))
    BY <2>1, <2>2 DEF Hears
  <2> QED BY <2>3, <1>3 DEF q
<1>a. Tail(left) \in Seq(Requests) /\ Len(Tail(left)) = Len(left) - 1
      /\ \A i \in 1..Len(Tail(left)) : Tail(left)[i] = left[i + 1]
  BY <1>1, <1>2, HeadTailProperties
<1>b. rest \in Seq(Requests) /\ Len(rest) = Len(left) - 1
      /\ \A i \in 1..Len(rest) : rest[i] = left[i + 1]
  BY <1>a
<1>c. running' = [running EXCEPT ![p][e] = rest]
  BY <1>0 DEF PostSucceeds, MessagingTypeOK
<1> HIDE DEF rest
<1>5. /\ running' \in [Processes -> [Events -> Seq(Requests)]]
      /\ running'[p][e] = rest
      /\ \A q \in Processes, x \in Events : q # p \/ x # e => running'[q][x] = running[q][x]
  <2>1. PICK next : next = rest
    OBVIOUS
  <2>2. next \in Seq(Requests) /\ running' = [running EXCEPT ![p][e] = next]
    BY <1>b, <1>c, <2>1
  <2>3. /\ running' \in [Processes -> [Events -> Seq(Requests)]]
        /\ running'[p][e] = next
        /\ \A q \in Processes, x \in Events : q # p \/ x # e => running'[q][x] = running[q][x]
    <3>1. MessagingTypeOK
      BY <1>0
    <3>2. next \in Seq(Requests)
      BY <2>2
    <3>3. running' = [running EXCEPT ![p][e] = next]
      BY <2>2
    <3> HIDE DEF left, calls, s, t
    <3> QED BY <3>1, <3>2, <3>3, OneHandlerMoves, ZenonT(60)
  <2> QED BY <2>1, <2>3
<1>d. DOMAIN late' = Events
  BY <1>0, <1>1 DEF MessagingTypeOK
<1> HIDE DEF left, calls, rest, s, t
<1>6. rest = <<>> \/ (Begun(left, calls) /\ Halfway(rest, calls))
  <2>1. CASE Halfway(left, calls)
    <3>1. Len(left) = 1
      BY <2>1 DEF Halfway
    <3> QED BY <3>1, <1>b
  <2>2. CASE Begun(left, calls) /\ Len(calls) = 1
    <3>1. Len(left) = 1
      BY <2>2 DEF Begun
    <3> QED BY <3>1, <1>b
  <2>3. CASE Begun(left, calls) /\ Len(calls) = 2
    <3>1. Len(left) = 2 /\ left[2] = calls[2]
      BY <2>3 DEF Begun
    <3>2. Len(rest) = 1 /\ rest \in Seq(Requests) /\ rest[1] = calls[2]
      <4>1. Len(rest) = 1 /\ rest \in Seq(Requests)
        BY <3>1, <1>b
      <4>2. 1 \in 1..Len(rest)
        BY <4>1
      <4>3. rest[1] = left[1 + 1]
        BY <4>2, <1>b
      <4> QED BY <4>1, <4>3, <3>1
    <3>3. calls[2] \in Requests
      <4>1. 2 \in 1..Len(calls) /\ calls \in Seq(Requests)
        BY <2>3, <1>2
      <4> HIDE DEF Requests
      <4> QED BY <4>1, ElementOfSeq
    <3>4. <<calls[2]>> \in Seq(Requests) /\ Len(<<calls[2]>>) = 1 /\ <<calls[2]>>[1] = calls[2]
      BY <3>3
    <3>5. rest = <<calls[2]>>
      BY <3>2, <3>4, SeqEqual
    <3> QED BY <2>3, <3>5 DEF Halfway
  <2> QED BY <2>1, <2>2, <2>3, <1>2
<1>7. InPlace(rest, calls, p, t, DOMAIN late'[e])
  <2>1. CASE rest = <<>>
    BY <2>1, OverIsInPlace
  <2>2. CASE Begun(left, calls) /\ Halfway(rest, calls)
    <3>1. ~Begun(rest, calls)
      <4>1. \A z : Len(<<z>>) = 1
        OBVIOUS
      <4> QED BY <4>1, <2>2 DEF Halfway, Begun
    <3> QED BY <3>1, <2>2, <1>2, <1>4 DEF InPlace
  <2> QED BY <2>1, <2>2, <1>6
<1>8. HandlerStep(p, e)
  BY <1>1, <1>2, <1>3, <1>5, <1>7, <1>d DEF HandlerStep, Fresh, left, calls, s, t
<1> QED BY <1>8, HandlerStepKeeps

LEMMA ArrivesLateStep ==
  ASSUME MessagingInv, NEW e \in Events, ArrivesLate(e)
  PROVE  MessagingInv'
<1>0. MessagingTypeOK /\ HandlersInOrder /\ DOMAIN late = Events /\ DOMAIN late[e] \subseteq Heard
      /\ received \in [Events -> Seq(Heard)] /\ received[e] \in Seq(Heard)
  BY DEF MessagingInv, MessagingTypeOK
<1>1. PICK r \in DOMAIN late[e] :
        /\ received' = [received EXCEPT ![e] = Append(@, r)]
        /\ late' = [late EXCEPT ![e] = @ (-) SetToBag({r})]
  BY DEF ArrivesLate, Reaches, BagToSet
<1>2. PICK p \in Processes : r[1] = p
  BY <1>0 DEF Heard, From
<1>3. DOMAIN (late[e] (-) SetToBag({r})) \subseteq DOMAIN late[e]
  BY DEF (-)
<1>4. /\ \A x \in Events : x # e => received'[x] = received[x] /\ late'[x] = late[x]
      /\ DOMAIN late'[e] \subseteq DOMAIN late[e] /\ DOMAIN late' = Events
  <2> DEFINE B == late[e] (-) SetToBag({r})
  <2>1. late' = [late EXCEPT ![e] = B]
    BY <1>1
  <2>2. DOMAIN B \subseteq DOMAIN late[e]
    BY <1>3
  <2> HIDE DEF B
  <2> QED BY <1>0, <1>1, <2>1, <2>2
<1>5. UNCHANGED <<kind, inbox, published, running>>
  BY DEF ArrivesLate
<1>6. /\ InPlace(running[p][e], Handler(kind[e]), p, received[e], DOMAIN late[e])
      /\ Due(r, Handler(kind[e]), p, received[e])
  BY <1>0, <1>2 DEF HandlersInOrder, InOrder
<1>7. received'[e] = Append(received[e], r)
  BY <1>0, <1>1
<1>8. \A q : Hears(received[e], q) => Hears(received'[e], q)
  <2> DEFINE s == received[e]
             t == Append(s, r)
  <2>1. Len(t) = Len(s) + 1 /\ Len(s) \in Nat /\ \A n \in 1..Len(s) : t[n] = s[n]
    BY <1>0, AppendProperties
  <2> HIDE DEF s, t
  <2>2. \A q : Hears(s, q) => Hears(t, q)
    BY <2>1, MoreIsHeard
  <2> QED BY <2>2, <1>7 DEF s, t
<1>9. InPlace(running'[p][e], Handler(kind[e]), p, received'[e], DOMAIN late'[e])
  BY <1>4, <1>5, <1>6, <1>8 DEF InPlace
<1>10. running' \in [Processes -> [Events -> Seq(Requests)]]
  BY <1>0, <1>5 DEF MessagingTypeOK
<1>11. HandlerStep(p, e)
  BY <1>0, <1>1, <1>2, <1>4, <1>5, <1>6, <1>9, <1>10 DEF HandlerStep, Fresh
<1> QED BY <1>11, HandlerStepKeeps

LEMMA MessagingStepKeepsInv == MessagingInv /\ [MessagingNext]_messagingVars => MessagingInv'
<1> SUFFICES ASSUME MessagingInv, [MessagingNext]_messagingVars  PROVE MessagingInv'
  OBVIOUS
<1>t. MessagingTypeOK
  BY DEF MessagingInv
<1>1. ASSUME UNCHANGED <<kind, inbox, published, running, received, late>>  PROVE MessagingInv'
  <2>t. MessagingTypeOK /\ WaitingIsFresh /\ UnpublishedIsFresh /\ HandlersInOrder /\ HeldBack
    BY DEF MessagingInv
  <2>1. MessagingTypeOK' /\ HandlersInOrder' /\ HeldBack'
    BY <1>1, <2>t, NothingHeard DEF MessagingTypeOK, HandlersInOrder
  <2>2. \A p, e : Fresh(p, e) => Fresh(p, e)'
    BY <1>1 DEF Fresh
  <2>3. WaitingIsFresh' /\ UnpublishedIsFresh'
    BY <1>1, <2>t, <2>2 DEF WaitingIsFresh, UnpublishedIsFresh
  <2> QED BY <2>1, <2>3 DEF MessagingInv
<1>2. CASE UNCHANGED messagingVars
  BY <1>1, <1>2 DEF messagingVars
<1>3. ASSUME NEW p \in Processes, Connect(p) \/ Subscribe(p)  PROVE MessagingInv'
  BY <1>1, <1>3 DEF Connect, Subscribe
<1>4. ASSUME NEW p \in Processes, Drop(p) \/ Shutdown(p)  PROVE MessagingInv'
  BY <1>4, InboxIsLost DEF Drop, Shutdown
<1>5. ASSUME NEW p \in Processes, NEW e \in Events, PostAgain(p, e)  PROVE MessagingInv'
  BY <1>5, PostAgainStep
<1>6. ASSUME NEW p \in Processes, NEW e \in Events, PostSucceeds(p, e)  PROVE MessagingInv'
  BY <1>6, PostSucceedsStep
<1>7. ASSUME NEW e \in Events, ArrivesLate(e)  PROVE MessagingInv'
  BY <1>7, ArrivesLateStep
<1> QED BY <1>2, <1>3, <1>4, <1>5, <1>6, <1>7, PublishStep, HandleMessageStep, PostFailsStep
        DEF MessagingNext

(* Whatever is retried, lost, or received after it was given up on, a       *)
(* version whose evaluation did not pass is blocked before its results are  *)
(* recorded, and an approval is in the audit log only when the deployment   *)
(* was asked for.                                                           *)
THEOREM HandlersHoldBack == MessagingSpec => []HeldBack
<1>1. MessagingInv => HeldBack
  BY DEF MessagingInv
<1> QED BY <1>1, MessagingInitInv, MessagingStepKeepsInv, PTL DEF MessagingSpec

-----------------------------------------------------------------------------
(* Machine learning platforms.  A request that is about to be recorded has *)
(* its announcement, and then its success, in the trail, which only grows. *)

MlPlaces ==
  {"idle", "registering", "removing",
   "import_started", "import_asked", "import_done", "import_refused", "import_store",
   "import_error",
   "export_started", "export_asked", "export_done", "export_refused", "export_store",
   "export_error"}

MlConfig == PlatformConfig \cup {NotThere}
MlRequest ==
  [at : MlPlaces, replica : Replicas \cup {NotThere}, platform : Platforms, model : Externals,
   adapter : MlConfig, code : Nat]

MlTypeOK ==
  /\ mlRows \in [Platforms -> MlConfig]
  /\ mlAdapters \in [Replicas -> [Platforms -> MlConfig]]
  /\ mlImports \subseteq Platforms \X Externals
  /\ mlExports \subseteq Platforms \X Externals
  /\ mlCall \in [Callers -> MlRequest]

AnnouncedFirst ==
  \A c \in Callers :
    /\ mlCall[c].at \in {"import_asked", "import_done", "import_store"}
         => <<"import_started", Subject(c)>> \in mlTrail
    /\ mlCall[c].at = "import_store" => <<"import_completed", Subject(c)>> \in mlTrail
    /\ mlCall[c].at \in {"export_asked", "export_done", "export_store"}
         => <<"export_started", Subject(c)>> \in mlTrail
    /\ mlCall[c].at = "export_store" => <<"export_completed", Subject(c)>> \in mlTrail

MlInv == MlTypeOK /\ AnnouncedFirst /\ RecordsAreAudited

(* A caller at rest is a request like any other.                           *)
LEMMA RestingType == Resting \in MlRequest /\ Resting.at = "idle"
BY MlAssumption DEF Resting, MlRequest, MlPlaces, MlConfig

LEMMA MlInitInv == MlInit => MlInv
BY RestingType DEF MlInit, MlInv, MlTypeOK, AnnouncedFirst, RecordsAreAudited, MlConfig

(* A step that stores no record: the trail grows, and the one request that *)
(* moves has in the trail what its place asks for.                         *)
LEMMA MlQuietStep ==
  ASSUME MlInv, NEW c \in Callers, NEW t \in MlRequest, mlCall' = [mlCall EXCEPT ![c] = t],
         mlRows' \in [Platforms -> MlConfig],
         mlAdapters' \in [Replicas -> [Platforms -> MlConfig]],
         UNCHANGED <<mlImports, mlExports>>,
         mlTrail \subseteq mlTrail',
         \A p \in Platforms : mlRows[p] # NotThere => mlRows'[p] # NotThere,
         t.at \in {"import_asked", "import_done", "import_store"}
           => <<"import_started", <<t.platform, t.model>>>> \in mlTrail',
         t.at = "import_store" => <<"import_completed", <<t.platform, t.model>>>> \in mlTrail',
         t.at \in {"export_asked", "export_done", "export_store"}
           => <<"export_started", <<t.platform, t.model>>>> \in mlTrail',
         t.at = "export_store" => <<"export_completed", <<t.platform, t.model>>>> \in mlTrail'
  PROVE  MlInv'
<1>1. MlTypeOK'
  BY DEF MlInv, MlTypeOK
<1>2. AnnouncedFirst'
  BY DEF MlInv, MlTypeOK, AnnouncedFirst, Subject
<1>3. RecordsAreAudited'
  BY DEF MlInv, MlTypeOK, RecordsAreAudited
<1> QED BY <1>1, <1>2, <1>3 DEF MlInv

(* A request that moves on keeps its subject.                              *)
LEMMA MlMoves ==
  ASSUME MlTypeOK, NEW c \in Callers, NEW at \in MlPlaces, MlGo(c, at)
  PROVE  \E t \in MlRequest : /\ mlCall' = [mlCall EXCEPT ![c] = t] /\ t.at = at
                              /\ <<t.platform, t.model>> = Subject(c)
<1> DEFINE t == [mlCall[c] EXCEPT !.at = at]
<1>1. t \in MlRequest /\ t.at = at /\ <<t.platform, t.model>> = Subject(c)
  BY DEF MlTypeOK, MlRequest, Subject
<1>2. mlCall' = [mlCall EXCEPT ![c] = t]
  BY DEF MlGo
<1> QED BY <1>1, <1>2

(* A reply ends the request.                                               *)
LEMMA MlReplies ==
  ASSUME NEW c \in Callers, NEW code \in Nat, MlReply(c, code)
  PROVE  \E t \in MlRequest : mlCall' = [mlCall EXCEPT ![c] = t] /\ t.at = "idle"
<1> DEFINE t == [Resting EXCEPT !.code = code]
<1>1. t \in MlRequest /\ t.at = "idle"
  BY RestingType DEF MlRequest
<1>2. mlCall' = [mlCall EXCEPT ![c] = t]
  BY DEF MlReply
<1> QED BY <1>1, <1>2

LEMMA MlStarts ==
  ASSUME MlTypeOK, NEW c \in Callers, NEW at \in MlPlaces, NEW r \in Replicas,
         NEW p \in Platforms, NEW x \in Externals, MlStart(c, at, r, p, x)
  PROVE  \E t \in MlRequest : mlCall' = [mlCall EXCEPT ![c] = t] /\ t.at = at
<1> DEFINE t == [at |-> at, replica |-> r, platform |-> p, model |-> x,
                 adapter |-> mlAdapters[r][p], code |-> 0]
<1>1. t \in MlRequest /\ t.at = at
  BY DEF MlTypeOK, MlRequest
<1>2. mlCall' = [mlCall EXCEPT ![c] = t]
  BY DEF MlStart
<1> QED BY <1>1, <1>2

(* Requests that record nothing and claim nothing of the trail.            *)
LEMMA MlIdleStep ==
  ASSUME MlInv, NEW c \in Callers, NEW t \in MlRequest, mlCall' = [mlCall EXCEPT ![c] = t],
         t.at \in {"idle", "registering", "removing", "import_started", "import_error",
                   "import_refused", "export_started", "export_error", "export_refused"},
         mlRows' \in [Platforms -> MlConfig],
         mlAdapters' \in [Replicas -> [Platforms -> MlConfig]],
         UNCHANGED <<mlImports, mlExports>>,
         mlTrail \subseteq mlTrail',
         \A p \in Platforms : mlRows[p] # NotThere => mlRows'[p] # NotThere
  PROVE  MlInv'
<1>1. /\ t.at \notin {"import_asked", "import_done", "import_store"}
      /\ t.at \notin {"export_asked", "export_done", "export_store"}
      /\ t.at # "import_store" /\ t.at # "export_store"
  OBVIOUS
<1> QED BY <1>1, MlQuietStep

(* importModel, from the announcement to the record.                       *)
LEMMA ImportStep ==
  ASSUME MlInv, NEW c \in Callers, ImportModel(c)
  PROVE  MlInv'
<1> DEFINE at == mlCall[c].at
<1>t. MlTypeOK
  BY DEF MlInv
<1>u. mlRows \in [Platforms -> MlConfig] /\ mlAdapters \in [Replicas -> [Platforms -> MlConfig]]
  BY <1>t DEF MlTypeOK
<1>n. 201 \in Nat /\ 400 \in Nat /\ 500 \in Nat
  OBVIOUS
<1>1. CASE /\ at = "import_started"
           /\ LogEvent(c, "import_started", MlGo(c, "import_asked"), MlReply(c, 500))
           /\ UNCHANGED <<mlRows, mlAdapters, mlImports, mlExports>>
  <2>1. CASE mlTrail' = mlTrail \cup {<<"import_started", Subject(c)>>} /\ MlGo(c, "import_asked")
    <3>1. PICK t \in MlRequest : /\ mlCall' = [mlCall EXCEPT ![c] = t] /\ t.at = "import_asked"
                                 /\ <<t.platform, t.model>> = Subject(c)
      BY <1>t, <2>1, MlMoves DEF MlPlaces
    <3> QED BY <1>1, <1>u, <2>1, <3>1, MlQuietStep
  <2>2. CASE mlTrail' = mlTrail /\ MlReply(c, 500)
    BY <1>1, <1>u, <1>n, <2>2, MlReplies, MlIdleStep
  <2> QED BY <1>1, <2>1, <2>2, MlAssumption DEF LogEvent
<1>2. CASE /\ at = "import_asked"
           /\ \E m \in ExternalModel \cup {NotThere} :
                MlGo(c, IF AdapterImports(mlCall[c].adapter, m) THEN "import_done"
                                                                ELSE "import_refused")
           /\ UNCHANGED <<mlRows, mlAdapters, mlImports, mlExports, mlTrail>>
  <2>1. PICK where \in {"import_done", "import_refused"} : MlGo(c, where)
    BY <1>2
  <2>2. PICK t \in MlRequest : /\ mlCall' = [mlCall EXCEPT ![c] = t] /\ t.at = where
                               /\ <<t.platform, t.model>> = Subject(c)
    BY <1>t, <2>1, MlMoves DEF MlPlaces
  <2>3. <<"import_started", Subject(c)>> \in mlTrail
    BY <1>2 DEF MlInv, AnnouncedFirst
  <2> QED BY <1>2, <1>u, <2>2, <2>3, MlQuietStep
<1>3. CASE /\ at = "import_done"
           /\ LogEvent(c, "import_completed", MlGo(c, "import_store"), MlGo(c, "import_error"))
           /\ UNCHANGED <<mlRows, mlAdapters, mlImports, mlExports>>
  <2>1. CASE mlTrail' = mlTrail \cup {<<"import_completed", Subject(c)>>} /\ MlGo(c, "import_store")
    <3>1. PICK t \in MlRequest : /\ mlCall' = [mlCall EXCEPT ![c] = t] /\ t.at = "import_store"
                                 /\ <<t.platform, t.model>> = Subject(c)
      BY <1>t, <2>1, MlMoves DEF MlPlaces
    <3>2. <<"import_started", Subject(c)>> \in mlTrail
      BY <1>3 DEF MlInv, AnnouncedFirst
    <3> QED BY <1>3, <1>u, <2>1, <3>1, <3>2, MlQuietStep
  <2>2. CASE mlTrail' = mlTrail /\ MlGo(c, "import_error")
    BY <1>3, <1>t, <1>u, <2>2, MlMoves, MlIdleStep DEF MlPlaces
  <2> QED BY <1>3, <2>1, <2>2, MlAssumption DEF LogEvent
<1>4. CASE /\ at = "import_refused"
           /\ LogEvent(c, "import_failed", MlReply(c, 400), MlGo(c, "import_error"))
           /\ UNCHANGED <<mlRows, mlAdapters, mlImports, mlExports>>
  <2>1. mlTrail \subseteq mlTrail' /\ (MlReply(c, 400) \/ MlGo(c, "import_error"))
    BY <1>4 DEF LogEvent
  <2>2. CASE MlReply(c, 400)
    BY <1>4, <1>u, <1>n, <2>1, <2>2, MlReplies, MlIdleStep
  <2>3. CASE MlGo(c, "import_error")
    BY <1>4, <1>t, <1>u, <2>1, <2>3, MlMoves, MlIdleStep DEF MlPlaces
  <2> QED BY <2>1, <2>2, <2>3
<1>5. CASE /\ at = "import_store"
           /\ StoreImportRecord(c)
           /\ UNCHANGED <<mlRows, mlAdapters, mlExports, mlTrail>>
  <2>1. CASE /\ mlRows[mlCall[c].platform] # NotThere
             /\ mlImports' = mlImports \cup {Subject(c)}
             /\ MlReply(c, 201)
    <3>1. PICK t \in MlRequest : mlCall' = [mlCall EXCEPT ![c] = t] /\ t.at = "idle"
      BY <1>n, <2>1, MlReplies
    <3>2. /\ Subject(c) \in Platforms \X Externals
          /\ mlRows[Subject(c)[1]] # NotThere
          /\ {<<"import_started", Subject(c)>>, <<"import_completed", Subject(c)>>} \subseteq mlTrail
      BY <1>5, <2>1 DEF MlInv, MlTypeOK, MlRequest, AnnouncedFirst, Subject
    <3>3. MlTypeOK'
      BY <1>5, <1>t, <2>1, <3>1, <3>2 DEF MlTypeOK
    <3>4. AnnouncedFirst'
      BY <1>5, <1>t, <3>1 DEF MlInv, MlTypeOK, AnnouncedFirst, Subject
    <3>5. RecordsAreAudited'
      BY <1>5, <2>1, <3>2 DEF MlInv, RecordsAreAudited
    <3> QED BY <3>3, <3>4, <3>5 DEF MlInv
  <2>2. CASE mlImports' = mlImports /\ MlGo(c, "import_error")
    BY <1>5, <1>t, <1>u, <2>2, MlMoves, MlIdleStep DEF MlPlaces
  <2> QED BY <1>5, <2>1, <2>2 DEF StoreImportRecord
<1>6. CASE /\ at = "import_error"
           /\ LogEvent(c, "import_error", MlReply(c, 500), MlReply(c, 500))
           /\ UNCHANGED <<mlRows, mlAdapters, mlImports, mlExports>>
  <2>1. mlTrail \subseteq mlTrail' /\ MlReply(c, 500)
    BY <1>6 DEF LogEvent
  <2> QED BY <1>6, <1>u, <1>n, <2>1, MlReplies, MlIdleStep
<1> QED BY <1>1, <1>2, <1>3, <1>4, <1>5, <1>6 DEF ImportModel

(* exportModel, from the announcement to the record.                       *)
LEMMA ExportStep ==
  ASSUME MlInv, NEW c \in Callers, ExportModel(c)
  PROVE  MlInv'
<1> DEFINE at == mlCall[c].at
<1>t. MlTypeOK
  BY DEF MlInv
<1>u. mlRows \in [Platforms -> MlConfig] /\ mlAdapters \in [Replicas -> [Platforms -> MlConfig]]
  BY <1>t DEF MlTypeOK
<1>n. 201 \in Nat /\ 400 \in Nat /\ 500 \in Nat
  OBVIOUS
<1>1. CASE /\ at = "export_started"
           /\ LogEvent(c, "export_started", MlGo(c, "export_asked"), MlReply(c, 500))
           /\ UNCHANGED <<mlRows, mlAdapters, mlImports, mlExports>>
  <2>1. CASE mlTrail' = mlTrail \cup {<<"export_started", Subject(c)>>} /\ MlGo(c, "export_asked")
    <3>1. PICK t \in MlRequest : /\ mlCall' = [mlCall EXCEPT ![c] = t] /\ t.at = "export_asked"
                                 /\ <<t.platform, t.model>> = Subject(c)
      BY <1>t, <2>1, MlMoves DEF MlPlaces
    <3> QED BY <1>1, <1>u, <2>1, <3>1, MlQuietStep
  <2>2. CASE mlTrail' = mlTrail /\ MlReply(c, 500)
    BY <1>1, <1>u, <1>n, <2>2, MlReplies, MlIdleStep
  <2> QED BY <1>1, <2>1, <2>2, MlAssumption DEF LogEvent
<1>2. CASE /\ at = "export_asked"
           /\ MlGo(c, IF AdapterExports(mlCall[c].adapter) THEN "export_done"
                                                           ELSE "export_refused")
           /\ UNCHANGED <<mlRows, mlAdapters, mlImports, mlExports, mlTrail>>
  <2>1. PICK where \in {"export_done", "export_refused"} : MlGo(c, where)
    BY <1>2
  <2>2. PICK t \in MlRequest : /\ mlCall' = [mlCall EXCEPT ![c] = t] /\ t.at = where
                               /\ <<t.platform, t.model>> = Subject(c)
    BY <1>t, <2>1, MlMoves DEF MlPlaces
  <2>3. <<"export_started", Subject(c)>> \in mlTrail
    BY <1>2 DEF MlInv, AnnouncedFirst
  <2> QED BY <1>2, <1>u, <2>2, <2>3, MlQuietStep
<1>3. CASE /\ at = "export_done"
           /\ LogEvent(c, "export_completed", MlGo(c, "export_store"), MlGo(c, "export_error"))
           /\ UNCHANGED <<mlRows, mlAdapters, mlImports, mlExports>>
  <2>1. CASE mlTrail' = mlTrail \cup {<<"export_completed", Subject(c)>>} /\ MlGo(c, "export_store")
    <3>1. PICK t \in MlRequest : /\ mlCall' = [mlCall EXCEPT ![c] = t] /\ t.at = "export_store"
                                 /\ <<t.platform, t.model>> = Subject(c)
      BY <1>t, <2>1, MlMoves DEF MlPlaces
    <3>2. <<"export_started", Subject(c)>> \in mlTrail
      BY <1>3 DEF MlInv, AnnouncedFirst
    <3> QED BY <1>3, <1>u, <2>1, <3>1, <3>2, MlQuietStep
  <2>2. CASE mlTrail' = mlTrail /\ MlGo(c, "export_error")
    BY <1>3, <1>t, <1>u, <2>2, MlMoves, MlIdleStep DEF MlPlaces
  <2> QED BY <1>3, <2>1, <2>2, MlAssumption DEF LogEvent
<1>4. CASE /\ at = "export_refused"
           /\ LogEvent(c, "export_failed", MlReply(c, 400), MlGo(c, "export_error"))
           /\ UNCHANGED <<mlRows, mlAdapters, mlImports, mlExports>>
  <2>1. mlTrail \subseteq mlTrail' /\ (MlReply(c, 400) \/ MlGo(c, "export_error"))
    BY <1>4 DEF LogEvent
  <2>2. CASE MlReply(c, 400)
    BY <1>4, <1>u, <1>n, <2>1, <2>2, MlReplies, MlIdleStep
  <2>3. CASE MlGo(c, "export_error")
    BY <1>4, <1>t, <1>u, <2>1, <2>3, MlMoves, MlIdleStep DEF MlPlaces
  <2> QED BY <2>1, <2>2, <2>3
<1>5. CASE /\ at = "export_store"
           /\ StoreExportRecord(c)
           /\ UNCHANGED <<mlRows, mlAdapters, mlImports, mlTrail>>
  <2>1. CASE /\ mlRows[mlCall[c].platform] # NotThere
             /\ mlExports' = mlExports \cup {Subject(c)}
             /\ MlReply(c, 201)
    <3>1. PICK t \in MlRequest : mlCall' = [mlCall EXCEPT ![c] = t] /\ t.at = "idle"
      BY <1>n, <2>1, MlReplies
    <3>2. /\ Subject(c) \in Platforms \X Externals
          /\ mlRows[Subject(c)[1]] # NotThere
          /\ {<<"export_started", Subject(c)>>, <<"export_completed", Subject(c)>>} \subseteq mlTrail
      BY <1>5, <2>1 DEF MlInv, MlTypeOK, MlRequest, AnnouncedFirst, Subject
    <3>3. MlTypeOK'
      BY <1>5, <1>t, <2>1, <3>1, <3>2 DEF MlTypeOK
    <3>4. AnnouncedFirst'
      BY <1>5, <1>t, <3>1 DEF MlInv, MlTypeOK, AnnouncedFirst, Subject
    <3>5. RecordsAreAudited'
      BY <1>5, <2>1, <3>2 DEF MlInv, RecordsAreAudited
    <3> QED BY <3>3, <3>4, <3>5 DEF MlInv
  <2>2. CASE mlExports' = mlExports /\ MlGo(c, "export_error")
    BY <1>5, <1>t, <1>u, <2>2, MlMoves, MlIdleStep DEF MlPlaces
  <2> QED BY <1>5, <2>1, <2>2 DEF StoreExportRecord
<1>6. CASE /\ at = "export_error"
           /\ LogEvent(c, "export_error", MlReply(c, 500), MlReply(c, 500))
           /\ UNCHANGED <<mlRows, mlAdapters, mlImports, mlExports>>
  <2>1. mlTrail \subseteq mlTrail' /\ MlReply(c, 500)
    BY <1>6 DEF LogEvent
  <2> QED BY <1>6, <1>u, <1>n, <2>1, MlReplies, MlIdleStep
<1> QED BY <1>1, <1>2, <1>3, <1>4, <1>5, <1>6 DEF ExportModel

(* A request that ends at once, or only changes places and adapters.       *)
LEMMA RegisterStep ==
  ASSUME MlInv, NEW c \in Callers, NEW r \in Replicas, NEW p \in Platforms,
         NEW config \in PlatformConfig, RegisterPlatform(c, r, p, config)
  PROVE  MlInv'
<1> DEFINE t == [at |-> "registering", replica |-> r, platform |-> p, model |-> Resting.model,
                 adapter |-> config, code |-> 0]
<1>1. t \in MlRequest /\ t.at = "registering"
  BY RestingType DEF MlRequest, MlPlaces, MlConfig
<1>2. mlCall' = [mlCall EXCEPT ![c] = t] /\ mlRows' = [mlRows EXCEPT ![p] = config]
  BY DEF RegisterPlatform
<1>3. config # NotThere /\ config \in MlConfig
  BY MlAssumption DEF MlConfig, PlatformConfig
<1>4. mlRows' \in [Platforms -> MlConfig]
  BY <1>2, <1>3 DEF MlInv, MlTypeOK
<1>5. \A q \in Platforms : mlRows[q] # NotThere => mlRows'[q] # NotThere
  BY <1>2, <1>3 DEF MlInv, MlTypeOK
<1> QED BY <1>1, <1>2, <1>4, <1>5, MlIdleStep DEF RegisterPlatform, MlInv, MlTypeOK

LEMMA InitializeStep ==
  ASSUME MlInv, NEW c \in Callers, InitializeAdapter(c)
  PROVE  MlInv'
<1>1. mlAdapters' \in [Replicas -> [Platforms -> MlConfig]]
  BY DEF InitializeAdapter, MlInv, MlTypeOK, MlRequest
<1>2. mlTrail \subseteq mlTrail' /\ (MlReply(c, 201) \/ MlReply(c, 500))
  BY DEF InitializeAdapter, LogEvent
<1>3. PICK t \in MlRequest : mlCall' = [mlCall EXCEPT ![c] = t] /\ t.at = "idle"
  BY <1>2, MlReplies
<1> QED BY <1>1, <1>2, <1>3, MlIdleStep DEF InitializeAdapter, MlInv, MlTypeOK

LEMMA DropStep ==
  ASSUME MlInv, NEW c \in Callers, DropAdapter(c)
  PROVE  MlInv'
<1>1. mlAdapters' \in [Replicas -> [Platforms -> MlConfig]]
  BY DEF DropAdapter, MlInv, MlTypeOK, MlRequest, MlConfig
<1>2. mlTrail \subseteq mlTrail' /\ (MlReply(c, 200) \/ MlReply(c, 500))
  BY DEF DropAdapter, LogEvent
<1>3. PICK t \in MlRequest : mlCall' = [mlCall EXCEPT ![c] = t] /\ t.at = "idle"
  BY <1>2, MlReplies
<1> QED BY <1>1, <1>2, <1>3, MlIdleStep DEF DropAdapter, MlInv, MlTypeOK

(* removePlatform: the records of the platform go with its row.            *)
LEMMA RemoveStep ==
  ASSUME MlInv, NEW c \in Callers, NEW r \in Replicas, NEW p \in Platforms,
         RemovePlatform(c, r, p)
  PROVE  MlInv'
<1>1. PICK t \in MlRequest : mlCall' = [mlCall EXCEPT ![c] = t] /\ t.at = "removing"
  BY RestingType, MlStarts DEF RemovePlatform, MlInv, MlRequest, MlPlaces
<1>2. /\ mlImports' \subseteq mlImports /\ \A i \in mlImports' : i[1] # p
      /\ mlExports' \subseteq mlExports /\ \A i \in mlExports' : i[1] # p
  BY DEF RemovePlatform, OfOthers
<1>3. MlTypeOK'
  BY <1>1, <1>2 DEF RemovePlatform, MlInv, MlTypeOK, MlConfig
<1>4. AnnouncedFirst'
  BY <1>1 DEF RemovePlatform, MlInv, MlTypeOK, AnnouncedFirst, Subject
<1>5. RecordsAreAudited'
  BY <1>2 DEF RemovePlatform, MlInv, MlTypeOK, RecordsAreAudited
<1> QED BY <1>3, <1>4, <1>5 DEF MlInv

(* Requests that end where they begin, and the first step of the others.   *)
LEMMA AskStep ==
  ASSUME MlInv, NEW c \in Callers,
         \/ ListPlatforms(c)
         \/ \E r \in Replicas, p \in Platforms :
              \/ TestPlatformConnection(c, r, p) \/ ListModels(c, r, p) \/ GetModel(c, r, p)
              \/ \E x \in Externals : PostImport(c, r, p, x) \/ PostExport(c, r, p, x)
  PROVE  MlInv'
<1>1. \E t \in MlRequest : /\ mlCall' = [mlCall EXCEPT ![c] = t]
                           /\ t.at \in {"idle", "import_started", "export_started"}
  <2>1. CASE \E code \in {200, 404, 500} : MlReply(c, code)
    BY <2>1, MlReplies
  <2>2. CASE \E r \in Replicas, p \in Platforms, x \in Externals :
               MlStart(c, "import_started", r, p, x) \/ MlStart(c, "export_started", r, p, x)
    BY <2>2, MlStarts DEF MlInv, MlPlaces
  <2> QED BY <2>1, <2>2
          DEF ListPlatforms, TestPlatformConnection, ListModels, GetModel, AskPlatform,
              PostImport, PostExport
<1>2. UNCHANGED <<mlRows, mlAdapters, mlImports, mlExports, mlTrail>>
  BY DEF ListPlatforms, TestPlatformConnection, ListModels, GetModel, AskPlatform,
         PostImport, PostExport
<1> QED BY <1>1, <1>2, MlIdleStep DEF MlInv, MlTypeOK

LEMMA RestartStep ==
  ASSUME MlInv, NEW r \in Replicas, ReplicaRestarts(r)
  PROVE  MlInv'
<1>1. \A c \in Callers : mlCall'[c] = Resting \/ mlCall'[c] = mlCall[c]
  BY DEF ReplicaRestarts
<1>2. MlTypeOK'
  BY <1>1, RestingType DEF ReplicaRestarts, MlInv, MlTypeOK, MlConfig
<1>3. AnnouncedFirst'
  BY <1>1, RestingType DEF ReplicaRestarts, MlInv, AnnouncedFirst, Subject
<1>4. RecordsAreAudited'
  BY DEF ReplicaRestarts, MlInv, RecordsAreAudited
<1> QED BY <1>2, <1>3, <1>4 DEF MlInv

LEMMA MlNextInv == MlInv /\ [MlNext]_mlVars => MlInv'
<1> SUFFICES ASSUME MlInv, [MlNext]_mlVars PROVE MlInv'
  OBVIOUS
<1>1. ASSUME NEW c \in Callers, NEW r \in Replicas, NEW p \in Platforms,
             NEW config \in PlatformConfig, RegisterPlatform(c, r, p, config)
      PROVE  MlInv'
  BY <1>1, RegisterStep
<1>2. ASSUME NEW c \in Callers, NEW r \in Replicas, NEW p \in Platforms, RemovePlatform(c, r, p)
      PROVE  MlInv'
  BY <1>2, RemoveStep
<1>3. ASSUME NEW c \in Callers,
             \/ ListPlatforms(c)
             \/ \E r \in Replicas, p \in Platforms :
                  \/ TestPlatformConnection(c, r, p) \/ ListModels(c, r, p) \/ GetModel(c, r, p)
                  \/ \E x \in Externals : PostImport(c, r, p, x) \/ PostExport(c, r, p, x)
      PROVE  MlInv'
  BY <1>3, AskStep
<1>4. ASSUME NEW c \in Callers,
             InitializeAdapter(c) \/ DropAdapter(c) \/ ImportModel(c) \/ ExportModel(c)
      PROVE  MlInv'
  BY <1>4, InitializeStep, DropStep, ImportStep, ExportStep
<1>5. ASSUME NEW r \in Replicas, ReplicaRestarts(r) PROVE MlInv'
  BY <1>5, RestartStep
<1>6. CASE UNCHANGED mlVars
  BY <1>6 DEF mlVars, MlInv, MlTypeOK, AnnouncedFirst, RecordsAreAudited, Subject
<1> QED BY <1>1, <1>2, <1>3, <1>4, <1>5, <1>6 DEF MlNext

(* Whatever fails, restarts or is registered anew: an import or export on  *)
(* record belongs to a registered platform and has its announcement and    *)
(* its success in the audit trail (importModel, exportModel).              *)
THEOREM ImportsAreAudited == MlSpec => []RecordsAreAudited
<1>1. MlInv => RecordsAreAudited
  BY DEF MlInv
<1> QED BY <1>1, MlInitInv, MlNextInv, PTL DEF MlSpec

-----------------------------------------------------------------------------
(* Pipelines.  A request that validates has its validation to itself, from *)
(* the first statement to the last; its place says what the row is by now; *)
(* and a row that says passed is audited, or its request is about to audit *)
(* or to take it back, or two calls have failed.                           *)

CicdUnderway ==
  {"log_started", "policyValidation", "securityScan", "qualityGates", "store_result"}
CicdHolding == CicdUnderway \cup {"log_completed", "store_failed", "log_error"}
CicdPlaces == CicdHolding \cup {"idle", "received", "tracking", "validate"}

CicdWork ==
  [at : CicdPlaces, commit : Commits \cup {Idle.commit}, id : Validations \cup {Idle.id},
   passed : SUBSET Checks]

CicdTypeOK ==
  /\ commits \in [Commits -> {NoRow, "nothing", "model", "version"}]
  /\ validations \in [Validations -> Validation \cup {NoRow}]
  /\ worker \in [Workers -> CicdWork]
  /\ faults \in Nat

RowsOfCommits ==
  \A v \in Validations : validations[v] # NoRow => commits[validations[v].commit] # NoRow

Holds(t) == t.at \in CicdHolding

(* what the place of t says of row, after n failures *)
Fits(t, row, n) ==
  /\ row # NoRow => row.commit = t.commit
  /\ t.at \in CicdUnderway => row # NoRow /\ row.status = "running"
  /\ t.at = "log_completed" => row # NoRow
  /\ t.at = "store_failed" /\ row # NoRow /\ row.status = "passed" => n >= 1
  /\ t.at = "log_error" => row # NoRow /\ row.status = "failed"

WorkersFit ==
  \A w \in Workers :
    /\ worker[w].at # "idle" => worker[w].commit \in Commits
    /\ Holds(worker[w]) =>
         /\ worker[w].id \in Validations
         /\ Fits(worker[w], validations[worker[w].id], faults)

OwnValidation ==
  \A w, x \in Workers :
    w # x /\ Holds(worker[w]) /\ Holds(worker[x]) => worker[w].id # worker[x].id

PassedIsAccounted ==
  \A v \in Validations :
    validations[v] # NoRow /\ validations[v].status = "passed" =>
      /\ validations[v].passed = Checks
      /\ \/ v \in audited
         \/ \E w \in Workers : worker[w].id = v /\ worker[w].at \in {"log_completed", "store_failed"}
         \/ faults >= 2

CicdInv == CicdTypeOK /\ RowsOfCommits /\ WorkersFit /\ OwnValidation /\ PassedIsAccounted

LEMMA IdleType == Idle \in CicdWork /\ Idle.at = "idle" /\ ~Holds(Idle)
<1>1. Idle.at = "idle" /\ Idle.passed = {}
  BY DEF Idle
<1>2. Idle \in CicdWork
  BY DEF Idle, CicdWork, CicdPlaces
<1> QED BY <1>1, <1>2 DEF Holds, CicdHolding, CicdUnderway

(* A step of one request that leaves the rows alone.                       *)
LEMMA CicdQuietStep ==
  ASSUME CicdInv, NEW w \in Workers, NEW t \in CicdWork, worker' = [worker EXCEPT ![w] = t],
         UNCHANGED validations,
         commits' \in [Commits -> {NoRow, "nothing", "model", "version"}],
         \A c \in Commits : commits[c] # NoRow => commits'[c] # NoRow,
         audited \subseteq audited',
         faults' \in Nat, faults' >= faults,
         t.at # "idle" => t.commit \in Commits,
         Holds(t) => /\ t.id \in Validations
                     /\ \A x \in Workers : x # w /\ Holds(worker[x]) => worker[x].id # t.id
                     /\ Fits(t, validations[t.id], faults'),
         worker[w].at \in {"log_completed", "store_failed"} =>
           \/ t.at \in {"log_completed", "store_failed"} /\ t.id = worker[w].id
           \/ worker[w].id \in audited'
           \/ faults' >= 2
           \/ validations[worker[w].id] = NoRow
           \/ validations[worker[w].id].status # "passed"
  PROVE  CicdInv'
<1>t. CicdTypeOK /\ RowsOfCommits /\ WorkersFit /\ OwnValidation /\ PassedIsAccounted
  BY DEF CicdInv
<1>w. \A x \in Workers : worker'[x] = IF x = w THEN t ELSE worker[x]
  BY <1>t DEF CicdTypeOK
<1>1. CicdTypeOK'
  BY <1>t DEF CicdTypeOK
<1>2. RowsOfCommits'
  BY <1>t, CicdAssumption DEF CicdTypeOK, RowsOfCommits, Validation
<1>3. WorkersFit'
  <2> SUFFICES ASSUME NEW x \in Workers
               PROVE  /\ worker'[x].at # "idle" => worker'[x].commit \in Commits
                      /\ Holds(worker'[x]) =>
                           /\ worker'[x].id \in Validations
                           /\ Fits(worker'[x], validations[worker'[x].id], faults')
    BY DEF WorkersFit, Holds, Fits
  <2>1. CASE x = w
    BY <1>w, <2>1, <1>t DEF WorkersFit
  <2>2. CASE x # w
    <3>1. worker'[x] = worker[x]
      BY <1>w, <2>2
    <3>2. /\ worker[x].at # "idle" => worker[x].commit \in Commits
          /\ Holds(worker[x]) => /\ worker[x].id \in Validations
                                 /\ Fits(worker[x], validations[worker[x].id], faults)
      BY <1>t DEF WorkersFit
    <3>3. Fits(worker[x], validations[worker[x].id], faults)
            => Fits(worker[x], validations[worker[x].id], faults')
      BY <1>t DEF Fits, CicdTypeOK
    <3> QED BY <3>1, <3>2, <3>3
  <2> QED BY <2>1, <2>2
<1>4. OwnValidation'
  BY <1>t, <1>w DEF OwnValidation, Holds
<1>5. PassedIsAccounted'
  <2> SUFFICES ASSUME NEW v \in Validations, validations[v] # NoRow,
                      validations[v].status = "passed"
               PROVE  /\ validations[v].passed = Checks
                      /\ \/ v \in audited'
                         \/ \E x \in Workers : /\ worker'[x].id = v
                                               /\ worker'[x].at \in {"log_completed", "store_failed"}
                         \/ faults' >= 2
    BY DEF PassedIsAccounted
  <2>1. validations[v].passed = Checks
    BY <1>t DEF PassedIsAccounted
  <2>2. CASE v \in audited \/ faults >= 2
    BY <2>1, <2>2, <1>t DEF CicdTypeOK
  <2>3. ASSUME NEW x \in Workers, worker[x].id = v,
               worker[x].at \in {"log_completed", "store_failed"}
        PROVE  \/ v \in audited'
               \/ \E y \in Workers : /\ worker'[y].id = v
                                     /\ worker'[y].at \in {"log_completed", "store_failed"}
               \/ faults' >= 2
    <3>1. CASE x # w
      BY <2>3, <3>1, <1>w
    <3>2. CASE x = w
      BY <2>3, <3>2, <1>w
    <3> QED BY <3>1, <3>2
  <2> QED BY <2>1, <2>2, <2>3, <1>t DEF PassedIsAccounted
<1> QED BY <1>1, <1>2, <1>3, <1>4, <1>5 DEF CicdInv

(* A row is written by the request that has the validation, or by the one  *)
(* that starts it.                                                         *)
LEMMA CicdStoreStep ==
  ASSUME CicdInv, NEW w \in Workers, NEW t \in CicdWork, NEW v \in Validations,
         NEW row \in Validation,
         worker' = [worker EXCEPT ![w] = t], validations' = [validations EXCEPT ![v] = row],
         UNCHANGED <<commits, audited, faults>>,
         t.commit \in Commits, t.id = v, row.commit = t.commit, commits[t.commit] # NoRow,
         Holds(t), Fits(t, row, faults),
         \A x \in Workers : x # w /\ Holds(worker[x]) => worker[x].id # v,
         row.status = "passed" => row.passed = Checks /\ t.at = "log_completed",
         Holds(worker[w]) => worker[w].id = v
  PROVE  CicdInv'
<1>t. CicdTypeOK /\ RowsOfCommits /\ WorkersFit /\ OwnValidation /\ PassedIsAccounted
  BY DEF CicdInv
<1>w. \A x \in Workers : worker'[x] = IF x = w THEN t ELSE worker[x]
  BY <1>t DEF CicdTypeOK
<1>v. \A u \in Validations : validations'[u] = IF u = v THEN row ELSE validations[u]
  BY <1>t DEF CicdTypeOK
<1>1. CicdTypeOK'
  BY <1>t DEF CicdTypeOK
<1>2. RowsOfCommits'
  BY <1>t, <1>v DEF RowsOfCommits
<1>3. WorkersFit'
  <2> SUFFICES ASSUME NEW x \in Workers
               PROVE  /\ worker'[x].at # "idle" => worker'[x].commit \in Commits
                      /\ Holds(worker'[x]) =>
                           /\ worker'[x].id \in Validations
                           /\ Fits(worker'[x], validations'[worker'[x].id], faults)
    BY DEF WorkersFit, Holds, Fits
  <2>1. CASE x = w
    BY <1>w, <1>v, <2>1
  <2>2. CASE x # w
    <3>1. worker'[x] = worker[x]
      BY <1>w, <2>2
    <3>2. Holds(worker[x]) => worker[x].id \in Validations /\ worker[x].id # v
      BY <1>t, <2>2 DEF WorkersFit
    <3> QED BY <3>1, <3>2, <1>v, <1>t DEF WorkersFit
  <2> QED BY <2>1, <2>2
<1>4. OwnValidation'
  <2> SUFFICES ASSUME NEW x \in Workers, NEW y \in Workers, x # y,
                      Holds(worker'[x]), Holds(worker'[y])
               PROVE  worker'[x].id # worker'[y].id
    BY DEF OwnValidation, Holds
  <2>1. CASE x # w /\ y # w
    BY <2>1, <1>w, <1>t DEF OwnValidation
  <2>2. CASE x = w
    BY <2>2, <1>w
  <2>3. CASE y = w
    BY <2>3, <1>w
  <2> QED BY <2>1, <2>2, <2>3
<1>5. PassedIsAccounted'
  <2> SUFFICES ASSUME NEW u \in Validations, validations'[u] # NoRow,
                      validations'[u].status = "passed"
               PROVE  /\ validations'[u].passed = Checks
                      /\ \/ u \in audited
                         \/ \E x \in Workers : /\ worker'[x].id = u
                                               /\ worker'[x].at \in {"log_completed", "store_failed"}
                         \/ faults >= 2
    BY DEF PassedIsAccounted
  <2>1. CASE u = v
    <3>1. row.passed = Checks /\ t.at = "log_completed"
      BY <2>1, <1>v
    <3> QED BY <2>1, <3>1, <1>v, <1>w
  <2>2. CASE u # v
    <3>1. validations'[u] = validations[u]
      BY <2>2, <1>v
    <3>2. ASSUME NEW x \in Workers, worker[x].id = u,
                 worker[x].at \in {"log_completed", "store_failed"}
          PROVE  \E y \in Workers : /\ worker'[y].id = u
                                    /\ worker'[y].at \in {"log_completed", "store_failed"}
      <4>1. Holds(worker[x])
        BY <3>2 DEF Holds, CicdHolding
      <4>2. x # w
        BY <4>1, <3>2, <2>2
      <4> QED BY <4>2, <3>2, <1>w
    <3>3. /\ validations[u].passed = Checks
          /\ \/ u \in audited
             \/ \E x \in Workers : worker[x].id = u /\ worker[x].at \in {"log_completed", "store_failed"}
             \/ faults >= 2
      BY <3>1, <1>t DEF PassedIsAccounted
    <3> QED BY <3>1, <3>2, <3>3
  <2> QED BY <2>1, <2>2
<1> QED BY <1>1, <1>2, <1>3, <1>4, <1>5 DEF CicdInv

LEMMA CicdInitInv == CicdInit => CicdInv
<1> SUFFICES ASSUME CicdInit  PROVE CicdInv
  OBVIOUS
<1>1. CicdTypeOK
  BY IdleType DEF CicdInit, CicdTypeOK
<1>2. \A w \in Workers : worker[w].at = "idle" /\ ~Holds(worker[w])
  BY IdleType DEF CicdInit
<1>3. \A v \in Validations : validations[v] = NoRow
  BY DEF CicdInit
<1> QED BY <1>1, <1>2, <1>3 DEF CicdInv, RowsOfCommits, WorkersFit, OwnValidation, PassedIsAccounted

(* A request that ends; only one that may owe an audit has to say why.     *)
LEMMA CicdEnds ==
  ASSUME CicdInv, NEW w \in Workers, End(w), UNCHANGED <<validations, audited>>,
         commits' \in [Commits -> {NoRow, "nothing", "model", "version"}],
         \A c \in Commits : commits[c] # NoRow => commits'[c] # NoRow,
         faults' \in Nat, faults' >= faults,
         worker[w].at \notin {"log_completed", "store_failed"}
  PROVE  CicdInv'
<1>1. worker' = [worker EXCEPT ![w] = Idle]
  BY DEF End
<1> QED BY <1>1, IdleType, CicdQuietStep

(* A request that goes on to another place, t, with the same validation.   *)
Keeps(t, w) ==
  /\ t \in CicdWork /\ worker' = [worker EXCEPT ![w] = t]
  /\ t.id = worker[w].id /\ t.commit = worker[w].commit

LEMMA CicdGoes ==
  ASSUME CicdTypeOK, NEW w \in Workers, NEW at \in CicdPlaces, Go(w, at)
  PROVE  \E t \in CicdWork : Keeps(t, w) /\ t.at = at
<1> DEFINE t == [worker[w] EXCEPT !.at = at]
<1>1. t \in CicdWork /\ t.at = at /\ t.id = worker[w].id /\ t.commit = worker[w].commit
  BY DEF CicdTypeOK, CicdWork
<1>2. worker' = [worker EXCEPT ![w] = t]
  BY DEF Go
<1> HIDE DEF t
<1> QED BY <1>1, <1>2 DEF Keeps

LEMMA CicdGoesOn ==
  ASSUME CicdInv, NEW w \in Workers, NEW t \in CicdWork, Keeps(t, w),
         UNCHANGED <<validations, audited>>,
         commits' \in [Commits -> {NoRow, "nothing", "model", "version"}],
         \A c \in Commits : commits[c] # NoRow => commits'[c] # NoRow,
         faults' \in Nat, faults' >= faults,
         t.at # "idle" => worker[w].commit \in Commits,
         t.at \in CicdHolding => Holds(worker[w]),
         t.at \in CicdUnderway => worker[w].at \in CicdUnderway,
         t.at = "store_failed" => faults' >= 1,
         t.at \notin {"log_completed", "log_error"},
         worker[w].at \in {"log_completed", "store_failed"} => t.at = "store_failed"
  PROVE  CicdInv'
<1>t. CicdTypeOK /\ WorkersFit
  BY DEF CicdInv
<1>f. t.id = worker[w].id /\ t.commit = worker[w].commit /\ worker' = [worker EXCEPT ![w] = t]
  BY DEF Keeps
<1>1. Holds(t) => Holds(worker[w]) /\ t.id = worker[w].id
  BY <1>f DEF Holds
<1>2. Holds(t) => Fits(t, validations[t.id], faults')
  <2>1. Holds(worker[w]) => Fits(worker[w], validations[worker[w].id], faults)
    BY <1>t DEF WorkersFit
  <2> QED BY <2>1, <1>1, <1>f DEF Fits
<1>3. Holds(t) => /\ t.id \in Validations
                  /\ \A x \in Workers : x # w /\ Holds(worker[x]) => worker[x].id # t.id
  BY <1>1, <1>t DEF WorkersFit, CicdInv, OwnValidation
<1> QED BY <1>1, <1>2, <1>3, <1>f, CicdQuietStep

(* A provider or a link: no request moves, and no commit loses its row.    *)
LEMMA CicdByHand ==
  ASSUME CicdInv, UNCHANGED <<validations, audited, worker, faults>>,
         commits' \in [Commits -> {NoRow, "nothing", "model", "version"}],
         \A c \in Commits : commits[c] # NoRow => commits'[c] # NoRow
  PROVE  CicdInv'
<1>t. CicdTypeOK /\ RowsOfCommits /\ WorkersFit /\ OwnValidation /\ PassedIsAccounted
  BY DEF CicdInv
<1>1. CicdTypeOK' /\ OwnValidation' /\ PassedIsAccounted' /\ WorkersFit'
  BY <1>t DEF CicdTypeOK, OwnValidation, PassedIsAccounted, WorkersFit, Holds, Fits
<1>2. RowsOfCommits'
  BY <1>t, CicdAssumption DEF CicdTypeOK, RowsOfCommits, Validation
<1> QED BY <1>1, <1>2 DEF CicdInv

(* A request that begins: the body of a webhook, or a trigger.             *)
LEMMA CicdBegins ==
  ASSUME CicdInv, NEW w \in Workers, NEW c \in Commits, NEW at \in {"received", "validate"},
         At(w, "idle"), worker' = [worker EXCEPT ![w] = [Idle EXCEPT !.at = at, !.commit = c]],
         UNCHANGED <<providers, commits, validations, audited, faults>>
  PROVE  CicdInv'
<1> DEFINE t == [Idle EXCEPT !.at = at, !.commit = c]
<1>1. t \in CicdWork /\ t.at = at /\ t.commit = c
  BY IdleType DEF CicdWork, CicdPlaces
<1>2. ~Holds(t)
  BY <1>1 DEF Holds, CicdHolding, CicdUnderway
<1>3. worker' = [worker EXCEPT ![w] = t]
  OBVIOUS
<1>4. CicdTypeOK
  BY DEF CicdInv
<1> HIDE DEF t
<1>5. worker[w].at = "idle"
  BY DEF At
<1>6. worker[w].at \notin {"log_completed", "store_failed"}
  BY <1>5
<1>7. /\ commits' \in [Commits -> {NoRow, "nothing", "model", "version"}] /\ commits' = commits
      /\ faults' \in Nat /\ faults' >= faults /\ audited' = audited
  BY <1>4 DEF CicdTypeOK
<1> QED BY <1>1, <1>2, <1>3, <1>6, <1>7, CicdQuietStep

LEMMA ProcessStep ==
  ASSUME CicdInv, NEW w \in Workers, ProcessWebhook(w)
  PROVE  CicdInv'
<1>t. CicdTypeOK /\ WorkersFit /\ worker[w] \in CicdWork /\ worker[w].at = "received"
      /\ worker[w].commit \in Commits
  BY DEF CicdInv, CicdTypeOK, WorkersFit, ProcessWebhook, At
<1>s. commits' \in [Commits -> {NoRow, "nothing", "model", "version"}] /\ commits' = commits
      /\ UNCHANGED <<validations, audited>> /\ faults \in Nat /\ MaxFaults \in Nat
  BY <1>t, CicdAssumption DEF CicdTypeOK, ProcessWebhook
<1>1. CASE Go(w, "tracking") /\ UNCHANGED faults
  <2>1. "tracking" \in CicdPlaces /\ "tracking" \notin CicdHolding /\ "tracking" \notin CicdUnderway
    BY DEF CicdPlaces, CicdHolding, CicdUnderway
  <2>2. PICK t \in CicdWork : Keeps(t, w) /\ t.at = "tracking"
    BY <1>1, <1>t, <2>1, CicdGoes
  <2>3. worker[w].at \notin {"log_completed", "store_failed"}
    BY <1>t
  <2>4. faults' \in Nat /\ faults' >= faults
    BY <1>1, <1>s
  <2> QED BY <2>1, <2>2, <2>3, <2>4, <1>s, <1>t, CicdGoesOn
<1>2. CASE Fails /\ End(w)
  BY <1>2, <1>s, <1>t, CicdEnds DEF Fails
<1>3. CASE End(w) /\ UNCHANGED faults
  BY <1>3, <1>s, <1>t, CicdEnds
<1> QED BY <1>1, <1>2, <1>3 DEF ProcessWebhook

LEMMA TrackStep ==
  ASSUME CicdInv, NEW w \in Workers, TrackCommit(w)
  PROVE  CicdInv'
<1>t. CicdTypeOK /\ WorkersFit /\ worker[w] \in CicdWork /\ worker[w].at = "tracking"
      /\ worker[w].commit \in Commits
  BY DEF CicdInv, CicdTypeOK, WorkersFit, TrackCommit, At
<1> DEFINE c == worker[w].commit
<1>s. UNCHANGED <<validations, audited>> /\ faults \in Nat /\ MaxFaults \in Nat
  BY <1>t, CicdAssumption DEF CicdTypeOK, TrackCommit
<1>n. worker[w].at \notin {"log_completed", "store_failed"}
  BY <1>t
<1>1. ASSUME commits' = [commits EXCEPT ![c] = Mentions[c]]
      PROVE  /\ commits' \in [Commits -> {NoRow, "nothing", "model", "version"}]
             /\ \A k \in Commits : commits[k] # NoRow => commits'[k] # NoRow
  BY <1>1, <1>t, CicdAssumption DEF CicdTypeOK
<1>2. CASE commits' = [commits EXCEPT ![c] = Mentions[c]] /\ Go(w, "validate") /\ UNCHANGED faults
  <2>1. "validate" \in CicdPlaces /\ "validate" \notin CicdHolding /\ "validate" \notin CicdUnderway
    BY DEF CicdPlaces, CicdHolding, CicdUnderway
  <2>2. PICK t \in CicdWork : Keeps(t, w) /\ t.at = "validate"
    BY <1>2, <1>t, <2>1, CicdGoes
  <2>3. faults' \in Nat /\ faults' >= faults
    BY <1>2, <1>s
  <2> QED BY <2>1, <2>2, <2>3, <1>1, <1>2, <1>n, <1>s, <1>t, CicdGoesOn
<1>3. CASE commits' = [commits EXCEPT ![c] = Mentions[c]] /\ End(w) /\ UNCHANGED faults
  BY <1>3, <1>1, <1>n, <1>s, CicdEnds
<1>4. CASE Fails /\ End(w) /\ UNCHANGED commits
  <2>1. faults' \in Nat /\ faults' >= faults /\ commits' = commits
    BY <1>4, <1>s DEF Fails
  <2> QED BY <2>1, <1>4, <1>n, <1>s, <1>t, CicdEnds DEF CicdTypeOK
<1> QED BY <1>2, <1>3, <1>4 DEF TrackCommit

(* A step between two awaits of a validation: it goes on, or goes wrong.   *)
LEMMA CicdUnderwayStep ==
  ASSUME CicdInv, NEW w \in Workers, worker[w].at \in CicdUnderway,
         NEW t \in CicdWork, Keeps(t, w), t.at \in CicdUnderway \cup {"store_failed"},
         UNCHANGED <<commits, validations, audited>>,
         faults' \in Nat, faults' >= faults, t.at = "store_failed" => faults' >= 1
  PROVE  CicdInv'
<1>t. CicdTypeOK /\ WorkersFit
  BY DEF CicdInv
<1>1. Holds(worker[w]) /\ worker[w].commit \in Commits
  BY <1>t DEF WorkersFit, Holds, CicdHolding, CicdUnderway
<1>2. /\ t.at \notin {"log_completed", "log_error"}
      /\ worker[w].at \notin {"log_completed", "store_failed"}
      /\ "store_failed" \notin CicdUnderway
  BY DEF CicdUnderway
<1>3. commits' \in [Commits -> {NoRow, "nothing", "model", "version"}] /\ commits' = commits
  BY <1>t DEF CicdTypeOK
<1> QED BY <1>1, <1>2, <1>3, CicdGoesOn

LEMMA LogStartedStep ==
  ASSUME CicdInv, NEW w \in Workers, LogStarted(w)
  PROVE  CicdInv'
<1>t. /\ CicdTypeOK /\ faults \in Nat
      /\ worker[w].at \in CicdUnderway /\ UNCHANGED <<commits, validations, audited>>
  BY DEF CicdInv, CicdTypeOK, LogStarted, At, CicdUnderway
<1>1. CASE Go(w, "policyValidation") /\ UNCHANGED faults
  <2>1. "policyValidation" \in CicdUnderway /\ "policyValidation" \in CicdPlaces
    BY DEF CicdUnderway, CicdPlaces, CicdHolding
  <2>2. PICK t \in CicdWork : Keeps(t, w) /\ t.at = "policyValidation"
    BY <1>1, <1>t, <2>1, CicdGoes
  <2>3. faults' \in Nat /\ faults' >= faults
    BY <1>1, <1>t
  <2> QED BY <1>t, <2>1, <2>2, <2>3, CicdUnderwayStep
<1>2. CASE Fails /\ Go(w, "store_failed")
  <2>1. "store_failed" \in CicdPlaces
    BY DEF CicdPlaces, CicdHolding
  <2>2. PICK t \in CicdWork : Keeps(t, w) /\ t.at = "store_failed"
    BY <1>2, <1>t, <2>1, CicdGoes
  <2>3. faults' \in Nat /\ faults' >= faults /\ faults' >= 1
    BY <1>2, <1>t DEF Fails
  <2> QED BY <1>t, <2>2, <2>3, CicdUnderwayStep
<1> QED BY <1>1, <1>2 DEF LogStarted

LEMMA RunCheckStep ==
  ASSUME CicdInv, NEW w \in Workers,
         NEW check \in Checks, NEW next \in CicdUnderway, RunCheck(w, check, next)
  PROVE  CicdInv'
<1>t. /\ worker \in [Workers -> CicdWork] /\ worker[w] \in CicdWork /\ faults \in Nat
      /\ worker[w].at \in CicdUnderway /\ UNCHANGED <<commits, validations, audited, faults>>
      /\ next \in CicdPlaces
  BY DEF CicdInv, CicdTypeOK, RunCheck, At, CicdUnderway, Checks, CicdPlaces, CicdHolding
<1>1. PICK holds \in BOOLEAN :
        worker' = [worker EXCEPT ![w].at = next,
                                 ![w].passed = IF holds THEN @ \cup {check} ELSE @]
  BY DEF RunCheck
<1> DEFINE passed == IF holds THEN worker[w].passed \cup {check} ELSE worker[w].passed
           t == [worker[w] EXCEPT !.at = next, !.passed = passed]
<1>2. passed \in SUBSET Checks
  BY <1>t DEF CicdWork
<1>3. worker' = [worker EXCEPT ![w] = t]
  BY <1>1, <1>t DEF CicdWork
<1> HIDE DEF passed
<1>4. t \in CicdWork /\ t.at = next /\ t.id = worker[w].id /\ t.commit = worker[w].commit
  BY <1>2, <1>t DEF CicdWork
<1> HIDE DEF t
<1>5. Keeps(t, w) /\ faults' \in Nat /\ faults' >= faults /\ t.at # "store_failed"
  BY <1>3, <1>4, <1>t DEF Keeps, CicdUnderway
<1> QED BY <1>t, <1>4, <1>5, CicdUnderwayStep

(* What storePipelineValidation writes when it goes well, and where the    *)
(* request is when it throws.                                              *)
LEMMA CicdStores ==
  ASSUME CicdTypeOK, NEW w \in Workers, NEW v \in Validations, worker[w].commit \in Commits,
         NEW status \in {"running", "passed", "failed"},
         NEW next \in CicdPlaces, NEW onThrow \in CicdPlaces,
         StorePipelineValidation(w, v, status, next, onThrow)
  PROVE  \/ \E t \in CicdWork, row \in Validation :
              /\ worker' = [worker EXCEPT ![w] = t] /\ validations' = [validations EXCEPT ![v] = row]
              /\ t.at = next /\ t.id = v /\ t.commit = worker[w].commit
              /\ row.commit = t.commit /\ row.status = status /\ row.passed = worker[w].passed
              /\ commits[t.commit] # NoRow /\ UNCHANGED faults
         \/ \E t \in CicdWork :
              /\ worker' = [worker EXCEPT ![w] = t] /\ UNCHANGED validations
              /\ IF onThrow = "idle" THEN t = Idle
                 ELSE t.at = onThrow /\ t.id = v /\ t.commit = worker[w].commit
              /\ commits[worker[w].commit] # NoRow => faults' = faults + 1
              /\ faults' \in Nat /\ faults' >= faults
<1>r. worker[w] \in CicdWork /\ faults \in Nat
  BY DEF CicdTypeOK
<1> DEFINE row == [commit |-> worker[w].commit, status |-> status, passed |-> worker[w].passed]
           t(at) == [worker[w] EXCEPT !.at = at, !.id = v]
<1>f. ASSUME NEW at \in CicdPlaces
      PROVE  t(at) \in CicdWork /\ t(at).at = at /\ t(at).id = v /\ t(at).commit = worker[w].commit
  BY <1>r DEF CicdWork
<1>1. CASE /\ commits[worker[w].commit] # NoRow
           /\ validations' = [validations EXCEPT ![v] = row]
           /\ worker' = [worker EXCEPT ![w].at = next, ![w].id = v]
           /\ UNCHANGED faults
  <2>1. worker' = [worker EXCEPT ![w] = t(next)]
    BY <1>1 DEF CicdTypeOK, CicdWork
  <2>2. row \in Validation /\ row.commit = worker[w].commit /\ row.status = status
        /\ row.passed = worker[w].passed
    BY <1>r DEF Validation, CicdWork
  <2> DEFINE u == t(next)
  <2>3. u \in CicdWork /\ u.at = next /\ u.id = v /\ u.commit = worker[w].commit
    BY <1>f
  <2>4. worker' = [worker EXCEPT ![w] = u] /\ validations' = [validations EXCEPT ![v] = row]
        /\ row.commit = u.commit /\ commits[u.commit] # NoRow /\ UNCHANGED faults
    BY <1>1, <2>1, <2>2, <2>3
  <2> HIDE DEF row, u
  <2> QED BY <2>2, <2>3, <2>4
<1>2. CASE /\ commits[worker[w].commit] = NoRow \/ faults < MaxFaults
           /\ faults' = IF commits[worker[w].commit] = NoRow THEN faults ELSE faults + 1
           /\ worker' = [worker EXCEPT ![w] = IF onThrow = "idle" THEN Idle
                                              ELSE [@ EXCEPT !.at = onThrow, !.id = v]]
           /\ UNCHANGED validations
  <2> DEFINE u == IF onThrow = "idle" THEN Idle ELSE t(onThrow)
  <2>1. worker' = [worker EXCEPT ![w] = u]
    BY <1>2 DEF CicdTypeOK
  <2>2. u \in CicdWork
        /\ IF onThrow = "idle" THEN u = Idle
           ELSE u.at = onThrow /\ u.id = v /\ u.commit = worker[w].commit
    BY <1>f, IdleType
  <2>3. /\ commits[worker[w].commit] # NoRow => faults' = faults + 1
        /\ faults' \in Nat /\ faults' >= faults
    BY <1>2, <1>r
  <2> HIDE DEF u, t, row
  <2> QED BY <1>2, <2>1, <2>2, <2>3
<1> QED BY <1>1, <1>2 DEF StorePipelineValidation

(* The first statement: an id that no row and no other request has.        *)
LEMMA StartStep ==
  ASSUME CicdInv, NEW w \in Workers, StartValidation(w)
  PROVE  CicdInv'
<1>t. /\ CicdTypeOK /\ WorkersFit /\ worker[w].at = "validate" /\ ~Holds(worker[w])
      /\ worker[w].commit \in Commits /\ UNCHANGED <<commits, audited>> /\ faults \in Nat
  BY DEF CicdInv, CicdTypeOK, WorkersFit, StartValidation, At, Holds, CicdHolding, CicdUnderway
<1>1. PICK v \in Validations :
        /\ validations[v] = NoRow
        /\ \A x \in Workers : At(x, "idle") \/ At(x, "received") \/ At(x, "tracking")
                                \/ At(x, "validate") \/ worker[x].id # v
        /\ StorePipelineValidation(w, v, "running", "log_started", "store_failed")
  BY DEF StartValidation
<1>2. \A x \in Workers : Holds(worker[x]) => worker[x].id # v
  BY <1>1 DEF Holds, At, CicdHolding, CicdUnderway
<1>p. /\ "log_started" \in CicdPlaces /\ "store_failed" \in CicdPlaces
      /\ "log_started" \in CicdUnderway /\ "store_failed" \notin CicdUnderway
      /\ "log_started" \in CicdHolding /\ "store_failed" \in CicdHolding
  BY DEF CicdPlaces, CicdHolding, CicdUnderway
<1>n. worker[w].at \notin {"log_completed", "store_failed"}
  BY <1>t
<1>3. ASSUME NEW t \in CicdWork, NEW row \in Validation,
             worker' = [worker EXCEPT ![w] = t], validations' = [validations EXCEPT ![v] = row],
             t.at = "log_started", t.id = v, t.commit = worker[w].commit,
             row.commit = t.commit, row.status = "running",
             commits[t.commit] # NoRow, UNCHANGED faults
      PROVE  CicdInv'
  <2>1. Holds(t) /\ Fits(t, row, faults) /\ row.status # "passed"
    BY <1>3, <1>p, CicdAssumption DEF Holds, Fits
  <2>2. /\ t.commit \in Commits /\ UNCHANGED <<commits, audited, faults>>
        /\ \A x \in Workers : x # w /\ Holds(worker[x]) => worker[x].id # v
        /\ Holds(worker[w]) => worker[w].id = v
        /\ row.status = "passed" => row.passed = Checks /\ t.at = "log_completed"
    BY <1>3, <2>1, <1>2, <1>t
  <2> QED BY <1>3, <2>1, <2>2, CicdStoreStep
<1>4. ASSUME NEW t \in CicdWork, worker' = [worker EXCEPT ![w] = t], UNCHANGED validations,
             t.at = "store_failed", t.id = v, t.commit = worker[w].commit,
             faults' \in Nat, faults' >= faults
      PROVE  CicdInv'
  <2>1. Fits(t, validations[t.id], faults')
    BY <1>4, <1>1, <1>p DEF Fits
  <2>2. commits' \in [Commits -> {NoRow, "nothing", "model", "version"}] /\ commits' = commits
        /\ audited' = audited
    BY <1>t DEF CicdTypeOK
  <2> QED BY <1>4, <2>1, <2>2, <1>2, <1>t, <1>n, CicdQuietStep
<1> QED BY <1>1, <1>3, <1>4, <1>t, <1>p, CicdStores

(* The result: passed only with every check, and its audit comes next.     *)
LEMMA StoreResultStep ==
  ASSUME CicdInv, NEW w \in Workers, StoreResult(w)
  PROVE  CicdInv'
<1> DEFINE v == worker[w].id
           status == IF worker[w].passed = Checks THEN "passed" ELSE "failed"
<1>t. /\ CicdTypeOK /\ WorkersFit /\ OwnValidation /\ worker[w].at = "store_result"
      /\ UNCHANGED <<commits, audited>> /\ faults \in Nat
  BY DEF CicdInv, CicdTypeOK, StoreResult, At
<1>p. /\ "log_completed" \in CicdPlaces /\ "store_failed" \in CicdPlaces
      /\ "store_result" \in CicdUnderway /\ "store_result" \in CicdHolding
      /\ "log_completed" \notin CicdUnderway /\ "store_failed" \notin CicdUnderway
      /\ "log_completed" \in CicdHolding /\ "store_failed" \in CicdHolding
  BY DEF CicdPlaces, CicdHolding, CicdUnderway
<1>1. Holds(worker[w]) /\ v \in Validations /\ worker[w].commit \in Commits
      /\ validations[v] # NoRow /\ validations[v].status = "running"
      /\ validations[v].commit = worker[w].commit
  BY <1>t, <1>p DEF WorkersFit, Holds, Fits
<1>2. \A x \in Workers : x # w /\ Holds(worker[x]) => worker[x].id # v
  BY <1>t, <1>1 DEF OwnValidation
<1>n. worker[w].at \notin {"log_completed", "store_failed"}
  BY <1>t
<1>3. StorePipelineValidation(w, v, status, "log_completed", "store_failed")
      /\ status \in {"running", "passed", "failed"}
      /\ (status = "passed" => worker[w].passed = Checks)
  BY DEF StoreResult
<1> HIDE DEF v, status
<1>4. ASSUME NEW t \in CicdWork, NEW row \in Validation,
             worker' = [worker EXCEPT ![w] = t], validations' = [validations EXCEPT ![v] = row],
             t.at = "log_completed", t.id = v, t.commit = worker[w].commit,
             row.commit = t.commit, row.status = status, row.passed = worker[w].passed,
             commits[t.commit] # NoRow, UNCHANGED faults
      PROVE  CicdInv'
  <2>1. Holds(t) /\ Fits(t, row, faults) /\ t.commit \in Commits
    BY <1>4, <1>p, <1>1, CicdAssumption DEF Holds, Fits
  <2>2. row.status = "passed" => row.passed = Checks /\ t.at = "log_completed"
    BY <1>4, <1>3
  <2> QED BY <1>4, <2>1, <2>2, <1>1, <1>2, <1>t, CicdStoreStep DEF v
<1>5. ASSUME NEW t \in CicdWork, worker' = [worker EXCEPT ![w] = t], UNCHANGED validations,
             t.at = "store_failed", t.id = v, t.commit = worker[w].commit,
             faults' \in Nat, faults' >= faults
      PROVE  CicdInv'
  <2>1. Fits(t, validations[t.id], faults') /\ t.commit \in Commits
    BY <1>5, <1>1, <1>p DEF Fits
  <2>2. commits' \in [Commits -> {NoRow, "nothing", "model", "version"}] /\ commits' = commits
        /\ audited' = audited
    BY <1>t DEF CicdTypeOK
  <2> QED BY <1>5, <2>1, <2>2, <1>1, <1>2, <1>n, CicdQuietStep
<1> QED BY <1>1, <1>3, <1>4, <1>5, <1>t, <1>p, CicdStores

(* The catch: the row is taken back, or a second call has failed.          *)
LEMMA StoreFailedStep ==
  ASSUME CicdInv, NEW w \in Workers, StoreFailed(w)
  PROVE  CicdInv'
<1> DEFINE v == worker[w].id
<1>t. /\ CicdTypeOK /\ RowsOfCommits /\ WorkersFit /\ OwnValidation /\ worker[w].at = "store_failed"
      /\ UNCHANGED <<commits, audited>> /\ faults \in Nat
  BY DEF CicdInv, CicdTypeOK, StoreFailed, At
<1>p. /\ "log_error" \in CicdPlaces /\ "idle" \in CicdPlaces /\ "store_failed" \in CicdHolding
      /\ "log_error" \notin CicdUnderway /\ "log_error" \in CicdHolding
  BY DEF CicdPlaces, CicdHolding, CicdUnderway
<1>1. Holds(worker[w]) /\ v \in Validations /\ worker[w].commit \in Commits
      /\ Fits(worker[w], validations[v], faults)
  BY <1>t, <1>p DEF WorkersFit, Holds
<1>2. \A x \in Workers : x # w /\ Holds(worker[x]) => worker[x].id # v
  BY <1>t, <1>1 DEF OwnValidation
<1>3. StorePipelineValidation(w, v, "failed", "log_error", "idle")
  BY DEF StoreFailed
<1> HIDE DEF v
<1>4. ASSUME NEW t \in CicdWork, NEW row \in Validation,
             worker' = [worker EXCEPT ![w] = t], validations' = [validations EXCEPT ![v] = row],
             t.at = "log_error", t.id = v, t.commit = worker[w].commit,
             row.commit = t.commit, row.status = "failed",
             commits[t.commit] # NoRow, UNCHANGED faults
      PROVE  CicdInv'
  <2>1. Holds(t) /\ Fits(t, row, faults) /\ t.commit \in Commits /\ row.status # "passed"
    BY <1>4, <1>p, <1>1, CicdAssumption DEF Holds, Fits
  <2> QED BY <1>4, <2>1, <1>1, <1>2, <1>t, CicdStoreStep DEF v
<1>5. ASSUME NEW t \in CicdWork, worker' = [worker EXCEPT ![w] = t], UNCHANGED validations,
             t = Idle, commits[worker[w].commit] # NoRow => faults' = faults + 1,
             faults' \in Nat, faults' >= faults
      PROVE  CicdInv'
  <2>1. \/ faults' >= 2 \/ validations[v] = NoRow \/ validations[v].status # "passed"
    <3> SUFFICES ASSUME validations[v] # NoRow, validations[v].status = "passed"
                 PROVE  faults' >= 2
      OBVIOUS
    <3>1. faults >= 1 /\ validations[v].commit = worker[w].commit
      BY <1>1, <1>t DEF Fits
    <3>2. commits[worker[w].commit] # NoRow
      BY <3>1, <1>1, <1>t DEF RowsOfCommits
    <3> QED BY <3>1, <3>2, <1>5, <1>t
  <2>2. commits' \in [Commits -> {NoRow, "nothing", "model", "version"}] /\ commits' = commits
        /\ audited' = audited
    BY <1>t DEF CicdTypeOK
  <2> QED BY <1>5, <2>1, <2>2, IdleType, CicdQuietStep DEF v
<1> QED BY <1>1, <1>3, <1>4, <1>5, <1>t, <1>p, CicdStores

LEMMA LogCompletedStep ==
  ASSUME CicdInv, NEW w \in Workers, LogCompleted(w)
  PROVE  CicdInv'
<1>t. /\ CicdTypeOK /\ WorkersFit /\ OwnValidation /\ worker[w].at = "log_completed" /\ faults \in Nat
      /\ UNCHANGED <<commits, validations>>
  BY DEF CicdInv, CicdTypeOK, LogCompleted, At
<1>c. commits' \in [Commits -> {NoRow, "nothing", "model", "version"}] /\ commits' = commits
  BY <1>t DEF CicdTypeOK
<1>p. "log_completed" \in CicdHolding /\ "store_failed" \in CicdPlaces
      /\ "store_failed" \notin CicdUnderway
  BY DEF CicdPlaces, CicdHolding, CicdUnderway
<1>1. CASE audited' = audited \cup {worker[w].id} /\ End(w) /\ UNCHANGED faults
  <2>1. worker' = [worker EXCEPT ![w] = Idle] /\ faults' \in Nat /\ faults' >= faults
        /\ audited \subseteq audited' /\ worker[w].id \in audited'
    BY <1>1, <1>t DEF End
  <2> QED BY <2>1, <1>c, <1>t, IdleType, CicdQuietStep
<1>2. CASE Fails /\ Go(w, "store_failed") /\ UNCHANGED audited
  <2>1. PICK t \in CicdWork : Keeps(t, w) /\ t.at = "store_failed"
    BY <1>2, <1>t, <1>p, CicdGoes
  <2>2. faults' \in Nat /\ faults' >= faults /\ faults' >= 1
    BY <1>2, <1>t DEF Fails
  <2>3. Holds(worker[w]) /\ worker[w].commit \in Commits
    BY <1>t, <1>p DEF WorkersFit, Holds
  <2> QED BY <2>1, <2>2, <2>3, <1>2, <1>c, <1>p, <1>t, CicdGoesOn
<1> QED BY <1>1, <1>2 DEF LogCompleted

LEMMA CicdStepKeepsInv == CicdInv /\ [CicdNext]_cicdVars => CicdInv'
<1> SUFFICES ASSUME CicdInv, [CicdNext]_cicdVars  PROVE CicdInv'
  OBVIOUS
<1>t. CicdTypeOK
  BY DEF CicdInv
<1>c. commits \in [Commits -> {NoRow, "nothing", "model", "version"}] /\ faults \in Nat
  BY <1>t DEF CicdTypeOK
<1>1. CASE UNCHANGED cicdVars
  BY <1>1, <1>c, CicdByHand DEF cicdVars
<1>2. ASSUME NEW p \in Providers, PostProvider(p) \/ DeleteProvider(p)  PROVE CicdInv'
  BY <1>2, <1>c, CicdByHand DEF PostProvider, DeleteProvider, RegisterProvider, RemoveProvider
<1>3. ASSUME NEW c \in Commits, PostLink(c)  PROVE CicdInv'
  <2>1. /\ commits' \in [Commits -> {NoRow, "nothing", "model", "version"}]
        /\ \A k \in Commits : commits[k] # NoRow => commits'[k] # NoRow
    BY <1>3, <1>c, CicdAssumption DEF PostLink, LinkCommitToModel
  <2> QED BY <2>1, <1>3, CicdByHand DEF PostLink, LinkCommitToModel
<1>4. ASSUME NEW w \in Workers, NEW p \in Providers, PostWebhook(w, p)  PROVE CicdInv'
  BY <1>4, CicdBegins DEF PostWebhook, HandleWebhook
<1>5. ASSUME NEW w \in Workers, PostTrigger(w)  PROVE CicdInv'
  BY <1>5, CicdBegins DEF PostTrigger, TriggerPipelineValidation
<1>6. ASSUME NEW w \in Workers, ValidateInPipeline(w)  PROVE CicdInv'
  <2>1. CASE RunPolicyValidation(w) \/ RunSecurityScan(w) \/ RunQualityGates(w)
    <3>1. /\ Checks = {"policyValidation", "securityScan", "qualityGates"}
          /\ {"securityScan", "qualityGates", "store_result"} \subseteq CicdUnderway
      BY DEF Checks, CicdUnderway
    <3> QED BY <2>1, <3>1, RunCheckStep DEF RunPolicyValidation, RunSecurityScan, RunQualityGates
  <2>2. CASE LogError(w)
    <3>1. worker[w].at \notin {"log_completed", "store_failed"} /\ faults' >= faults
      BY <2>2, <1>c DEF LogError, At
    <3> QED BY <2>2, <3>1, <1>c, CicdEnds DEF LogError
  <2> QED BY <1>6, <2>1, <2>2, StartStep, LogStartedStep, StoreResultStep, LogCompletedStep,
             StoreFailedStep DEF ValidateInPipeline
<1> QED BY <1>1, <1>2, <1>3, <1>4, <1>5, <1>6, ProcessStep, TrackStep DEF CicdNext

(* A provider told of success, once the request has ended and while at     *)
(* most one call has failed, is told of a validation that passed every     *)
(* check and whose completion is in the audit log.                         *)
THEOREM SuccessesAreAudited == CicdSpec => []SuccessIsAudited
<1>1. CicdInv => SuccessIsAudited
  <2> SUFFICES ASSUME CicdInv, faults <= 1, NEW v \in GetValidationHistory,
                      GetStatusCheck(v) = "success"
               PROVE  /\ GetRepositoryIntegrationStatus.connected
                      /\ v \in GetRepositoryIntegrationStatus.recentValidations
                      /\ \/ v \in audited /\ validations[v].passed = Checks
                         \/ \E w \in Workers : /\ worker[w].id = v
                                               /\ worker[w].at \in {"log_completed", "store_failed"}
    BY DEF SuccessIsAudited
  <2>1. v \in Validations /\ validations[v] # NoRow /\ validations[v] \in Validation
    BY DEF GetValidationHistory, CicdInv, CicdTypeOK
  <2>2. validations[v].status = "passed"
    BY <2>1 DEF GetStatusCheck, GetPipelineValidation, GenerateStatusCheck, Validation
  <2>3. validations[v].commit \in Commits /\ commits[validations[v].commit] # NoRow
    BY <2>1 DEF CicdInv, RowsOfCommits, Validation
  <2>4. faults \in Nat /\ PassedIsAccounted
    BY DEF CicdInv, CicdTypeOK
  <2>5. GetRepositoryIntegrationStatus.connected
    BY <2>3 DEF GetRepositoryIntegrationStatus
  <2>6. v \in GetRepositoryIntegrationStatus.recentValidations
    BY <2>3 DEF GetRepositoryIntegrationStatus
  <2> QED BY <2>1, <2>2, <2>4, <2>5, <2>6 DEF PassedIsAccounted
<1> QED BY <1>1, CicdInitInv, CicdStepKeepsInv, PTL DEF CicdSpec
=============================================================================
