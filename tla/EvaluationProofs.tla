--------------------------- MODULE EvaluationProofs ---------------------------
(***************************************************************************)
(* What EvaluationEngine keeps whatever the jobs, their priorities, the    *)
(* limit and the moments at which writes, sorts and cancellations arrive:  *)
(* the queue holds exactly the jobs that wait, each once, and the engine   *)
(* runs at most maxConcurrentJobs jobs and one more for each running job   *)
(* that was cancelled.                                                     *)
(***************************************************************************)
EXTENDS EvaluationEngine, SequenceLemmas

LEMMA PrecedesIsStrict ==
  ASSUME NEW known, NEW x \in Int, queue[x] \in Jobs, Priority \in [Jobs -> 0..3]
  PROVE  ~Precedes(known, x, x)
<1>1. Priority[queue[x]] \in Int
  OBVIOUS
<1>2. QED
  BY <1>1 DEF Precedes, Normal

(* A stable sort of a queue without repetitions has the same elements, each *)
(* once: an order of its entries that is strict repeats none of them.       *)
LEMMA SortKeeps ==
  ASSUME queue \in Seq(Jobs), IsInjective(queue), NEW known,
         NEW p \in [DOMAIN queue -> DOMAIN queue],
         Priority \in [Jobs -> 0..3],
         \A i, k \in DOMAIN queue : i < k => Precedes(known, p[i], p[k]),
         queue' = [i \in DOMAIN queue |-> queue[p[i]]]
  PROVE  queue' \in Seq(Jobs) /\ IsInjective(queue') /\ Range(queue') = Range(queue)
<1> DEFINE D == 1..Len(queue)
<1>1. DOMAIN queue = D /\ D \subseteq Int /\ IsFiniteSet(D) /\ Len(queue) \in Nat
  BY FS_Interval
<1>2. queue \in [D -> Jobs] /\ p \in [D -> D] /\ queue' = [i \in D |-> queue[p[i]]]
  BY <1>1
<1>3. \A f \in [D -> Jobs] : f \in Seq(Jobs)
  BY <1>1, FunctionIsSequence
<1> HIDE DEF D
<1>4. ASSUME NEW i \in D, NEW k \in D, i < k PROVE p[i] # p[k]
  <2>1. Precedes(known, p[i], p[k]) /\ p[i] \in Int /\ queue[p[i]] \in Jobs
    BY <1>1, <1>2, <1>4
  <2>2. QED
    BY <2>1, PrecedesIsStrict
<1>5. p \in Injection(D, D)
  <2>1. ASSUME NEW i \in D, NEW k \in D, i # k PROVE p[i] # p[k]
    <3>1. i < k \/ k < i
      BY <1>1, <2>1
    <3>2. QED
      BY <1>4, <3>1
  <2>2. QED
    BY <1>2, <2>1 DEF Injection, IsInjective
<1>6. p \in Surjection(D, D)
  BY <1>1, <1>5, FS_Injection
<1>7. queue' \in [D -> Jobs]
  BY <1>2
<1>8. queue' \in Seq(Jobs) /\ DOMAIN queue' = D
  BY <1>7, <1>3
<1>9. IsInjective(queue')
  <2>1. ASSUME NEW i \in D, NEW k \in D, queue'[i] = queue'[k] PROVE i = k
    <3>1. queue[p[i]] = queue[p[k]] /\ p[i] \in D /\ p[k] \in D
      BY <1>2, <2>1
    <3>2. \A x, y \in D : queue[x] = queue[y] => x = y
      BY <1>1 DEF IsInjective
    <3>3. p[i] = p[k]
      BY <3>1, <3>2
    <3>4. QED
      BY <1>2, <1>5, <3>3 DEF Injection, IsInjective
  <2>2. QED
    BY <1>8, <2>1 DEF IsInjective
<1>10. Range(queue') = Range(queue)
  <2>1. \A k \in D : \E i \in D : p[i] = k
    BY <1>6 DEF Surjection
  <2>2. QED
    BY <1>1, <1>2, <1>8, <2>1 DEF Range
<1>11. QED
  BY <1>8, <1>9, <1>10

------------------------------------------------------------------------------
(* The inductive invariant                                                  *)

Waiting == {j \in Jobs : pc[j] = "queued"}

(* The queue is a sequence without repetitions of the jobs that wait.       *)
QueueHeld ==
  /\ queue \in Seq(Jobs)
  /\ IsInjective(queue)
  /\ Range(queue) = Waiting

(* The counter is what the engine knows to be running, less the places that *)
(* were given back twice: once by the cancel, once by the finally block.    *)
Started == {j \in Jobs : pc[j] = "ended"} \cup Executing
PlacesHeld ==
  /\ controllers = Executing \ aborted
  /\ aborted \subseteq Started
  /\ counter = Cardinality(Executing \ aborted) - Cardinality(aborted \ Executing)
  /\ counter <= MaxConcurrent

EngineInv == TypeOK /\ QueueHeld /\ PlacesHeld

(* the jobs that execute, and those that have, when pc is at                *)
ExecutingAt(at) == {j \in Jobs : at[j] \in {"start", "test", "complete", "record",
                                            "fail", "finish"}}
EndedAt(at) == {j \in Jobs : at[j] = "ended"}

(* processQueue starts a set S of waiting jobs, at most as many as there    *)
(* are places, and takes exactly these from the queue.                      *)
LEMMA QueueIsProcessed ==
  ASSUME NEW q \in Seq(Jobs), NEW busy \in Int, NEW at \in [Jobs -> PC],
         EngineAssumption, IsInjective(q), busy <= MaxConcurrent,
         ProcessQueue(q, busy, at)
  PROVE  \E S \in SUBSET Jobs :
           /\ S \subseteq Range(q) /\ IsFiniteSet(S)
           /\ counter' = busy + Cardinality(S) /\ counter' \in Int /\ counter' <= MaxConcurrent
           /\ controllers' = (controllers \cup S) \ {j \in Jobs : at[j] = "ended"}
           /\ pc' = [j \in Jobs |-> IF j \in S THEN "start" ELSE at[j]]
           /\ queue' \in Seq(Jobs) /\ IsInjective(queue') /\ Range(queue') = Range(q) \ S
<1> DEFINE free == MaxConcurrent - busy
           n == IF free <= 0 THEN 0 ELSE IF free < Len(q) THEN free ELSE Len(q)
           S == {q[i] : i \in 1..n}
<1>1. n \in 0..Len(q) /\ busy + n <= MaxConcurrent /\ MaxConcurrent \in Int
  BY DEF EngineAssumption
<1>2. /\ queue' = SubSeq(q, n + 1, Len(q))
      /\ counter' = busy + n
      /\ controllers' = (controllers \cup S) \ {j \in Jobs : at[j] = "ended"}
      /\ pc' = [j \in Jobs |-> IF j \in S THEN "start" ELSE at[j]]
  BY DEF ProcessQueue
<1> HIDE DEF n
<1>3. IsFiniteSet(S) /\ Cardinality(S) = n
  BY <1>1, PrefixCardinality
<1>4. S \subseteq Range(q) /\ S \subseteq Jobs
  BY <1>1 DEF Range
<1>5. /\ queue' \in Seq(Jobs) /\ Len(queue') = Len(q) - n
      /\ \A i \in 1..(Len(q) - n) : queue'[i] = q[i + n]
  BY <1>1, <1>2, SubSeqProperties
<1>6. \A x, y \in 1..Len(q) : q[x] = q[y] => x = y
  BY DEF IsInjective
<1>7. IsInjective(queue')
  BY <1>1, <1>5, <1>6 DEF IsInjective
<1>8. Range(queue') = Range(q) \ S
  <2>1. ASSUME NEW e \in Range(q), e \notin S PROVE e \in Range(queue')
    <3>1. PICK x \in 1..Len(q) : q[x] = e
      BY DEF Range
    <3>2. x - n \in 1..(Len(q) - n)
      BY <1>1, <2>1, <3>1
    <3>3. queue'[x - n] = e
      BY <1>1, <1>5, <3>1, <3>2
    <3>4. QED
      BY <1>5, <3>2, <3>3 DEF Range
  <2>2. ASSUME NEW e \in Range(queue') PROVE e \in Range(q) \ S
    <3>1. PICK x \in 1..(Len(q) - n) : queue'[x] = e
      BY <1>5 DEF Range
    <3>2. e = q[x + n] /\ x + n \in 1..Len(q)
      BY <1>1, <1>5, <3>1
    <3>3. e \notin S
      BY <1>1, <1>6, <3>1, <3>2
    <3>4. QED
      BY <3>2, <3>3 DEF Range
  <2>3. QED
    BY <2>1, <2>2
<1>9. counter' = busy + Cardinality(S) /\ counter' \in Int /\ counter' <= MaxConcurrent
  BY <1>1, <1>2, <1>3
<1> HIDE DEF S
<1>10. QED
  BY <1>2, <1>3, <1>4, <1>5, <1>7, <1>8, <1>9

(* Places are counted right after the queue is processed, if they were when *)
(* the jobs stood at at and busy of them were counted.                      *)
LEMMA PlacesAfterQueue ==
  ASSUME EngineAssumption, NEW q \in Seq(Jobs), NEW busy \in Int, NEW at \in [Jobs -> PC],
         IsInjective(q), Range(q) = {j \in Jobs : at[j] = "queued"},
         aborted \subseteq Jobs, aborted' = aborted,
         controllers \ EndedAt(at) = ExecutingAt(at) \ aborted,
         aborted \subseteq ExecutingAt(at) \cup EndedAt(at),
         busy = Cardinality(ExecutingAt(at) \ aborted) - Cardinality(aborted \ ExecutingAt(at)),
         busy <= MaxConcurrent,
         ProcessQueue(q, busy, at)
  PROVE  /\ QueueHeld' /\ PlacesHeld'
         /\ pc' \in [Jobs -> PC] /\ controllers' \subseteq Jobs /\ counter' \in Int
<1> DEFINE E == ExecutingAt(at)
<1>1. PICK S \in SUBSET Jobs :
        /\ S \subseteq Range(q) /\ IsFiniteSet(S)
        /\ counter' = busy + Cardinality(S) /\ counter' \in Int /\ counter' <= MaxConcurrent
        /\ controllers' = (controllers \cup S) \ {j \in Jobs : at[j] = "ended"}
        /\ pc' = [j \in Jobs |-> IF j \in S THEN "start" ELSE at[j]]
        /\ queue' \in Seq(Jobs) /\ IsInjective(queue') /\ Range(queue') = Range(q) \ S
  BY QueueIsProcessed
<1>2. pc' \in [Jobs -> PC]
  BY <1>1 DEF PC
<1>3. S \cap E = {} /\ S \cap EndedAt(at) = {} /\ S \cap aborted = {}
  BY <1>1 DEF ExecutingAt, EndedAt
<1>4. Executing' = E \cup S /\ EndedAt(pc') = EndedAt(at)
  BY <1>1, <1>3 DEF Executing, ExecutingAt, EndedAt
<1>5. Waiting' = Range(q) \ S
  BY <1>1 DEF Waiting
<1>6. controllers' = Executing' \ aborted'
  BY <1>1, <1>3, <1>4 DEF EndedAt
<1>7. aborted' \subseteq Started'
  BY <1>4 DEF Started, EndedAt
<1>8. /\ Executing' \ aborted' = (E \ aborted) \cup S
      /\ (E \ aborted) \cap S = {}
      /\ aborted' \ Executing' = aborted \ E
  BY <1>3, <1>4
<1>9. IsFiniteSet(Jobs) /\ E \subseteq Jobs
  BY DEF EngineAssumption, ExecutingAt
<1>10. IsFiniteSet(E \ aborted) /\ IsFiniteSet(aborted \ E)
  BY <1>9, FS_Subset
<1>11. /\ Cardinality(Executing' \ aborted') = Cardinality(E \ aborted) + Cardinality(S)
       /\ Cardinality(aborted' \ Executing') = Cardinality(aborted \ E)
  <2>1. ASSUME NEW U, U = (E \ aborted) \cup S
        PROVE  Cardinality(U) = Cardinality(E \ aborted) + Cardinality(S)
    BY <1>1, <1>8, <1>10, <2>1, CardinalityOfUnion
  <2>2. QED
    BY <1>8, <2>1, Zenon
<1>12. /\ Cardinality(E \ aborted) \in Nat /\ Cardinality(aborted \ E) \in Nat
       /\ Cardinality(S) \in Nat
  BY <1>1, <1>10, FS_CardinalityType
<1>13. counter' = Cardinality(Executing' \ aborted') - Cardinality(aborted' \ Executing')
  BY <1>1, <1>11, <1>12
<1>14. PlacesHeld'
  BY <1>1, <1>6, <1>7, <1>13 DEF PlacesHeld
<1>15. QueueHeld'
  BY <1>1, <1>5 DEF QueueHeld
<1>16. controllers' \subseteq Jobs
  BY <1>4, <1>6, <1>9
<1>17. QED
  BY <1>1, <1>2, <1>14, <1>15, <1>16

(* A step that moves no job into or out of the queue, the executions or the *)
(* ended ones, and leaves the engine alone.                                 *)
LEMMA EngineUntouched ==
  ASSUME QueueHeld, PlacesHeld, UNCHANGED <<queue, engineVars>>,
         Waiting' = Waiting, Executing' = Executing, Started' = Started
  PROVE  QueueHeld' /\ PlacesHeld'
BY DEF QueueHeld, PlacesHeld, engineVars

LEMMA InitHolds ==
  ASSUME EngineAssumption, Init PROVE EngineInv
<1>1. Executing = {} /\ Waiting = {} /\ Range(queue) = {} /\ queue \in Seq(Jobs)
  BY DEF Init, Executing, Waiting, Range
<1>2. Cardinality({}) = 0 /\ {} \ {} = {}
  BY FS_EmptySet
<1>3. TypeOK
  BY <1>1 DEF Init, TypeOK, PC, Status, EngineAssumption
<1>4. IsInjective(queue)
  BY DEF Init, IsInjective
<1>5. QueueHeld
  BY <1>1, <1>4 DEF QueueHeld
<1>6. PlacesHeld
  BY <1>1, <1>2 DEF Init, PlacesHeld, EngineAssumption
<1>7. QED
  BY <1>3, <1>5, <1>6 DEF EngineInv

(* Creating a row and moving on inside executeJob.                          *)
LEMMA MoveHolds ==
  ASSUME EngineAssumption, EngineInv, NEW j \in Jobs, NEW at \in PC, Goto(j, at),
         \/ pc[j] = "none" /\ at = "inserted"
         \/ j \in Executing /\ at \in {"test", "complete", "record", "fail", "finish"},
         row' \in [Jobs -> Status \cup {"absent"}], testsLeft' \in [Jobs -> 1..Tests],
         UNCHANGED <<queue, engineVars, queuing, cancelling, cancels, sorts>>
  PROVE  EngineInv'
<1>1. pc \in [Jobs -> PC] /\ pc' = [pc EXCEPT ![j] = at]
  BY DEF EngineInv, TypeOK, Goto
<1>2. pc' \in [Jobs -> PC]
  BY <1>1
<1>3. Waiting' = Waiting /\ Executing' = Executing /\ Started' = Started
  BY <1>1 DEF Waiting, Executing, Started
<1>4. TypeOK'
  BY <1>2 DEF EngineInv, TypeOK, engineVars
<1>5. QED
  BY <1>3, <1>4, EngineUntouched DEF EngineInv

LEMMA CreateHolds ==
  ASSUME EngineAssumption, EngineInv, NEW j \in Jobs, Create(j) PROVE EngineInv'
<1>1. row' \in [Jobs -> Status \cup {"absent"}] /\ "inserted" \in PC
  BY DEF EngineInv, TypeOK, Create, Write, Status, PC
<1>2. QED
  BY <1>1, MoveHolds DEF Create, EngineInv, TypeOK

LEMMA DownHolds ==
  ASSUME EngineAssumption, EngineInv, ProcessDown PROVE EngineInv'
<1>1. pc' = [j \in Jobs |-> IF pc[j] \in {"none", "ended"} THEN pc[j] ELSE "lost"]
      /\ pc \in [Jobs -> PC]
  BY DEF ProcessDown, EngineInv, TypeOK
<1>2. Executing' = {} /\ Waiting' = {} /\ Range(queue') = {} /\ queue' \in Seq(Jobs)
  BY <1>1 DEF ProcessDown, Executing, Waiting, Range
<1>3. Cardinality({}) = 0 /\ {} \ {} = {}
  BY FS_EmptySet
<1>4. pc' \in [Jobs -> PC]
  BY <1>1 DEF PC
<1>5. TypeOK'
  BY <1>2, <1>4 DEF ProcessDown, EngineInv, TypeOK
<1>6. IsInjective(queue')
  BY DEF ProcessDown, IsInjective
<1>7. QueueHeld'
  BY <1>2, <1>6 DEF QueueHeld
<1>8. PlacesHeld'
  BY <1>2, <1>3 DEF ProcessDown, PlacesHeld, EngineAssumption
<1>9. QED
  BY <1>5, <1>7, <1>8 DEF EngineInv

LEMMA QueueJobHolds ==
  ASSUME EngineAssumption, EngineInv, NEW j \in Jobs, QueueJob(j) PROVE EngineInv'
<1> DEFINE q == Append(queue, j)
           at == [pc EXCEPT ![j] = "queued"]
<1>1. queue \in Seq(Jobs) /\ IsInjective(queue) /\ Range(queue) = Waiting
      /\ pc \in [Jobs -> PC] /\ aborted \subseteq Jobs /\ counter \in Int
  BY DEF EngineInv, QueueHeld, TypeOK
<1>2. pc[j] = "inserted" /\ ProcessQueue(q, counter, at) /\ aborted' = aborted
  BY DEF QueueJob
<1>3. at \in [Jobs -> PC]
  BY <1>1 DEF PC
<1>4. j \notin Range(queue)
  BY <1>1, <1>2 DEF Waiting
<1>5. q \in Seq(Jobs) /\ IsInjective(q) /\ Range(q) = Range(queue) \cup {j}
  BY <1>1, <1>4, AppendPutsIn
<1> HIDE DEF q
<1>6. Range(q) = {i \in Jobs : at[i] = "queued"}
  BY <1>1, <1>5 DEF Waiting
<1>7. ExecutingAt(at) = Executing /\ EndedAt(at) \cup ExecutingAt(at) = Started
      /\ EndedAt(at) \cap Executing = {}
  BY <1>1, <1>2 DEF ExecutingAt, Executing, EndedAt, Started
<1> HIDE DEF at
<1>8. QueueHeld' /\ PlacesHeld'
       /\ pc' \in [Jobs -> PC] /\ controllers' \subseteq Jobs /\ counter' \in Int
  BY <1>1, <1>2, <1>3, <1>5, <1>6, <1>7, PlacesAfterQueue DEF EngineInv, PlacesHeld
<1>9. sorts' \subseteq SUBSET Jobs
  BY <1>1, <1>5 DEF QueueJob, q, EngineInv, TypeOK, Waiting
<1>10. Range(queue') \subseteq Jobs
  BY <1>8 DEF QueueHeld, Waiting
<1>11. TypeOK'
  BY <1>8, <1>9, <1>10 DEF QueueJob, EngineInv, TypeOK
<1>12. QED
  BY <1>8, <1>11 DEF EngineInv

LEMMA PollHolds ==
  ASSUME EngineAssumption, EngineInv, Poll PROVE EngineInv'
<1>1. queue \in Seq(Jobs) /\ IsInjective(queue) /\ Range(queue) = Waiting
      /\ pc \in [Jobs -> PC] /\ aborted \subseteq Jobs /\ counter \in Int
  BY DEF EngineInv, QueueHeld, TypeOK
<1>2. ExecutingAt(pc) = Executing /\ EndedAt(pc) \cup ExecutingAt(pc) = Started
      /\ EndedAt(pc) \cap Executing = {}
  BY <1>1 DEF ExecutingAt, Executing, EndedAt, Started
<1>3. QueueHeld' /\ PlacesHeld'
      /\ pc' \in [Jobs -> PC] /\ controllers' \subseteq Jobs /\ counter' \in Int
  BY <1>1, <1>2, PlacesAfterQueue DEF Poll, EngineInv, PlacesHeld, Waiting
<1>4. Range(queue') \subseteq Jobs
  BY <1>3 DEF QueueHeld, Waiting
<1>5. TypeOK'
  BY <1>3, <1>4 DEF Poll, EngineInv, TypeOK
<1>6. QED
  BY <1>3, <1>5 DEF EngineInv

LEMMA SortHolds ==
  ASSUME EngineAssumption, EngineInv, NEW known \in sorts, SortLands(known) PROVE EngineInv'
<1>1. queue' \in Seq(Jobs) /\ IsInjective(queue') /\ Range(queue') = Range(queue)
  BY SortKeeps DEF SortLands, EngineInv, QueueHeld, EngineAssumption
<1>2. TypeOK'
  BY <1>1 DEF SortLands, EngineInv, TypeOK, engineVars
<1>3. Waiting' = Waiting /\ Executing' = Executing /\ Started' = Started
  BY DEF SortLands, Waiting, Executing, Started
<1>4. QED
  BY <1>1, <1>2, <1>3 DEF SortLands, EngineInv, QueueHeld, PlacesHeld, engineVars

LEMMA QueuedHolds ==
  ASSUME EngineAssumption, EngineInv, NEW j \in Jobs, QueuedLands(j) PROVE EngineInv'
<1>1. CASE ProcessDown
  BY <1>1, DownHolds
<1>2. CASE ~ProcessDown
  <2>1. Write(j, "queued") /\ queuing' = queuing \ {j}
        /\ UNCHANGED <<pc, testsLeft, queue, engineVars, cancelling, cancels, sorts>>
    BY <1>2 DEF QueuedLands
  <2>2. TypeOK'
    BY <2>1 DEF EngineInv, TypeOK, engineVars, Write, Status
  <2>3. Waiting' = Waiting /\ Executing' = Executing /\ Started' = Started
    BY <2>1 DEF Waiting, Executing, Started
  <2>4. QED
    BY <2>1, <2>2, <2>3, EngineUntouched DEF EngineInv
<1>3. QED
  BY <1>1, <1>2

LEMMA CancelLandsHolds ==
  ASSUME EngineAssumption, EngineInv, NEW j \in Jobs, CancelLands(j) PROVE EngineInv'
<1>1. row' \in [Jobs -> Status \cup {"absent"}]
  BY DEF CancelLands, EngineInv, TypeOK, Write, Status
<1>2. TypeOK'
  BY <1>1 DEF CancelLands, EngineInv, TypeOK, engineVars
<1>3. Waiting' = Waiting /\ Executing' = Executing /\ Started' = Started
  BY DEF CancelLands, Waiting, Executing, Started
<1>4. QED
  BY <1>2, <1>3, EngineUntouched DEF CancelLands, EngineInv

LEMMA FinishHolds ==
  ASSUME EngineAssumption, EngineInv, NEW j \in Jobs, Finish(j) PROVE EngineInv'
<1> DEFINE at == [pc EXCEPT ![j] = "ended"]
           E == Executing \ {j}
<1>1. queue \in Seq(Jobs) /\ IsInjective(queue) /\ Range(queue) = Waiting
      /\ pc \in [Jobs -> PC] /\ aborted \subseteq Jobs /\ counter \in Int
  BY DEF EngineInv, QueueHeld, TypeOK
<1>2. pc[j] = "finish" /\ ProcessQueue(queue, counter - 1, at) /\ aborted' = aborted
  BY DEF Finish
<1>3. at \in [Jobs -> PC]
  BY <1>1 DEF PC
<1>4. Range(queue) = {i \in Jobs : at[i] = "queued"}
  BY <1>1, <1>2 DEF Waiting
<1>5. ExecutingAt(at) = E /\ EndedAt(at) \cup E = Started /\ j \in Executing
      /\ EndedAt(at) \cap E = {} /\ j \in EndedAt(at)
  BY <1>1, <1>2 DEF ExecutingAt, Executing, EndedAt, Started
<1>6. EndedAt(at) \cap Executing = {j}
  BY <1>1, <1>2 DEF Executing, EndedAt
<1> HIDE DEF at
<1>7. controllers \ EndedAt(at) = E \ aborted
  BY <1>5, <1>6 DEF EngineInv, PlacesHeld
<1>8. IsFiniteSet(Executing \ aborted) /\ IsFiniteSet(aborted \ Executing)
  BY <1>1, FS_Subset DEF EngineAssumption, Executing
<1>9. /\ Cardinality(Executing \ aborted) \in Nat /\ Cardinality(aborted \ Executing) \in Nat
      /\ counter = Cardinality(Executing \ aborted) - Cardinality(aborted \ Executing)
      /\ counter <= MaxConcurrent /\ MaxConcurrent \in Nat
  BY <1>8, FS_CardinalityType DEF EngineInv, PlacesHeld, EngineAssumption
<1>10. counter - 1 = Cardinality(E \ aborted) - Cardinality(aborted \ E)
  <2>1. CASE j \in aborted
    <3>1. E \ aborted = Executing \ aborted /\ aborted \ E = (aborted \ Executing) \cup {j}
          /\ j \notin aborted \ Executing
      BY <1>5, <2>1
    <3>2. Cardinality(aborted \ E) = Cardinality(aborted \ Executing) + 1
      BY <1>8, <3>1, CardinalityWithout, FS_AddElement
    <3>3. Cardinality(E \ aborted) = Cardinality(Executing \ aborted)
      BY <3>1, Zenon
    <3>4. QED
      BY <1>9, <3>2, <3>3
  <2>2. CASE j \notin aborted
    <3>1. E \ aborted = (Executing \ aborted) \ {j} /\ aborted \ E = aborted \ Executing
          /\ j \in Executing \ aborted
      BY <1>5, <2>2
    <3>2. Cardinality(E \ aborted) = Cardinality(Executing \ aborted) - 1
      BY <1>8, <3>1, CardinalityWithout
    <3>3. Cardinality(aborted \ E) = Cardinality(aborted \ Executing)
      BY <3>1, Zenon
    <3>4. QED
      BY <1>9, <3>2, <3>3
  <2>3. QED
    BY <2>1, <2>2
<1>11. counter - 1 <= MaxConcurrent /\ counter - 1 \in Int
  BY <1>1, <1>9
<1>12. aborted \subseteq ExecutingAt(at) \cup EndedAt(at)
  BY <1>5 DEF EngineInv, PlacesHeld
<1> HIDE DEF E
<1>13. QueueHeld' /\ PlacesHeld'
       /\ pc' \in [Jobs -> PC] /\ controllers' \subseteq Jobs /\ counter' \in Int
  BY <1>1, <1>2, <1>3, <1>4, <1>5, <1>7, <1>10, <1>11, <1>12, PlacesAfterQueue
<1>14. Range(queue') \subseteq Jobs
  BY <1>13 DEF QueueHeld, Waiting
<1>15. TypeOK'
  BY <1>13, <1>14 DEF Finish, EngineInv, TypeOK
<1>16. QED
  BY <1>13, <1>15 DEF EngineInv

LEMMA CancelRequestHolds ==
  ASSUME EngineAssumption, EngineInv, NEW j \in Jobs, CancelRequest(j) PROVE EngineInv'
<1>1. queue \in Seq(Jobs) /\ IsInjective(queue) /\ Range(queue) = Waiting
      /\ pc \in [Jobs -> PC] /\ aborted \subseteq Jobs /\ counter \in Int
      /\ controllers = Executing \ aborted
  BY DEF EngineInv, QueueHeld, TypeOK, PlacesHeld
<1>2. queue' \in Seq(Jobs) /\ IsInjective(queue') /\ Range(queue') = Range(queue) \ {j}
  BY <1>1, RemoveFirstTakesOut DEF CancelRequest
<1>3. pc' = IF pc[j] = "queued" THEN [pc EXCEPT ![j] = "dequeued"] ELSE pc
  BY <1>1 DEF CancelRequest, Waiting
<1>4. pc' \in [Jobs -> PC]
  BY <1>1, <1>3 DEF PC
<1>5. Executing' = Executing /\ Started' = Started /\ Waiting' = Waiting \ {j}
  BY <1>1, <1>3 DEF Executing, Started, Waiting
<1>6. QueueHeld'
  BY <1>1, <1>2, <1>5 DEF QueueHeld
<1>7. IsFiniteSet(Executing \ aborted) /\ IsFiniteSet(aborted \ Executing)
  BY <1>1, FS_Subset DEF EngineAssumption, Executing
<1>8. /\ Cardinality(Executing \ aborted) \in Nat /\ Cardinality(aborted \ Executing) \in Nat
      /\ counter = Cardinality(Executing \ aborted) - Cardinality(aborted \ Executing)
      /\ counter <= MaxConcurrent /\ MaxConcurrent \in Nat /\ aborted \subseteq Started
  BY <1>7, FS_CardinalityType DEF EngineInv, PlacesHeld, EngineAssumption
<1>9. PlacesHeld' /\ counter' \in Int /\ aborted' \subseteq Jobs /\ controllers' \subseteq Jobs
  <2>1. CASE j \in controllers
    <3>1. aborted' = aborted \cup {j} /\ controllers' = controllers \ {j}
          /\ counter' = counter - 1
      BY <2>1 DEF CancelRequest
    <3>2. /\ Executing' \ aborted' = (Executing \ aborted) \ {j} /\ j \in Executing \ aborted
          /\ aborted' \ Executing' = aborted \ Executing
      BY <1>1, <1>5, <2>1, <3>1
    <3>3. Cardinality(Executing' \ aborted') = Cardinality(Executing \ aborted) - 1
      BY <1>7, <3>2, CardinalityWithout
    <3>4. Cardinality(aborted' \ Executing') = Cardinality(aborted \ Executing)
      BY <3>2, Zenon
    <3>5. counter' = Cardinality(Executing' \ aborted') - Cardinality(aborted' \ Executing')
          /\ counter' <= MaxConcurrent /\ counter' \in Int
      BY <1>8, <3>1, <3>3, <3>4
    <3>6. controllers' = Executing' \ aborted' /\ aborted' \subseteq Started'
      BY <1>1, <1>5, <1>8, <3>1, <3>2 DEF Started
    <3>7. QED
      BY <1>1, <3>1, <3>5, <3>6 DEF PlacesHeld, Executing
  <2>2. CASE j \notin controllers
    <3>1. UNCHANGED engineVars
      BY <2>2 DEF CancelRequest
    <3>2. QED
      BY <1>1, <1>5, <1>8, <3>1 DEF PlacesHeld, engineVars, Executing
  <2>3. QED
    BY <2>1, <2>2
<1>10. Range(queue') \subseteq Jobs
  BY <1>6 DEF QueueHeld, Waiting
<1>11. TypeOK'
  BY <1>4, <1>9, <1>10 DEF CancelRequest, EngineInv, TypeOK
<1>12. QED
  BY <1>6, <1>9, <1>11 DEF EngineInv

LEMMA ExecuteHolds ==
  ASSUME EngineAssumption, EngineInv, NEW j \in Jobs, ExecuteJob(j) PROVE EngineInv'
<1>1. /\ row \in [Jobs -> Status \cup {"absent"}] /\ testsLeft \in [Jobs -> 1..Tests]
      /\ \A s \in Status : Write(j, s) => row' \in [Jobs -> Status \cup {"absent"}]
  BY DEF EngineInv, TypeOK, Write
<1>2. {"test", "complete", "record", "fail", "finish"} \subseteq PC
      /\ (pc[j] \in {"start", "test", "complete", "record", "fail", "finish"} => j \in Executing)
      /\ {"running", "completed", "failed"} \subseteq Status
  BY DEF PC, Status, Executing
<1>3. CASE RunningLands(j)
  BY <1>1, <1>2, <1>3, MoveHolds DEF RunningLands
<1>4. CASE TestEnds(j)
  <2>1. testsLeft' \in [Jobs -> 1..Tests]
    BY <1>1, <1>4 DEF TestEnds, EngineAssumption
  <2>2. QED
    BY <1>1, <1>2, <1>4, <2>1, MoveHolds DEF TestEnds
<1>5. CASE LastTestEnds(j)
  BY <1>1, <1>2, <1>5, MoveHolds DEF LastTestEnds
<1>6. CASE CompletedLands(j)
  BY <1>1, <1>2, <1>6, MoveHolds DEF CompletedLands
<1>7. CASE Record(j)
  BY <1>1, <1>2, <1>7, MoveHolds DEF Record
<1>8. CASE FailedLands(j)
  <2>1. CASE ProcessDown
    BY <2>1, DownHolds
  <2>2. CASE ~ProcessDown
    BY <1>1, <1>2, <1>8, <2>2, MoveHolds DEF FailedLands
  <2>3. QED
    BY <2>1, <2>2
<1>9. CASE Finish(j)
  BY <1>9, FinishHolds
<1>10. QED
  BY <1>3, <1>4, <1>5, <1>6, <1>7, <1>8, <1>9 DEF ExecuteJob

LEMMA StepHolds ==
  ASSUME EngineAssumption, EngineInv, [Next]_vars PROVE EngineInv'
<1>1. ASSUME NEW j \in Jobs,
             \/ Create(j) \/ QueueJob(j) \/ QueuedLands(j) \/ ExecuteJob(j)
             \/ CancelRequest(j) \/ CancelLands(j)
      PROVE  EngineInv'
  BY <1>1, CreateHolds, QueueJobHolds, QueuedHolds, ExecuteHolds, CancelRequestHolds,
     CancelLandsHolds
<1>2. CASE Poll
  BY <1>2, PollHolds
<1>3. CASE \E known \in sorts : SortLands(known)
  BY <1>3, SortHolds
<1>4. CASE UNCHANGED vars
  <2>1. Waiting' = Waiting /\ Executing' = Executing /\ Started' = Started
    BY <1>4 DEF vars, Waiting, Executing, Started
  <2>2. TypeOK'
    BY <1>4 DEF vars, engineVars, EngineInv, TypeOK
  <2>3. QED
    BY <1>4, <2>1, <2>2, EngineUntouched DEF EngineInv, vars
<1>5. QED
  BY <1>1, <1>2, <1>3, <1>4 DEF Next

------------------------------------------------------------------------------
(* The theorems                                                             *)

(* The invariant holds in every state the engine reaches.                   *)
THEOREM EngineHolds == Spec => []EngineInv
<1>1. Init => EngineInv
  BY EngineAssumption, InitHolds
<1>2. EngineInv /\ [Next]_vars => EngineInv'
  BY EngineAssumption, StepHolds
<1>3. QED
  BY <1>1, <1>2, PTL DEF Spec

(* Type correctness, for any jobs, priorities and limit.                    *)
THEOREM TypeCorrect == Spec => []TypeOK
<1>1. EngineInv => TypeOK
  BY DEF EngineInv
<1>2. QED
  BY <1>1, EngineHolds, PTL

(* Whatever order sorts, removals and starts come in, the queue holds       *)
(* exactly the jobs that wait, each once.                                   *)
THEOREM QueueHolds == Spec => []QueueIsExact
<1>1. EngineInv => QueueIsExact
  <2> SUFFICES ASSUME EngineInv PROVE QueueIsExact
    OBVIOUS
  <2>1. queue \in Seq(Jobs) /\ IsInjective(queue) /\ Range(queue) = Waiting
    BY DEF EngineInv, QueueHeld
  <2>2. Range(queue) = {queue[i] : i \in 1..Len(queue)} /\ Len(queue) \in 0..Len(queue)
    BY <2>1 DEF Range
  <2>3. Cardinality(Range(queue)) = Len(queue)
    BY <2>1, <2>2, PrefixCardinality
  <2>4. QED
    BY <2>1, <2>3 DEF QueueIsExact, Waiting
<1>2. QED
  BY <1>1, EngineHolds, PTL

(* The engine runs at most maxConcurrentJobs jobs, and one more for each    *)
(* running job that was cancelled, for any limit and any number of cancels. *)
THEOREM LimitErodesByCancels == Spec => []LimitErosion
<1>1. EngineInv => LimitErosion
  <2> SUFFICES ASSUME EngineInv PROVE LimitErosion
    OBVIOUS
  <2> DEFINE A == Executing \ aborted
             B == aborted \cap Executing
             C == aborted \ Executing
  <2>1. counter = Cardinality(A) - Cardinality(C) /\ counter <= MaxConcurrent
        /\ aborted \subseteq Jobs /\ IsFiniteSet(Jobs) /\ MaxConcurrent \in Nat
        /\ Executing \subseteq Jobs
    BY EngineAssumption DEF EngineInv, PlacesHeld, TypeOK, EngineAssumption, Executing
  <2>2. IsFiniteSet(A) /\ IsFiniteSet(B) /\ IsFiniteSet(C)
    BY <2>1, FS_Subset
  <2>3. Executing = A \cup B /\ A \cap B = {} /\ aborted = B \cup C /\ B \cap C = {}
    OBVIOUS
  <2>4. Cardinality(A) \in Nat /\ Cardinality(B) \in Nat /\ Cardinality(C) \in Nat
    BY <2>2, FS_CardinalityType
  <2> HIDE DEF A, B, C
  <2>5. Cardinality(Executing) = Cardinality(A) + Cardinality(B)
        /\ Cardinality(aborted) = Cardinality(B) + Cardinality(C)
    BY <2>2, <2>3, CardinalityOfUnion
  <2>6. QED
    BY <2>1, <2>4, <2>5 DEF LimitErosion
<1>2. QED
  BY <1>1, EngineHolds, PTL
=============================================================================
