--------------------------- MODULE GovernanceProofs ---------------------------
(***************************************************************************)
(* Proofs about Governance for any versions, policies, requests, dry runs  *)
(* and failures.  GateStopsViolations rests on GateInv: at every statement *)
(* of an undisturbed promotion check, what it found so far is recorded on  *)
(* its own rows, which are the latest and end completed.  Alone says why:  *)
(* two requests under way have disturbed each other.  RowsSettle rests on  *)
(* SettleInv: a row that is not completed belongs to a policy some request *)
(* under way still owes.  ViolationsStick rests on HangInv, a result hangs *)
(* on a row that was inserted, and StickInv, an undisturbed check leaves   *)
(* every row of the policies it is done with completed.                    *)
(***************************************************************************)
EXTENDS Governance, TLAPS

OwnRow(r, p) == newest[p] = r /\ row[r][p] # "absent"

Recorded(r, p) == violation[r][p] /\ row[r][p] = "completed"

(* Two requests that are under way have disturbed each other. *)
Alone ==
  \A r, q \in Requests : r # q /\ r \in Running /\ q \in Running => r \in disturbed

(* What holds at each statement of a promotion check. *)
GateAt(r) ==
  /\ pc[r] # "done" => decision[r] = "none"
  /\ pc[r] \in {"idle", "insert"} => found[r] = {}
  /\ pc[r] = "insert" => \A p \in policies[r] \ todo[r] : OwnRow(r, p)
  /\ pc[r] \in {"start", "judge", "locate", "store", "finish"} =>
       /\ \A p \in policies[r] : OwnRow(r, p)
       /\ \A p \in found[r] \ todo[r] : Recorded(r, p)
       /\ \A p \in found[r] \cap todo[r] : p = First(todo[r])
  /\ pc[r] \in {"start", "judge"} => found[r] \cap todo[r] = {}
  /\ pc[r] = "store" => target[r] = r
  /\ pc[r] = "finish" => \A p \in found[r] \cap todo[r] : violation[r][p]
  /\ pc[r] \in {"exceptions", "violations"} => \A p \in found[r] : Recorded(r, p)
  /\ decision[r] = "allowed" => found[r] \subseteq excepted[r]

GateInv == \A r \in Gates : Undisturbed(r) => GateAt(r)

(* The policies whose rows a request has yet to complete.                  *)
Owed(r) == IF pc[r] = "insert" THEN policies[r]
           ELSE IF pc[r] \in InLoop THEN todo[r] ELSE {}

SettleInv ==
  erred = {} =>
    \A q \in Requests, p \in Policies :
      row[q][p] \in {"absent", "completed"} \/ \E r \in Requests : p \in Owed(r)

HangInv ==
  /\ \A p \in Policies : newest[p] # None => row[newest[p]][p] # "absent"
  /\ \A r \in Requests :
       pc[r] = "store" /\ target[r] # None => row[target[r]][First(todo[r])] # "absent"
  /\ \A q \in Requests, p \in Policies : violation[q][p] => row[q][p] # "absent"

Settled(p) == \A q \in Requests : row[q][p] \in {"absent", "completed"}
StickAt(r) ==
  /\ pc[r] \in InLoop \ {"insert"} => \A p \in policies[r] \ todo[r] : Settled(p)
  /\ pc[r] \in {"exceptions", "violations"} => \A p \in policies[r] : Settled(p)
StickInv == \A r \in Gates : Undisturbed(r) => StickAt(r)

TablesInv == SettleInv /\ HangInv /\ StickInv

(* The states a version has reached since it was last sent back. *)
Before(s) ==
  CASE s = "approved_staging" -> {"submitted", "approved_staging"}
    [] s = "staging" -> {"submitted", "approved_staging", "staging"}
    [] s \in {"approved_prod", "production"} -> Review
    [] s = "submitted" -> {"submitted"}
    [] OTHER -> {}

ReviewInv == \A v \in Versions : Before(state[v]) \subseteq reached[v]

Inv == TypeOK /\ Alone /\ GateInv /\ ReviewInv

------------------------------------------------------------------------------
(* The loops take a member of what is left. *)
LEMMA FirstIsMember == ASSUME NEW S, S # {} PROVE First(S) \in S
  BY DEF First

RowStatus == {"absent", "pending", "running", "completed", "failed"}

(* updateEvaluationStatus writes the rows of one policy and no other.      *)
LEMMA StatusWritten ==
  ASSUME EngineType, NEW p \in Policies, NEW status \in RowStatus
  PROVE  /\ WithStatus(p, status) \in [Requests -> [Policies -> RowStatus]]
         /\ \A r \in Requests, q \in Policies :
              WithStatus(p, status)[r][q] =
                IF q = p /\ row[r][q] # "absent" THEN status ELSE row[r][q]
  BY DEF EngineType, WithStatus, RowStatus

(* Every statement of a request leaves the tables and locals well typed.   *)
LEMMA RequestType ==
  ASSUME EngineType, NEW r \in Requests, EvaluatePolicies(r)
  PROVE  EngineType'
  <1> USE PolicyAssumption
  <1>f. pc[r] \in InLoop => First(todo[r]) \in todo[r] /\ First(todo[r]) \in Policies
    BY FirstIsMember DEF EngineType
  <1>s. \A status \in RowStatus :
          pc[r] \in InLoop =>
            WithStatus(First(todo[r]), status) \in [Requests -> [Policies -> RowStatus]]
    BY <1>f, StatusWritten
  <1>1. CASE Begin(r)
    BY <1>1 DEF Begin, EngineType, Settle, Goto, PC, InLoop, adminVars, tableVars, Running
  <1>2. CASE Insert(r)
    <2>1. /\ row' \in [Requests -> [Policies -> RowStatus]]
          /\ newest' \in [Policies -> Requests \cup {None}]
      BY <1>2, <1>f DEF Insert, EngineType, InLoop, RowStatus
    <2>2. /\ todo' \in [Requests -> SUBSET Policies]
          /\ pc' \in [Requests -> PC]
          /\ \A q \in Requests : todo'[q] \subseteq policies'[q]
          /\ \A q \in Requests : pc'[q] \in InLoop => todo'[q] # {}
      BY <1>2, <1>f DEF Insert, EngineType, Goto, PC, InLoop
    <2> QED
      BY <1>2, <2>1, <2>2 DEF Insert, EngineType, adminVars, RowStatus
  <1>3. CASE Start(r)
    BY <1>3, <1>s DEF Start, EngineType, Goto, PC, InLoop, adminVars, RowStatus
  <1>4. CASE Judge(r)
    BY <1>4, <1>f DEF Judge, EngineType, Goto, PC, InLoop, adminVars, tableVars
  <1>5. CASE Locate(r)
    BY <1>5, <1>f DEF Locate, EngineType, Goto, PC, InLoop, adminVars, tableVars
  <1>6. CASE Store(r)
    BY <1>6, <1>f DEF Store, EngineType, Goto, PC, InLoop, adminVars
  <1>7. CASE StoreFails(r)
    BY <1>7 DEF StoreFails, EngineType, Goto, PC, InLoop, adminVars, tableVars
  <1>8. CASE Finish(r)
    <2>1. row' \in [Requests -> [Policies -> RowStatus]]
      BY <1>8, <1>s DEF Finish, InLoop, RowStatus
    <2>2. /\ todo' \in [Requests -> SUBSET Policies]
          /\ pc' \in [Requests -> PC]
          /\ \A q \in Requests : todo'[q] \subseteq policies'[q]
          /\ \A q \in Requests : pc'[q] \in InLoop => todo'[q] # {}
      BY <1>8, <1>f DEF Finish, Continue, EngineType, Goto, PC, InLoop
    <2> QED
      BY <1>8, <2>1, <2>2 DEF Finish, EngineType, adminVars, RowStatus
  <1>9. CASE ReadExceptions(r)
    BY <1>9 DEF ReadExceptions, EngineType, Goto, PC, InLoop, adminVars, tableVars
  <1>10. CASE Decide(r)
    BY <1>10 DEF Decide, EngineType, Settle, Goto, PC, InLoop, adminVars, tableVars
  <1>11. CASE Throw(r)
    <2>1. row' \in [Requests -> [Policies -> RowStatus]]
      BY <1>11, <1>s DEF Throw, EngineType, InLoop, RowStatus
    <2> QED
      BY <1>11, <2>1 DEF Throw, EngineType, Settle, Goto, PC, InLoop, adminVars, RowStatus
  <1> QED
    BY <1>1, <1>2, <1>3, <1>4, <1>5, <1>6, <1>7, <1>8, <1>9, <1>10, <1>11
    DEF EvaluatePolicies

(* So does every change of policies, exceptions and the version.           *)
LEMMA AdministrationType ==
  ASSUME EngineType, NEW p \in Policies, Administration(p)
  PROVE  EngineType'
  <1> USE PolicyAssumption DEF Change, EngineType, requestVars, tableVars
  <1>1. CASE UpdatePolicy(p)
    BY <1>1 DEF UpdatePolicy
  <1>2. CASE ChangeVersion(p)
    BY <1>2 DEF ChangeVersion
  <1>3. CASE CreateException(p)
    BY <1>3 DEF CreateException
  <1>4. CASE Expire(p)
    BY <1>4 DEF Expire
  <1>5. CASE ForceOverride(p)
    BY <1>5 DEF ForceOverride
  <1> QED
    BY <1>1, <1>2, <1>3, <1>4, <1>5 DEF Administration

------------------------------------------------------------------------------
(* A statement of one request leaves the locals of the others alone.       *)
LEMMA OthersUntouched ==
  ASSUME EngineType, NEW r \in Requests, EvaluatePolicies(r)
  PROVE  /\ \A g \in Requests \ {r} :
              /\ pc'[g] = pc[g] /\ decision'[g] = decision[g]
              /\ found'[g] = found[g] /\ excepted'[g] = excepted[g]
         /\ disturbed \subseteq disturbed' /\ erred \subseteq erred'
         /\ pc[r] # "idle" => pc[r] # "done" /\ disturbed' = disturbed
         /\ pc[r] = "idle" => Running = {} \/ Running \cup {r} \subseteq disturbed'
  BY DEF EvaluatePolicies, Begin, Insert, Start, Judge, Locate, Store, StoreFails, Finish,
         ReadExceptions, Decide, Throw, Settle, Goto, Continue, EngineType

(* Two requests under way have disturbed each other, after any statement.  *)
LEMMA RequestAlone ==
  ASSUME EngineType, Alone, NEW r \in Requests, EvaluatePolicies(r)
  PROVE  Alone'
  <1> SUFFICES ASSUME NEW a \in Requests, NEW b \in Requests, a # b,
                      a \in Running', b \in Running'
               PROVE  a \in disturbed'
    BY DEF Alone
  <1>1. \A g \in Requests \ {r} : g \in Running' <=> g \in Running
    BY OthersUntouched DEF Running
  <1>2. CASE pc[r] = "idle"
    <2>1. Running # {}
      BY <1>1 DEF Running
    <2> QED
      BY <1>1, <1>2, <2>1, OthersUntouched
  <1>3. CASE pc[r] # "idle"
    <2>1. r \in Running
      BY <1>3, OthersUntouched DEF Running
    <2> QED
      BY <1>1, <1>3, <2>1, OthersUntouched DEF Alone
  <1> QED
    BY <1>2, <1>3

(* An undisturbed promotion check is not under way while another request   *)
(* takes a step.                                                           *)
LEMMA OthersGate ==
  ASSUME EngineType, Alone, GateInv, NEW r \in Requests, EvaluatePolicies(r),
         NEW g \in Gates \ {r}, Undisturbed(g)'
  PROVE  GateAt(g)'
  <1>1. g \in Requests /\ Undisturbed(g)
    BY PolicyAssumption, OthersUntouched DEF Undisturbed
  <1>2. GateAt(g)
    BY <1>1 DEF GateInv
  <1>3. g \notin Running
    <2>1. CASE pc[r] = "idle"
      BY <1>1, <2>1, OthersUntouched DEF Undisturbed
    <2>2. CASE pc[r] # "idle"
      <3>1. r \in Running
        BY <2>2, OthersUntouched DEF Running
      <3> QED
        BY <1>1, <3>1 DEF Alone, Undisturbed
    <2> QED
      BY <2>1, <2>2
  <1>4. pc[g] \in {"idle", "done"}
    BY <1>1, <1>3 DEF Running
  <1> QED
    BY <1>1, <1>2, <1>4, OthersUntouched DEF GateAt

(* A promotion check that stays undisturbed keeps its records together,    *)
(* statement by statement.                                                 *)
LEMMA OwnGate ==
  ASSUME EngineType, GateInv, NEW r \in Gates, EvaluatePolicies(r), Undisturbed(r)'
  PROVE  GateAt(r)'
  <1> USE PolicyAssumption
  <1>0. r \in Requests /\ r \notin DryRuns /\ Undisturbed(r) /\ GateAt(r)
    BY OthersUntouched DEF Undisturbed, GateInv
  <1>f. pc[r] \in InLoop => First(todo[r]) \in todo[r] /\ First(todo[r]) \in Policies
    BY <1>0, FirstIsMember DEF EngineType
  <1>1. CASE Begin(r)
    BY <1>0, <1>1 DEF Begin, EngineType, Settle, Goto, GateAt
  <1>2. CASE Insert(r)
    BY <1>0, <1>2, <1>f DEF Insert, EngineType, Goto, GateAt, InLoop, OwnRow
  <1>3. CASE Start(r)
    <2>1. /\ pc[r] = "start" /\ pc'[r] = "judge" /\ newest' = newest
          /\ UNCHANGED <<violation, policies, todo, found, excepted, decision>>
      BY <1>0, <1>3 DEF Start, EngineType, Goto
    <2>2. \A q \in Policies :
            row'[r][q] = IF q = First(todo[r]) /\ row[r][q] # "absent"
                         THEN "running" ELSE row[r][q]
      BY <1>0, <1>3, <1>f, <2>1, StatusWritten DEF Start, InLoop, RowStatus
    <2>3. policies[r] \subseteq Policies /\ found[r] \subseteq Policies
      BY <1>0 DEF EngineType
    <2>4. \A q \in policies[r] : OwnRow(r, q)'
      BY <1>0, <2>1, <2>2, <2>3 DEF GateAt, OwnRow
    <2>5. \A q \in found[r] \ todo[r] : Recorded(r, q)'
      BY <1>0, <1>f, <2>1, <2>2, <2>3 DEF GateAt, Recorded, InLoop
    <2> QED
      BY <1>0, <2>1, <2>4, <2>5 DEF GateAt
  <1>4. CASE Judge(r)
    BY <1>0, <1>4, <1>f
    DEF Judge, EngineType, Goto, GateAt, InLoop, OwnRow, Recorded, tableVars
  <1>5. CASE Locate(r)
    BY <1>0, <1>5, <1>f
    DEF Locate, EngineType, Goto, GateAt, InLoop, OwnRow, Recorded, tableVars
  <1>6. CASE Store(r)
    <2>1. /\ pc[r] = "store" /\ pc'[r] = "finish"
          /\ UNCHANGED <<row, newest, policies, todo, found, excepted, decision>>
      BY <1>0, <1>6 DEF Store, EngineType, Goto
    <2>2. /\ \A q \in Policies : violation[r][q] => violation'[r][q]
          /\ First(todo[r]) \in found[r] => violation'[r][First(todo[r])]
      BY <1>0, <1>6, <1>f, <2>1 DEF Store, EngineType, GateAt, InLoop
    <2>3. found[r] \subseteq Policies
      BY <1>0 DEF EngineType
    <2>4. \A q \in policies[r] : OwnRow(r, q)'
      BY <1>0, <2>1 DEF GateAt, OwnRow
    <2>5. \A q \in found[r] \ todo[r] : Recorded(r, q)'
      BY <1>0, <2>1, <2>2, <2>3 DEF GateAt, Recorded
    <2> QED
      BY <1>0, <2>1, <2>2, <2>4, <2>5 DEF GateAt
  <1>7. ~StoreFails(r) /\ ~Throw(r)
    BY <1>0 DEF StoreFails, Throw, Undisturbed
  <1>8. CASE Finish(r)
    <2>1. /\ pc[r] = "finish"
          /\ todo'[r] = todo[r] \ {First(todo[r])}
          /\ pc'[r] \in {"start", "exceptions"}
          /\ pc'[r] = "exceptions" => todo'[r] = {}
          /\ UNCHANGED <<newest, violation, policies, found, excepted, decision>>
      BY <1>0, <1>8 DEF Finish, Continue, EngineType, Goto
    <2>2. \A q \in Policies :
            row'[r][q] = IF q = First(todo[r]) /\ row[r][q] # "absent"
                         THEN "completed" ELSE row[r][q]
      BY <1>0, <1>8, <1>f, <2>1, StatusWritten DEF Finish, InLoop, RowStatus
    <2>3. /\ policies[r] \subseteq Policies /\ found[r] \subseteq Policies
          /\ todo[r] \subseteq policies[r]
      BY <1>0 DEF EngineType
    <2>4. \A q \in policies[r] : OwnRow(r, q)'
      BY <1>0, <2>1, <2>2, <2>3 DEF GateAt, OwnRow
    <2>5. ASSUME NEW q \in found[r] \ todo'[r] PROVE Recorded(r, q)'
      <3>1. CASE q \in todo[r]
        <4>1. q = First(todo[r]) /\ q \in policies[r] /\ violation[r][q]
          BY <1>0, <2>1, <2>3, <3>1 DEF GateAt
        <4> QED
          BY <1>0, <2>1, <2>2, <2>3, <4>1 DEF GateAt, OwnRow, Recorded
      <3>2. CASE q \notin todo[r]
        <4>1. Recorded(r, q) /\ q \in Policies
          BY <1>0, <2>1, <2>3, <3>2 DEF GateAt
        <4> QED
          BY <2>1, <2>2, <4>1 DEF Recorded
      <3> QED
        BY <3>1, <3>2
    <2>6. found[r] \cap todo'[r] = {}
      BY <1>0, <2>1 DEF GateAt
    <2> QED
      BY <1>0, <2>1, <2>4, <2>5, <2>6 DEF GateAt
  <1>9. CASE ReadExceptions(r)
    BY <1>0, <1>9 DEF ReadExceptions, EngineType, Goto, GateAt, Recorded, tableVars
  <1>10. CASE Decide(r)
    <2>1. found[r] \subseteq Blocking
      BY <1>0, <1>10 DEF Decide, GateAt, Recorded, Blocking, EngineType
    <2> QED
      BY <1>0, <1>10, <2>1 DEF Decide, EngineType, Settle, Goto, GateAt
  <1> QED
    BY <1>1, <1>2, <1>3, <1>4, <1>5, <1>6, <1>7, <1>8, <1>9, <1>10 DEF EvaluatePolicies

------------------------------------------------------------------------------
(* A move the trigger accepts adds the new state to what was reached.      *)
LEMMA ReviewKept ==
  ASSUME LifecycleType, ReviewInv, LifecycleNext
  PROVE  LifecycleType' /\ ReviewInv'
  <1>1. ASSUME NEW v \in Versions, CreateVersion(v) PROVE LifecycleType' /\ ReviewInv'
    BY <1>1 DEF CreateVersion, LifecycleType, ReviewInv, VersionState, Movers, Before, Review
  <1>2. ASSUME NEW v \in Versions, NEW to \in VersionState, NEW role \in Movers,
               UpdateVersionState(v, to, role)
        PROVE  LifecycleType' /\ ReviewInv'
    <2>1. LifecycleType'
      BY <1>2 DEF UpdateVersionState, LifecycleType
    <2>2. ASSUME NEW w \in Versions PROVE Before(state'[w]) \subseteq reached'[w]
      <3>1. CASE w = v
        BY <1>2, <3>1
        DEF UpdateVersionState, LifecycleType, ReviewInv, ValidTransitions, Before, Review
      <3>2. CASE w # v
        BY <1>2, <3>2 DEF UpdateVersionState, LifecycleType, ReviewInv
      <3> QED
        BY <3>1, <3>2
    <2> QED
      BY <2>1, <2>2 DEF ReviewInv
  <1> QED
    BY <1>1, <1>2 DEF LifecycleNext

(* The tables are empty and no version exists. *)
LEMMA InitInv == Init => Inv
  <1> SUFFICES ASSUME Init PROVE Inv
    OBVIOUS
  <1>1. TypeOK
    BY PolicyAssumption
    DEF Init, LifecycleInit, EngineInit, TypeOK, LifecycleType, EngineType, PC, InLoop,
        VersionState, Movers
  <1>2. Alone
    BY DEF Init, EngineInit, Alone, Running
  <1>3. GateInv
    BY PolicyAssumption DEF Init, EngineInit, GateInv, GateAt
  <1>4. ReviewInv
    BY AbsentAssumption DEF Init, LifecycleInit, ReviewInv, Before
  <1> QED
    BY <1>1, <1>2, <1>3, <1>4 DEF Inv

(* Every step preserves the invariant. *)
LEMMA NextInv == Inv /\ [Next]_vars => Inv'
  <1> SUFFICES ASSUME Inv, [Next]_vars PROVE Inv'
    OBVIOUS
  <1> USE DEF Inv, TypeOK
  <1>1. ASSUME NEW r \in Requests, EvaluatePolicies(r), UNCHANGED lifecycleVars
        PROVE  Inv'
    <2>1. EngineType' /\ Alone'
      BY <1>1, RequestType, RequestAlone
    <2>2. ASSUME NEW g \in Gates, Undisturbed(g)' PROVE GateAt(g)'
      BY <1>1, <2>2, OwnGate, OthersGate
    <2>3. LifecycleType' /\ ReviewInv'
      BY <1>1 DEF lifecycleVars, LifecycleType, ReviewInv
    <2> QED
      BY <2>1, <2>2, <2>3 DEF GateInv
  <1>2. ASSUME NEW p \in Policies, Administration(p), UNCHANGED lifecycleVars
        PROVE  Inv'
    <2>1. EngineType'
      BY <1>2, AdministrationType
    <2>2. UNCHANGED <<requestVars, tableVars>>
      BY <1>2 DEF Administration, UpdatePolicy, ChangeVersion, CreateException, Expire,
         ForceOverride, Change
    <2>3. Alone' /\ GateInv'
      BY <2>2 DEF requestVars, tableVars, Alone, Running, GateInv, GateAt, Undisturbed,
         OwnRow, Recorded
    <2>4. LifecycleType' /\ ReviewInv'
      BY <1>2 DEF lifecycleVars, LifecycleType, ReviewInv
    <2> QED
      BY <2>1, <2>3, <2>4
  <1>3. ASSUME LifecycleNext, UNCHANGED engineVars PROVE Inv'
    <2>1. EngineType' /\ Alone' /\ GateInv'
      BY <1>3 DEF engineVars, EngineType, Alone, Running, GateInv, GateAt, Undisturbed,
         OwnRow, Recorded
    <2> QED
      BY <1>3, <2>1, ReviewKept
  <1>4. CASE UNCHANGED vars
    BY <1>4 DEF vars, lifecycleVars, engineVars, LifecycleType, EngineType, Alone, Running,
       GateInv, GateAt, Undisturbed, OwnRow, Recorded, ReviewInv
  <1> QED
    BY <1>1, <1>2, <1>3, <1>4 DEF Next, EngineNext

(* The invariant holds in every reachable state. *)
THEOREM Invariance == Spec => []Inv
  BY InitInv, NextInv, PTL DEF Spec

(* Versions, tables and requests stay well typed; in particular no request *)
(* runs past the end of its loops.                                         *)
THEOREM TypeCorrect == Spec => []TypeOK
  BY Invariance, PTL DEF Inv

(* A promotion check that no other request and no failure disturbs lets no *)
(* violation through that it found, for any policies and any history.      *)
THEOREM UndisturbedGateIsSound == Spec => []GateStopsViolations
  <1>1. Inv => GateStopsViolations
    BY DEF Inv, GateInv, GateAt, GateStopsViolations
  <1> QED
    BY <1>1, Invariance, PTL

(* No version reaches production without the whole review since it was     *)
(* last sent back, whoever moves it.                                       *)
THEOREM ReviewBeforeProduction == Spec => []ProductionIsReviewed
  <1>1. Inv => ProductionIsReviewed
    BY DEF Inv, ReviewInv, Before, ProductionIsReviewed
  <1> QED
    BY <1>1, Invariance, PTL

------------------------------------------------------------------------------
(* The rows: what a statement writes to them, and what they owe            *)

(* A statement adds a row of its request, or gives the rows of the policy  *)
(* it is at a status; it never takes a row away.                           *)
LEMMA RowsWritten ==
  ASSUME EngineType, NEW r \in Requests, EvaluatePolicies(r), pc[r] \in InLoop,
         NEW p \in Policies, p = First(todo[r])
  PROVE  /\ \A q \in Requests, o \in Policies : o # p => row'[q][o] = row[q][o]
         /\ \A q \in Requests : row[q][p] # "absent" => row'[q][p] # "absent"
  <1>1. \A status \in RowStatus : \A q \in Requests, o \in Policies :
          WithStatus(p, status)[q][o] =
            IF o = p /\ row[q][o] # "absent" THEN status ELSE row[q][o]
    BY StatusWritten
  <1>2. row \in [Requests -> [Policies -> RowStatus]]
    BY DEF EngineType, RowStatus
  <1>3. CASE Insert(r)
    BY <1>2, <1>3 DEF Insert
  <1>4. CASE row' = WithStatus(p, "running")
    BY <1>1, <1>4 DEF RowStatus
  <1>5. CASE row' = WithStatus(p, "completed")
    BY <1>1, <1>5 DEF RowStatus
  <1>6. CASE row' = WithStatus(p, "failed")
    BY <1>1, <1>6 DEF RowStatus
  <1>7. CASE UNCHANGED row
    BY <1>7
  <1> QED
    BY <1>3, <1>4, <1>5, <1>6, <1>7
    DEF EvaluatePolicies, Begin, Start, Judge, Locate, Store, StoreFails, Finish,
        ReadExceptions, Decide, Throw, tableVars, InLoop

(* Outside of the loops the tables stay as they are.                       *)
LEMMA TablesLeft ==
  ASSUME EngineType, NEW r \in Requests, EvaluatePolicies(r), pc[r] \notin InLoop
  PROVE  UNCHANGED tableVars
  BY DEF EvaluatePolicies, Begin, Insert, Start, Judge, Locate, Store, StoreFails, Finish,
         ReadExceptions, Decide, Throw, tableVars, InLoop

LEMMA RowsStay ==
  ASSUME EngineType, NEW r \in Requests, EvaluatePolicies(r)
  PROVE  \A q \in Requests, p \in Policies : row[q][p] # "absent" => row'[q][p] # "absent"
  <1>1. CASE pc[r] \in InLoop
    <2>1. First(todo[r]) \in Policies
      BY <1>1, FirstIsMember DEF EngineType
    <2> QED
      BY <1>1, <2>1, RowsWritten
  <1>2. CASE pc[r] \notin InLoop
    BY <1>2, TablesLeft DEF tableVars
  <1> QED
    BY <1>1, <1>2

(* A row that a statement leaves unfinished belongs to a policy its        *)
(* request will come back to, and so do those that were unfinished before. *)
LEMMA SettleKept ==
  ASSUME EngineType, SettleInv, NEW r \in Requests, EvaluatePolicies(r)
  PROVE  SettleInv'
  <1> SUFFICES ASSUME erred' = {} PROVE
        \A q \in Requests, p \in Policies :
          row'[q][p] \in {"absent", "completed"} \/ \E g \in Requests : p \in Owed(g)'
    BY DEF SettleInv
  <1>1. \A q \in Requests, p \in Policies :
          row[q][p] \in {"absent", "completed"} \/ \E g \in Requests : p \in Owed(g)
    BY OthersUntouched DEF SettleInv
  <1>2. \A g \in Requests \ {r} : Owed(g)' = Owed(g)
    <2>1. \A g \in Requests \ {r} :
            pc'[g] = pc[g] /\ policies'[g] = policies[g] /\ todo'[g] = todo[g]
      BY DEF EvaluatePolicies, Begin, Insert, Start, Judge, Locate, Store, StoreFails, Finish,
             ReadExceptions, Decide, Throw, Settle, Goto, Continue, EngineType
    <2> QED
      BY <2>1 DEF Owed
  <1>3. ~Throw(r) /\ ~StoreFails(r)
    BY DEF Throw, StoreFails
  <1>f. pc[r] \in InLoop => First(todo[r]) \in todo[r] /\ First(todo[r]) \in Policies
    BY FirstIsMember DEF EngineType
  <1>4. CASE Insert(r)
    <2>1. policies[r] \subseteq Owed(r)'
      BY <1>4 DEF Insert, Owed, Goto, EngineType, InLoop
    <2>2. Owed(r) = policies[r] /\ First(todo[r]) \in policies[r]
      BY <1>4, <1>f DEF Insert, Owed, EngineType, InLoop
    <2>3. ASSUME NEW q \in Requests, NEW p \in Policies,
                 row'[q][p] \notin {"absent", "completed"}, p # First(todo[r])
          PROVE  \E g \in Requests : p \in Owed(g)'
      <3>1. row'[q][p] = row[q][p]
        BY <1>4, <1>f, <2>3, RowsWritten DEF Insert, InLoop
      <3> QED
        BY <1>1, <1>2, <2>1, <2>2, <2>3, <3>1
    <2> QED
      BY <2>1, <2>2, <2>3
  <1>5. CASE Finish(r)
    <2>1. /\ pc[r] = "finish" /\ todo'[r] = todo[r] \ {First(todo[r])}
          /\ Owed(r)' = todo'[r]
      BY <1>5 DEF Finish, Continue, Goto, Owed, EngineType, InLoop
    <2>2. \A q \in Requests, p \in Policies :
            row'[q][p] = IF p = First(todo[r]) /\ row[q][p] # "absent"
                         THEN "completed" ELSE row[q][p]
      BY <1>5, <1>f, <2>1, StatusWritten DEF Finish, InLoop, RowStatus
    <2>3. Owed(r) = todo[r]
      BY <2>1 DEF Owed, InLoop
    <2> QED
      BY <1>1, <1>2, <2>1, <2>2, <2>3
  <1>6. CASE Start(r) \/ Judge(r) \/ Locate(r) \/ Store(r)
    <2>1. pc[r] \in InLoop /\ Owed(r) = todo[r] /\ Owed(r)' = todo[r]
      BY <1>6 DEF Start, Judge, Locate, Store, Goto, Owed, EngineType, InLoop
    <2>2. ASSUME NEW q \in Requests, NEW p \in Policies,
                 row'[q][p] \notin {"absent", "completed"}, p # First(todo[r])
          PROVE  \E g \in Requests : p \in Owed(g)'
      <3>1. row'[q][p] = row[q][p]
        BY <1>f, <2>1, <2>2, RowsWritten
      <3> QED
        BY <1>1, <1>2, <2>1, <2>2, <3>1
    <2> QED
      BY <1>f, <2>1, <2>2
  <1>7. CASE Begin(r) \/ ReadExceptions(r) \/ Decide(r)
    <2>1. pc[r] \notin InLoop /\ Owed(r) = {}
      BY <1>7 DEF Begin, ReadExceptions, Decide, Owed, InLoop
    <2>2. UNCHANGED row
      BY <2>1, TablesLeft DEF tableVars
    <2> QED
      BY <1>1, <1>2, <2>1, <2>2
  <1> QED
    BY <1>3, <1>4, <1>5, <1>6, <1>7 DEF EvaluatePolicies

(* A result is stored on a row that was inserted.                          *)
LEMMA HangKept ==
  ASSUME EngineType, HangInv, NEW r \in Requests, EvaluatePolicies(r)
  PROVE  HangInv'
  <1> USE PolicyAssumption
  <1>f. pc[r] \in InLoop => First(todo[r]) \in todo[r] /\ First(todo[r]) \in Policies
    BY FirstIsMember DEF EngineType
  <1>1. \A q \in Requests, p \in Policies : row[q][p] # "absent" => row'[q][p] # "absent"
    BY RowsStay
  <1>2. ASSUME NEW p \in Policies, newest'[p] # None PROVE row'[newest'[p]][p] # "absent"
    <2>1. CASE Insert(r)
      BY <1>1, <1>2, <1>f, <2>1 DEF Insert, HangInv, EngineType, InLoop
    <2>2. CASE ~Insert(r)
      <3>1. newest' = newest
        BY <2>2 DEF EvaluatePolicies, Begin, Start, Judge, Locate, Store, StoreFails, Finish,
           ReadExceptions, Decide, Throw, tableVars
      <3> QED
        BY <1>1, <1>2, <3>1 DEF HangInv, EngineType
    <2> QED
      BY <2>1, <2>2
  <1>3. ASSUME NEW g \in Requests, pc'[g] = "store", target'[g] # None
        PROVE  row'[target'[g]][First(todo'[g])] # "absent"
    <2>1. CASE g = r /\ Locate(r)
      <3>1. target'[r] = newest[First(todo[r])] /\ todo' = todo
        BY <2>1 DEF Locate, EngineType
      <3> QED
        BY <1>1, <1>3, <1>f, <2>1, <3>1 DEF Locate, HangInv, EngineType, InLoop
    <2>2. CASE ~(g = r /\ Locate(r))
      <3>1. pc[g] = "store" /\ target'[g] = target[g] /\ todo'[g] = todo[g]
        BY <1>3, <2>2 DEF EvaluatePolicies, Begin, Insert, Start, Judge, Locate, Store, StoreFails,
           Finish, ReadExceptions, Decide, Throw, Settle, Goto, Continue, EngineType
      <3>2. First(todo[g]) \in Policies
        BY <3>1, FirstIsMember DEF EngineType, InLoop
      <3> QED
        BY <1>1, <1>3, <3>1, <3>2 DEF HangInv, EngineType
    <2> QED
      BY <2>1, <2>2
  <1>4. ASSUME NEW q \in Requests, NEW p \in Policies, violation'[q][p]
        PROVE  row'[q][p] # "absent"
    <2>1. CASE Store(r) /\ q = target[r] /\ p = First(todo[r])
      <3>1. pc[r] = "store" /\ target[r] # None /\ row[target[r]][First(todo[r])] # "absent"
        BY <2>1 DEF Store, HangInv
      <3> QED
        BY <1>1, <2>1, <3>1
    <2>2. CASE ~(Store(r) /\ q = target[r] /\ p = First(todo[r]))
      <3>1. violation[q][p]
        <4>1. CASE Store(r)
          BY <1>4, <2>2, <4>1 DEF Store, EngineType
        <4>2. CASE ~Store(r)
          BY <1>4, <4>2 DEF EvaluatePolicies, Begin, Insert, Start, Judge, Locate, StoreFails,
             Finish, ReadExceptions, Decide, Throw, tableVars
        <4> QED
          BY <4>1, <4>2
      <3> QED
        BY <1>1, <3>1 DEF HangInv
    <2> QED
      BY <2>1, <2>2
  <1> QED
    BY <1>2, <1>3, <1>4 DEF HangInv

(* While an undisturbed check is under way nobody else takes a step, and   *)
(* its own complete the rows of one policy after the other.                *)
LEMMA StickKept ==
  ASSUME EngineType, Alone, StickInv, NEW r \in Requests, EvaluatePolicies(r)
  PROVE  StickInv'
  <1> USE PolicyAssumption
  <1> SUFFICES ASSUME NEW g \in Gates, Undisturbed(g)' PROVE StickAt(g)'
    BY DEF StickInv
  <1>1. g \in Requests /\ Undisturbed(g) /\ StickAt(g)
    BY OthersUntouched DEF Undisturbed, StickInv
  <1>f. pc[r] \in InLoop => First(todo[r]) \in todo[r] /\ First(todo[r]) \in Policies
    BY FirstIsMember DEF EngineType
  <1>2. CASE g # r
    <2>1. pc'[g] = pc[g]
      BY <1>1, <1>2, OthersUntouched
    <2>2. g \notin Running
      <3>1. CASE pc[r] = "idle"
        BY <1>1, <3>1, OthersUntouched DEF Undisturbed
      <3>2. CASE pc[r] # "idle"
        <4>1. r \in Running
          BY <3>2, OthersUntouched DEF Running
        <4> QED
          BY <1>1, <1>2, <4>1 DEF Alone, Undisturbed
      <3> QED
        BY <3>1, <3>2
    <2> QED
      BY <1>1, <2>1, <2>2 DEF Running, StickAt, InLoop
  <1>3. CASE g = r
    <2>1. ~Throw(r) /\ ~StoreFails(r)
      BY <1>1, <1>3 DEF Throw, StoreFails, Undisturbed
    <2>2. CASE Begin(r)
      BY <1>3, <2>2 DEF Begin, Settle, Goto, StickAt, InLoop, EngineType
    <2>3. CASE Insert(r)
      BY <1>3, <2>3 DEF Insert, Goto, StickAt, InLoop, EngineType
    <2>4. CASE Start(r) \/ Judge(r) \/ Locate(r) \/ Store(r)
      <3>1. /\ pc[r] \in InLoop \ {"insert"} /\ pc'[r] \in InLoop
            /\ policies' = policies /\ todo' = todo
        BY <2>4 DEF Start, Judge, Locate, Store, Goto, InLoop, EngineType
      <3>2. \A p \in policies[r] \ todo[r] : p \in Policies /\ p # First(todo[r])
        BY <1>f, <3>1 DEF EngineType
      <3>3. \A p \in policies[r] \ todo[r] : \A q \in Requests : row'[q][p] = row[q][p]
        BY <1>f, <3>1, <3>2, RowsWritten
      <3>4. \A p \in policies[r] \ todo[r] : Settled(p)'
        BY <1>1, <1>3, <3>1, <3>3 DEF StickAt, Settled
      <3> QED
        BY <1>3, <3>1, <3>4 DEF StickAt, InLoop
    <2>5. CASE Finish(r)
      <3>1. /\ pc[r] = "finish" /\ todo'[r] = todo[r] \ {First(todo[r])}
            /\ policies' = policies
            /\ pc'[r] \in {"start", "exceptions"} /\ (pc'[r] = "exceptions" => todo'[r] = {})
        BY <1>3, <2>5 DEF Finish, Continue, Goto, EngineType
      <3>2. \A q \in Requests, p \in Policies :
              row'[q][p] = IF p = First(todo[r]) /\ row[q][p] # "absent"
                           THEN "completed" ELSE row[q][p]
        BY <1>f, <2>5, <3>1, StatusWritten DEF Finish, InLoop, RowStatus
      <3>3. policies[r] \subseteq Policies
        BY DEF EngineType
      <3>4. \A p \in policies[r] \ todo'[r] : Settled(p)'
        BY <1>1, <1>3, <3>1, <3>2, <3>3 DEF StickAt, Settled, InLoop
      <3> QED
        BY <1>3, <3>1, <3>4 DEF StickAt, InLoop
    <2>6. CASE ReadExceptions(r)
      <3>1. /\ pc[r] = "exceptions" /\ pc'[r] = "violations"
            /\ policies' = policies /\ row' = row
        BY <2>6 DEF ReadExceptions, Goto, EngineType, tableVars
      <3> QED
        BY <1>1, <1>3, <3>1 DEF StickAt, Settled, InLoop
    <2>7. CASE Decide(r)
      BY <1>3, <2>7 DEF Decide, Settle, Goto, StickAt, InLoop, EngineType
    <2> QED
      BY <2>1, <2>2, <2>3, <2>4, <2>5, <2>6, <2>7 DEF EvaluatePolicies
  <1> QED
    BY <1>2, <1>3

(* A check that answers yes has found every blocking result of a policy    *)
(* covered, and every result of an undisturbed one's policies is blocking. *)
LEMMA DecisionSticks ==
  ASSUME EngineType, HangInv, StickInv, NEW r \in Requests, EvaluatePolicies(r),
         NEW g \in Gates, decision[g] = "none", decision'[g] = "allowed", Undisturbed(g),
         NEW p \in policies[g], NEW q \in Requests \ DryRuns, violation[q][p]
  PROVE  p \in excepted[g]
  <1>1. g \in Requests
    BY PolicyAssumption
  <1>2. g = r /\ Decide(r)
    BY <1>1, OthersUntouched
    DEF EvaluatePolicies, Begin, Insert, Start, Judge, Locate, Store, StoreFails, Finish,
        ReadExceptions, Decide, Throw, Settle, Goto, EngineType
  <1>3. Blocking \subseteq excepted[g] /\ pc[g] = "violations"
    BY <1>1, <1>2 DEF Decide, Settle, EngineType
  <1>4. p \in Policies
    BY <1>1 DEF EngineType
  <1>5. row[q][p] = "completed"
    BY <1>3, <1>4 DEF HangInv, StickInv, StickAt, Settled
  <1>6. p \in Blocking
    BY <1>4, <1>5 DEF Blocking
  <1> QED
    BY <1>3, <1>6

LEMMA InitTables == Init => TablesInv
  <1> SUFFICES ASSUME Init PROVE TablesInv
    OBVIOUS
  <1>1. SettleInv
    BY DEF Init, EngineInit, SettleInv
  <1>2. HangInv
    BY DEF Init, EngineInit, HangInv
  <1>3. StickInv
    BY PolicyAssumption DEF Init, EngineInit, StickInv, StickAt, InLoop
  <1> QED
    BY <1>1, <1>2, <1>3 DEF TablesInv

LEMMA NextTables == Inv /\ TablesInv /\ [Next]_vars => TablesInv'
  <1> SUFFICES ASSUME Inv, TablesInv, [Next]_vars PROVE TablesInv'
    OBVIOUS
  <1>1. EngineType /\ Alone
    BY DEF Inv, TypeOK
  <1>2. ASSUME NEW r \in Requests, EvaluatePolicies(r) PROVE TablesInv'
    BY <1>1, <1>2, SettleKept, HangKept, StickKept DEF TablesInv
  <1>3. CASE UNCHANGED <<requestVars, tableVars>>
    <2>1. SettleInv' /\ HangInv'
      BY <1>3 DEF requestVars, tableVars, TablesInv, SettleInv, HangInv, Owed
    <2>2. StickInv'
      BY <1>3 DEF requestVars, tableVars, TablesInv, StickInv, StickAt, Settled, Undisturbed
    <2> QED
      BY <2>1, <2>2 DEF TablesInv
  <1>4. ASSUME NEW p \in Policies, Administration(p) PROVE UNCHANGED <<requestVars, tableVars>>
    BY <1>4 DEF Administration, UpdatePolicy, ChangeVersion, CreateException, Expire,
       ForceOverride, Change
  <1>5. CASE UNCHANGED engineVars
    BY <1>3, <1>5 DEF engineVars, requestVars, tableVars
  <1> QED
    BY <1>2, <1>3, <1>4, <1>5 DEF Next, EngineNext, vars

LEMMA TablesHold == Spec => []TablesInv
  BY Invariance, InitTables, NextTables, PTL DEF Spec

(* However many requests overlap and write each other's rows: once all     *)
(* have ended without a failure no row is left pending or running.         *)
THEOREM EveryRowSettles == Spec => []RowsSettle
  <1>1. TablesInv => RowsSettle
    <2> SUFFICES ASSUME TablesInv, Running = {}, erred = {},
                        NEW r \in Requests, NEW p \in Policies
                 PROVE  row[r][p] \in {"absent", "completed"}
      BY DEF RowsSettle
    <2>1. \A g \in Requests : Owed(g) = {}
      BY DEF Running, Owed, InLoop
    <2> QED
      BY <2>1 DEF TablesInv, SettleInv
  <1> QED
    BY <1>1, TablesHold, PTL

(* An undisturbed promotion check says yes only if an exception covers     *)
(* every violation ever stored for a policy it evaluates.                  *)
THEOREM StoredViolationsStick == Spec => ViolationsStick
  <1>1. Inv /\ TablesInv /\ [Next]_vars =>
          [\A r \in Gates :
             decision[r] = "none" /\ decision'[r] = "allowed" /\ Undisturbed(r) =>
               \A p \in policies[r] :
                 (\E q \in Requests \ DryRuns : violation[q][p]) => p \in excepted[r]]_engineVars
    <2> SUFFICES ASSUME Inv, TablesInv, [Next]_vars,
                        NEW g \in Gates, decision[g] = "none", decision'[g] = "allowed",
                        Undisturbed(g), NEW p \in policies[g],
                        NEW q \in Requests \ DryRuns, violation[q][p]
                 PROVE  p \in excepted[g]
      OBVIOUS
    <2>1. PICK r \in Requests : EvaluatePolicies(r)
      BY DEF Next, EngineNext, vars, engineVars, Administration, UpdatePolicy, ChangeVersion,
         CreateException, Expire, ForceOverride, Change, requestVars
    <2> QED
      BY <2>1, DecisionSticks DEF Inv, TypeOK, TablesInv
  <1> QED
    BY <1>1, Invariance, TablesHold, PTL DEF Spec, ViolationsStick
=============================================================================
