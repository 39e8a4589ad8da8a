---------------------------- MODULE AuditProofs ----------------------------
(***************************************************************************)
(* What TLAPS proves of AuditChain for any number of transactions, rows    *)
(* and ticks.  The lock on hash_chain_state is held from the first row of  *)
(* a transaction to its end, so one transaction at a time has rows, and    *)
(* they continue the committed chain (OneWriter, Continues).  Then what    *)
(* verify_audit_chain_integrity finds of that chain.                       *)
(***************************************************************************)
EXTENDS AuditVerification, SequenceLemmas

(* Who has read the last hash, or has rows, holds the lock. *)
OneWriter ==
  \A t \in Txns :
    /\ pc[t] \in {"link", "commit"} \/ mine[t] # <<>> => holder = t
    /\ pc[t] \in {"idle", "done", "failed"} => mine[t] = <<>>
    /\ pc[t] = "commit" => mine[t] # <<>>
    /\ pc[t] \in {"insert", "link"} => left[t] > 0

(* hash_chain_state describes the committed rows. *)
StateIsExact ==
  /\ Log!Linked(log)
  /\ head = Log!HashAfter(log)
  /\ count = Len(log)

(* The rows of a transaction continue the committed chain. *)
Continues ==
  \A t \in Txns :
    /\ \A i \in 1..Len(mine[t]) :
         /\ mine[t][i].prev = IF i = 1 THEN head ELSE mine[t][i - 1].id
         /\ \A j \in 1..Len(mine[t]) : mine[t][i].id = mine[t][j].id => i = j
         /\ \A j \in 1..Len(log) : mine[t][i].id # log[j].id
    /\ pc[t] = "link" => prev[t] = LastHash(t)

(* The inductive invariant. *)
IInv ==
  /\ TypeOK
  /\ OneWriter
  /\ StateIsExact
  /\ Continues

(* Every transaction inserts something. *)
LEMMA RowsArePositive == \A t \in Txns : Rows[t] \in Nat /\ Rows[t] > 0
  BY AuditAssumption DEF AuditAssumption

(* The rows of a sequence of rows carry hashes. *)
LEMMA RowsHaveHashes ==
  ASSUME NEW q \in Seq(Row)
  PROVE  /\ Len(q) \in Nat /\ (q = <<>> <=> Len(q) = 0)
         /\ \A i \in 1..Len(q) : q[i] \in Row /\ q[i].id \in Ids
  <1>1. \A i \in 1..Len(q) : q[i] \in Row
    OBVIOUS
  <1> QED
    BY <1>1 DEF Row

(* The log is empty and nobody has begun. *)
LEMMA InitInvariant == Init => IInv
  BY AuditAssumption
  DEF AuditAssumption, Init, IInv, TypeOK, OneWriter, StateIsExact, Continues, LastHash, Row,
      Log!Linked, Log!HashAfter

(* A transaction begins without rows. *)
LEMMA BeginKeeps == ASSUME IInv, NEW t \in Txns, Begin(t) PROVE IInv'
  <1>1. /\ pc[t] = "idle" /\ pc' = [pc EXCEPT ![t] = "insert"]
        /\ at' = [at EXCEPT ![t] = now] /\ left' = [left EXCEPT ![t] = Rows[t]]
        /\ UNCHANGED <<now, log, head, count, holder, mine, prev>>
    BY DEF Begin, Goto
  <1>2. TypeOK'
    <2>1. left' \in [Txns -> Nat] /\ \A u \in Txns : left'[u] <= Rows[u]
      BY <1>1, RowsArePositive DEF IInv, TypeOK
    <2> QED
      BY <1>1, <2>1 DEF IInv, TypeOK
  <1>3. OneWriter'
    <2>1. left'[t] > 0 /\ \A u \in Txns \ {t} : left'[u] = left[u]
      BY <1>1, RowsArePositive DEF IInv, TypeOK
    <2> QED
      BY <1>1, <2>1 DEF IInv, TypeOK, OneWriter
  <1>4. StateIsExact'
    BY <1>1 DEF IInv, StateIsExact, Log!Linked, Log!HashAfter
  <1>5. Continues'
    BY <1>1 DEF IInv, TypeOK, Continues, LastHash
  <1> QED
    BY <1>2, <1>3, <1>4, <1>5 DEF IInv

(* The lock is taken and the last hash is the one the transaction sees. *)
LEMMA ReadHeadKeeps == ASSUME IInv, NEW t \in Txns, ReadHead(t) PROVE IInv'
  <1>1. /\ pc[t] = "insert" /\ holder \in {None, t}
        /\ pc' = [pc EXCEPT ![t] = "link"] /\ holder' = t
        /\ prev' = [prev EXCEPT ![t] = LastHash(t)]
        /\ UNCHANGED <<now, log, head, count, at, left, mine>>
    BY DEF ReadHead, Free, Goto
  <1>2. LastHash(t) \in Ids \cup {Genesis}
    <2>1. mine[t] \in Seq(Row) /\ head \in Ids \cup {Genesis}
      BY DEF IInv, TypeOK
    <2>2. Len(mine[t]) \in Nat /\ (mine[t] # <<>> => Len(mine[t]) \in 1..Len(mine[t]))
      BY <2>1, RowsHaveHashes
    <2> QED
      BY <2>1, <2>2, RowsHaveHashes DEF LastHash
  <1>3. TypeOK'
    BY <1>1, <1>2 DEF IInv, TypeOK
  <1>4. OneWriter'
    BY <1>1, AuditAssumption DEF AuditAssumption, IInv, TypeOK, OneWriter
  <1>5. StateIsExact'
    BY <1>1 DEF IInv, StateIsExact, Log!Linked, Log!HashAfter
  <1>6. Continues'
    <2>1. \A u \in Txns : LastHash(u)' = LastHash(u)
      BY <1>1 DEF LastHash
    <2>2. \A u \in Txns : pc'[u] = "link" => prev'[u] = LastHash(u)
      BY <1>1 DEF IInv, TypeOK, Continues
    <2> QED
      BY <1>1, <2>1, <2>2 DEF IInv, Continues
  <1> QED
    BY <1>3, <1>4, <1>5, <1>6 DEF IInv

(* One more row, which names what the transaction last saw. *)
LEMMA LinkRowKeeps == ASSUME IInv, NEW t \in Txns, NEW id \in Ids, LinkRow(t, id) PROVE IInv'
  <1> DEFINE q == mine[t]
             r == [id |-> id, prev |-> prev[t], at |-> at[t]]
  <1>1. /\ pc[t] = "link" /\ left[t] > 0 /\ holder' = t /\ holder = t
        /\ pc' = [pc EXCEPT ![t] = IF left[t] > 1 THEN "insert" ELSE "commit"]
        /\ mine' = [mine EXCEPT ![t] = Append(q, r)] /\ left' = [left EXCEPT ![t] = @ - 1]
        /\ UNCHANGED <<now, log, head, count, at, prev>>
    BY DEF LinkRow, Free, Goto, IInv, OneWriter
  <1>2. q \in Seq(Row) /\ r \in Row
    BY DEF IInv, TypeOK, Row
  <1>3. /\ Append(q, r) \in Seq(Row) /\ Len(Append(q, r)) = Len(q) + 1
        /\ \A i \in 1..Len(q) : Append(q, r)[i] = q[i]
        /\ Append(q, r)[Len(q) + 1] = r
    BY <1>2
  <1> DEFINE p == Append(q, r)
  <1>4. Len(q) \in Nat /\ Append(q, r) # <<>>
    BY <1>2, <1>3
  <1>5. mine'[t] = p /\ \A u \in Txns \ {t} : mine'[u] = mine[u] /\ mine[u] = <<>>
    BY <1>1 DEF IInv, TypeOK, OneWriter
  <1> HIDE DEF p
  <1>6. TypeOK'
    <2>1. mine' \in [Txns -> Seq(Row)]
      BY <1>1, <1>3 DEF IInv, TypeOK
    <2>2. left' \in [Txns -> Nat] /\ \A u \in Txns : left'[u] <= Rows[u]
      BY <1>1, RowsArePositive DEF IInv, TypeOK
    <2> QED
      BY <1>1, <2>1, <2>2 DEF IInv, TypeOK
  <1>7. OneWriter'
    <2>1. pc'[t] \in {"insert", "commit"} /\ (pc'[t] = "insert" => left'[t] > 0)
      BY <1>1 DEF IInv, TypeOK
    <2>2. \A u \in Txns \ {t} : pc'[u] = pc[u] /\ left'[u] = left[u]
      BY <1>1 DEF IInv, TypeOK
    <2>3. p # <<>>
      BY <1>4 DEF p
    <2> QED
      BY <1>1, <1>5, <2>1, <2>2, <2>3 DEF IInv, OneWriter
  <1>8. StateIsExact'
    BY <1>1 DEF IInv, StateIsExact, Log!Linked, Log!HashAfter
  <1>9. Continues'
    <2>0. Len(q) \in Nat
      BY <1>4
    <2>1. /\ \A i \in 1..Len(q) : p[i] = q[i]
          /\ p[Len(q) + 1].id = id /\ p[Len(q) + 1].prev = prev[t] /\ Len(p) = Len(q) + 1
      BY <1>3 DEF p
    <2>2. prev[t] = IF q = <<>> THEN head ELSE q[Len(q)].id
      BY <1>1 DEF IInv, Continues, LastHash
    <2>3. /\ \A i \in 1..Len(q) : q[i].id # id
          /\ \A j \in 1..Len(log) : log[j].id # id
      BY DEF LinkRow, Taken
    <2>4. /\ \A i \in 1..Len(q) :
               /\ q[i].prev = IF i = 1 THEN head ELSE q[i - 1].id
               /\ \A j \in 1..Len(q) : q[i].id = q[j].id => i = j
               /\ \A j \in 1..Len(log) : q[i].id # log[j].id
          /\ q = <<>> <=> Len(q) = 0
      BY <1>2, RowsHaveHashes DEF IInv, Continues
    <2> HIDE DEF q
    <2>5. ASSUME NEW i \in 1..Len(p)
          PROVE  /\ p[i].prev = IF i = 1 THEN head ELSE p[i - 1].id
                 /\ \A j \in 1..Len(p) : p[i].id = p[j].id => i = j
                 /\ \A j \in 1..Len(log) : p[i].id # log[j].id
      <3>1. CASE i \in 1..Len(q)
        <4>1. p[i] = q[i] /\ (i > 1 => i - 1 \in 1..Len(q) /\ p[i - 1] = q[i - 1])
          BY <2>0, <2>1, <3>1
        <4>2. \A j \in 1..Len(p) : j \in 1..Len(q) \/ j = Len(q) + 1
          BY <2>0, <2>1
        <4> QED
          BY <2>1, <2>3, <2>4, <3>1, <4>1, <4>2
      <3>2. CASE i = Len(q) + 1
        <4>1. i > 1 => i - 1 = Len(q) /\ p[i - 1] = q[Len(q)]
          BY <2>0, <2>1, <3>2
        <4>2. i = 1 <=> q = <<>>
          BY <2>0, <2>4, <3>2
        <4>3. \A j \in 1..Len(p) : j # i => j \in 1..Len(q)
          BY <2>0, <2>1, <3>2
        <4> QED
          BY <2>0, <2>1, <2>2, <2>3, <3>2, <4>1, <4>2, <4>3
      <3> QED
        BY <2>0, <2>1, <3>1, <3>2
    <2>6. \A u \in Txns : pc'[u] # "link"
      BY <1>1 DEF IInv, TypeOK, OneWriter
    <2> HIDE DEF q, r
    <2>7. ASSUME NEW u \in Txns, NEW i \in 1..Len(mine'[u])
          PROVE  u = t
      BY <1>5
    <2>8. head' = head /\ log' = log /\ mine'[t] = p
      BY <1>1, <1>5
    <2> QED
      BY <2>5, <2>6, <2>7, <2>8 DEF Continues
  <1> QED
    BY <1>6, <1>7, <1>8, <1>9 DEF IInv

(* The rows of the transaction are appended to the chain they continue. *)
LEMMA CommitKeeps == ASSUME IInv, NEW t \in Txns, Commit(t)
                     PROVE  IInv' /\ Log!Grow
  <1> DEFINE q == mine[t]
             p == log \o q
  <1>1. /\ pc[t] = "commit" /\ holder = t /\ holder' = None /\ q # <<>>
        /\ pc' = [pc EXCEPT ![t] = "done"] /\ mine' = [mine EXCEPT ![t] = <<>>]
        /\ log' = p /\ head' = LastHash(t) /\ count' = count + Len(q)
        /\ UNCHANGED <<now, at, left, prev>>
    BY DEF Commit, Goto, IInv, OneWriter
  <1>2. q \in Seq(Row) /\ log \in Seq(Row)
    BY DEF IInv, TypeOK
  <1>3. /\ p \in Seq(Row) /\ Len(p) = Len(log) + Len(q)
        /\ \A i \in 1..Len(log) : p[i] = log[i]
        /\ \A i \in 1..Len(q) : p[Len(log) + i] = q[i]
        /\ Len(q) \in Nat /\ Len(q) > 0 /\ Len(log) \in Nat
    BY <1>1, <1>2, RowsHaveHashes
  <1>3a. Len(p) = Len(log) + Len(q) /\ Len(q) \in Nat /\ Len(q) > 0 /\ Len(log) \in Nat
    BY <1>3
  <1>4. /\ LastHash(t) = q[Len(q)].id /\ LastHash(t) \in Ids
        /\ head = IF log = <<>> THEN Genesis ELSE log[Len(log)].id
        /\ log = <<>> <=> Len(log) = 0
    <2>1. LastHash(t) = q[Len(q)].id /\ LastHash(t) \in Ids
      BY <1>1, <1>2, <1>3, RowsHaveHashes DEF LastHash
    <2>2. head = IF log = <<>> THEN Genesis ELSE log[Len(log)].id
      BY DEF IInv, StateIsExact, Log!HashAfter
    <2>3. log = <<>> <=> Len(log) = 0
      BY <1>2, RowsHaveHashes
    <2> QED
      BY <2>1, <2>2, <2>3
  <1>5. /\ \A i \in 1..Len(q) :
             /\ q[i].prev = IF i = 1 THEN head ELSE q[i - 1].id
             /\ \A j \in 1..Len(q) : q[i].id = q[j].id => i = j
             /\ \A j \in 1..Len(log) : q[i].id # log[j].id
        /\ \A i \in 1..Len(log) : log[i].prev = IF i = 1 THEN Genesis ELSE log[i - 1].id
        /\ \A i, j \in 1..Len(log) : log[i].id = log[j].id => i = j
    BY DEF IInv, Continues, StateIsExact, Log!Linked
  <1>6. \A u \in Txns : mine'[u] = <<>> /\ pc'[u] \notin {"link", "commit"}
    BY <1>1 DEF IInv, TypeOK, OneWriter
  <1>7. TypeOK'
    <2>1. mine' \in [Txns -> Seq(Row)] /\ count' \in Nat
      BY <1>1, <1>3 DEF IInv, TypeOK
    <2> QED
      BY <1>1, <1>3, <1>4, <2>1 DEF IInv, TypeOK
  <1>8. OneWriter'
    BY <1>1, <1>6 DEF IInv, TypeOK, OneWriter
  <1> HIDE DEF q, p
  <1>9. Log!Linked(p)
    <2>1. ASSUME NEW i \in 1..Len(p)
          PROVE  p[i].prev = IF i = 1 THEN Genesis ELSE p[i - 1].id
      <3>1. CASE i \in 1..Len(log)
        BY <1>3, <1>5, <3>1
      <3>2. CASE i = Len(log) + 1
        BY <1>3, <1>4, <1>5, <3>2
      <3>3. CASE i > Len(log) + 1
        <4>1. PICK k \in 2..Len(q) : i = Len(log) + k /\ i - 1 = Len(log) + (k - 1)
          BY <1>3, <3>3
        <4>2. k \in 1..Len(q) /\ k - 1 \in 1..Len(q) /\ k # 1 /\ i # 1
          BY <1>3, <3>3, <4>1
        <4>3. p[i] = q[k] /\ p[i - 1] = q[k - 1]
          BY <1>3, <4>1, <4>2
        <4>4. q[k].prev = q[k - 1].id
          BY <1>5, <4>2
        <4> QED
          BY <4>2, <4>3, <4>4
      <3> QED
        BY <1>3a, <3>1, <3>2, <3>3
    <2>2. ASSUME NEW i \in 1..Len(p), NEW j \in 1..Len(p), p[i].id = p[j].id
          PROVE  i = j
      <3>0. ASSUME NEW k \in 1..Len(p), k \notin 1..Len(log)
            PROVE  \E m \in 1..Len(q) : k = Len(log) + m /\ p[k] = q[m]
        <4>1. k - Len(log) \in 1..Len(q) /\ k = Len(log) + (k - Len(log))
          BY <1>3a, <3>0
        <4>2. p[Len(log) + (k - Len(log))] = q[k - Len(log)]
          BY <1>3, <4>1
        <4> QED
          BY <4>1, <4>2
      <3>1. CASE i \in 1..Len(log) /\ j \in 1..Len(log)
        BY <1>3, <1>5, <2>2, <3>1
      <3>2. CASE i \in 1..Len(log) /\ j \notin 1..Len(log)
        <4>1. PICK m \in 1..Len(q) : p[j] = q[m]
          BY <3>0, <3>2
        <4>2. p[i] = log[i] /\ q[m].id # log[i].id
          BY <1>3, <1>5, <3>2
        <4> QED
          BY <2>2, <4>1, <4>2
      <3>3. CASE i \notin 1..Len(log) /\ j \in 1..Len(log)
        <4>1. PICK m \in 1..Len(q) : p[i] = q[m]
          BY <3>0, <3>3
        <4> QED
          BY <1>3, <1>5, <2>2, <3>3, <4>1
      <3>4. CASE i \notin 1..Len(log) /\ j \notin 1..Len(log)
        <4>1. PICK m \in 1..Len(q) : i = Len(log) + m /\ p[i] = q[m]
          BY <3>0, <3>4
        <4>2. PICK n \in 1..Len(q) : j = Len(log) + n /\ p[j] = q[n]
          BY <3>0, <3>4
        <4>3. m = n
          BY <1>5, <2>2, <4>1, <4>2
        <4> QED
          BY <4>1, <4>2, <4>3
      <3> QED
        BY <3>1, <3>2, <3>3, <3>4
    <2> QED
      BY <2>1, <2>2 DEF Log!Linked
  <1>10. StateIsExact'
    <2>1. p # <<>> /\ p[Len(p)] = q[Len(q)]
      BY <1>3
    <2>2. count + Len(q) = Len(p)
      BY <1>3 DEF IInv, StateIsExact
    <2> QED
      BY <1>1, <1>4, <1>9, <2>1, <2>2 DEF StateIsExact, Log!Linked, Log!HashAfter
  <1>11. Continues'
    BY <1>6 DEF Continues
  <1>12. Log!Grow
    BY <1>1, <1>3, <1>9 DEF Log!Grow, Log!Extends, Log!Linked
  <1> QED
    BY <1>7, <1>8, <1>10, <1>11, <1>12 DEF IInv

(* The rows disappear and the lock is free. *)
LEMMA RollbackKeeps == ASSUME IInv, NEW t \in Txns, Rollback(t) PROVE IInv'
  <1>1. /\ pc' = [pc EXCEPT ![t] = "failed"] /\ mine' = [mine EXCEPT ![t] = <<>>]
        /\ holder' = IF holder = t THEN None ELSE holder
        /\ UNCHANGED <<now, log, head, count, at, left, prev>>
    BY DEF Rollback, Goto
  <1>2. TypeOK'
    BY <1>1 DEF IInv, TypeOK
  <1>3. OneWriter'
    BY <1>1 DEF IInv, TypeOK, OneWriter
  <1>4. StateIsExact'
    BY <1>1 DEF IInv, StateIsExact, Log!Linked, Log!HashAfter
  <1>5. Continues'
    BY <1>1 DEF IInv, TypeOK, Continues, LastHash
  <1> QED
    BY <1>2, <1>3, <1>4, <1>5 DEF IInv

(* Time passes, or nothing happens. *)
LEMMA TickKeeps == ASSUME IInv, Tick \/ UNCHANGED vars PROVE IInv'
  <1>1. /\ now' \in 0..MaxTime
        /\ UNCHANGED <<log, head, count, holder, pc, at, left, mine, prev>>
    BY AuditAssumption DEF AuditAssumption, Tick, vars, IInv, TypeOK
  <1> QED
    BY <1>1 DEF IInv, TypeOK, OneWriter, StateIsExact, Continues, LastHash, Log!Linked,
        Log!HashAfter

(* A step keeps the invariant and appends to the log or leaves it alone. *)
LEMMA NextKeeps == ASSUME IInv, [Next]_vars PROVE IInv' /\ (Log!Grow \/ UNCHANGED log)
  <1>1. ASSUME NEW t \in Txns, Begin(t) \/ ReadHead(t) \/ Rollback(t)
        PROVE  IInv' /\ UNCHANGED log
    BY <1>1, BeginKeeps, ReadHeadKeeps, RollbackKeeps DEF Begin, ReadHead, Rollback
  <1>2. ASSUME NEW t \in Txns, NEW id \in Ids, LinkRow(t, id)
        PROVE  IInv' /\ UNCHANGED log
    BY <1>2, LinkRowKeeps DEF LinkRow
  <1>3. ASSUME NEW t \in Txns, Commit(t)
        PROVE  IInv' /\ Log!Grow
    BY <1>3, CommitKeeps
  <1>4. CASE Tick \/ UNCHANGED vars
    BY <1>4, TickKeeps DEF Tick, vars
  <1> QED
    BY <1>1, <1>2, <1>3, <1>4 DEF Next, Step

(* The invariant holds in every state. *)
LEMMA Invariance == Spec => []IInv
  <1>1. IInv /\ [Next]_vars => IInv'
    BY NextKeeps
  <1> QED
    BY <1>1, InitInvariant, PTL DEF Spec

-----------------------------------------------------------------------------
(* TypeCorrect: every variable keeps its type, and no transaction inserts  *)
(* more rows than it was given.                                            *)
THEOREM TypeCorrect == Spec => []TypeOK
  BY Invariance, PTL DEF IInv

(* ChainIsAppendOnly: the audit log implements AppendOnlyLog.  However     *)
(* transactions of set_audit_log_hash overlap, fail and retry, what they   *)
(* commit is one chain without a fork or a gap, and it only grows.         *)
THEOREM ChainIsAppendOnly == Spec => AppendOnly
  <1>1. Init => Log!Init
    BY DEF Init, Log!Init
  <1>2. IInv /\ [Next]_vars => [Log!Grow]_log
    BY NextKeeps
  <1> QED
    BY <1>1, <1>2, Invariance, PTL DEF Spec, AppendOnly, Log!Spec

-----------------------------------------------------------------------------
(* Rows are of the time their transaction began, which is past.             *)
TimesArePast ==
  /\ \A i \in 1..Len(log) : log[i].at <= now
  /\ \A t \in Txns : at[t] <= now /\ \A i \in 1..Len(mine[t]) : mine[t][i].at <= now

(* No step makes a row of a time to come.                                   *)
LEMMA TimesStayPast == ASSUME IInv, TimesArePast, [Next]_vars PROVE TimesArePast'
  <1>1. /\ now \in Nat /\ log \in Seq(Row) /\ at \in [Txns -> 0..MaxTime]
        /\ mine \in [Txns -> Seq(Row)]
    BY AuditAssumption DEF IInv, TypeOK
  <1>2. ASSUME NEW t \in Txns, Begin(t) PROVE TimesArePast'
    BY <1>1, <1>2 DEF TimesArePast, Begin
  <1>3. ASSUME NEW t \in Txns, ReadHead(t) PROVE TimesArePast'
    BY <1>3 DEF TimesArePast, ReadHead
  <1>4. ASSUME NEW t \in Txns, NEW id \in Ids, LinkRow(t, id) PROVE TimesArePast'
    <2>1. PICK r : r = [id |-> id, prev |-> prev[t], at |-> at[t]]
      OBVIOUS
    <2>2. r \in Row /\ r.at <= now
      <3>1. prev[t] \in Ids \cup {Genesis} /\ at[t] \in 0..MaxTime
        BY DEF IInv, TypeOK
      <3> QED
        BY <2>1, <3>1 DEF Row, TimesArePast
    <2>3. mine' = [mine EXCEPT ![t] = Append(mine[t], r)] /\ UNCHANGED <<now, log, at>>
      BY <1>4, <2>1 DEF LinkRow
    <2>4. ASSUME NEW u \in Txns, NEW i \in 1..Len(mine'[u]) PROVE mine'[u][i].at <= now
      <3>1. CASE u # t
        BY <1>1, <2>3, <2>4, <3>1 DEF TimesArePast
      <3>2. CASE u = t
        <4>1. mine'[u] = Append(mine[t], r) /\ mine[t] \in Seq(Row)
          BY <1>1, <2>3, <3>2
        <4>2. CASE i <= Len(mine[t])
          BY <2>4, <4>1, <4>2 DEF TimesArePast
        <4>3. CASE i = Len(mine[t]) + 1
          BY <2>2, <4>1, <4>3
        <4> QED
          BY <2>4, <4>1, <4>2, <4>3
      <3> QED
        BY <3>1, <3>2
    <2> QED
      BY <2>3, <2>4 DEF TimesArePast
  <1>5. ASSUME NEW t \in Txns, Commit(t) PROVE TimesArePast'
    <2>1. log \in Seq(Row) /\ mine[t] \in Seq(Row) /\ log' = log \o mine[t]
      BY <1>1, <1>5 DEF Commit
    <2>2. ASSUME NEW i \in 1..Len(log') PROVE log'[i].at <= now
      <3>1. CASE i <= Len(log)
        BY <2>1, <2>2, <3>1 DEF TimesArePast
      <3>2. CASE i > Len(log)
        <4>1. i - Len(log) \in 1..Len(mine[t]) /\ log'[i] = mine[t][i - Len(log)]
          BY <2>1, <2>2, <3>2
        <4> QED
          BY <4>1 DEF TimesArePast
      <3> QED
        BY <2>1, <2>2, <3>1, <3>2
    <2>3. \A u \in Txns : mine'[u] = IF u = t THEN <<>> ELSE mine[u]
      BY <1>1, <1>5 DEF Commit
    <2>4. UNCHANGED <<now, at>>
      BY <1>5 DEF Commit
    <2> QED
      BY <2>2, <2>3, <2>4 DEF TimesArePast
  <1>6. ASSUME NEW t \in Txns, Rollback(t) PROVE TimesArePast'
    <2>1. \A u \in Txns : mine'[u] = IF u = t THEN <<>> ELSE mine[u]
      BY <1>1, <1>6 DEF Rollback
    <2> QED
      BY <1>6, <2>1 DEF TimesArePast, Rollback
  <1>7. CASE Tick
    <2>1. now' = now + 1 /\ UNCHANGED <<log, at, mine>>
      BY <1>7 DEF Tick
    <2>2. \A k \in Int : k <= now => k <= now'
      BY <1>1, <2>1
    <2>3. /\ \A i \in 1..Len(log) : log[i].at \in Int
          /\ \A t \in Txns : at[t] \in Int /\ \A i \in 1..Len(mine[t]) : mine[t][i].at \in Int
      <3>1. \A r \in Row : r.at \in Int
        BY DEF Row
      <3>2. \A i \in 1..Len(log) : log[i] \in Row
        BY <1>1
      <3>3. \A t \in Txns : at[t] \in Int /\ \A i \in 1..Len(mine[t]) : mine[t][i] \in Row
        BY <1>1
      <3> QED
        BY <3>1, <3>2, <3>3
    <2> QED
      BY <2>1, <2>2, <2>3 DEF TimesArePast
  <1>8. CASE UNCHANGED vars
    BY <1>8 DEF TimesArePast, vars
  <1> QED
    BY <1>2, <1>3, <1>4, <1>5, <1>6, <1>7, <1>8 DEF Next, Step

-----------------------------------------------------------------------------
(* The order of a period.                                                   *)

Earlier == {p \in (1..Len(log)) \X (1..Len(log)) : Before(log[p[1]], log[p[2]])}

(* What the rows of the log hold.                                           *)
LEMMA LogIsTyped ==
  ASSUME IInv
  PROVE  /\ Len(log) \in Nat
         /\ \A i \in 1..Len(log) : log[i].at \in Nat /\ log[i].id \in Ids /\ log[i].id \in Int
<1>1. log \in Seq(Row)
  BY DEF IInv, TypeOK
<1>2. ASSUME NEW r \in Row PROVE r.at \in Nat /\ r.id \in Ids /\ r.id \in Int
  <2>1. r.at \in 0..MaxTime /\ r.id \in Ids
    BY DEF Row
  <2>2. Ids \subseteq Nat /\ MaxTime \in Nat
    BY AuditAssumption
  <2>3. PICK a, b : a = r.at /\ b = r.id
    OBVIOUS
  <2>6. a \in 0..MaxTime /\ b \in Ids
    BY <2>1, <2>3, Zenon
  <2>7. a \in Nat
    BY <2>6, <2>2
  <2>8. b \in Nat
    BY <2>6, <2>2
  <2>4. a \in Nat /\ b \in Nat
    BY <2>7, <2>8
  <2>5. a \in Int /\ b \in Int
    BY <2>4
  <2> QED
    BY <2>1, <2>3, <2>4, <2>5, Zenon
<1>3. \A i \in 1..Len(log) : log[i] \in Row
  BY <1>1
<1> QED
  BY <1>1, <1>2, <1>3

(* ORDER BY timestamp, id orders all rows: no two have one id.              *)
LEMMA RowsAreOrdered ==
  ASSUME IInv, NEW W \in SUBSET (1..Len(log))
  PROVE  Orders(Earlier, W) /\ IsFiniteSet(W) /\ Cardinality(W) \in Nat
<1>1. \A i \in 1..Len(log) : log[i].at \in Int /\ log[i].id \in Int
  BY LogIsTyped
<1>2. \A i, j \in 1..Len(log) : log[i].id = log[j].id => i = j
  BY DEF IInv, StateIsExact, Log!Linked
<1>3. \A i, j \in 1..Len(log) : <<i, j>> \in Earlier <=> Before(log[i], log[j])
  BY DEF Earlier
<1>4. \A i, j \in 1..Len(log) : i = j \/ Before(log[i], log[j]) \/ Before(log[j], log[i])
  BY <1>1, <1>2 DEF Before
<1>5. \A i, j \in 1..Len(log) : ~(Before(log[i], log[j]) /\ Before(log[j], log[i]))
  BY <1>1 DEF Before
<1>6. \A i, j, k \in 1..Len(log) :
        Before(log[i], log[j]) /\ Before(log[j], log[k]) => Before(log[i], log[k])
  BY <1>1 DEF Before
<1>7. IsFiniteSet(1..Len(log))
  BY LogIsTyped, FS_Interval
<1>8. IsFiniteSet(W) /\ Cardinality(W) \in Nat
  BY <1>7, FS_Subset, FS_CardinalityType
<1> QED
  BY <1>3, <1>4, <1>5, <1>6, <1>8 DEF Orders, OneWay

(* The order of the period, as a relation.                                  *)
LEMMA SortsFollows ==
  ASSUME IInv, NEW W \in SUBSET (1..Len(log)), NEW s \in [1..Cardinality(W) -> W]
  PROVE  (\A i, j \in DOMAIN s : i < j => Before(log[s[i]], log[s[j]])) <=> Follows(s, Earlier)
<1>1. \A i \in DOMAIN s : s[i] \in W /\ s[i] \in 1..Len(log)
  OBVIOUS
<1>2. \A i, j \in W : <<i, j>> \in Earlier <=> Before(log[i], log[j])
  BY DEF Earlier
<1>3. \A i, j \in W : <<i, j>> \in Earlier => i # j
  BY RowsAreOrdered DEF Orders, OneWay
<1> QED
  BY <1>1, <1>2, <1>3 DEF Follows

(* There is a sequence in that order, and the verification walks it.        *)
LEMMA PeriodIsSorted ==
  ASSUME IInv, NEW from, NEW to
  PROVE  \E s \in [1..Cardinality(Window(from, to)) -> Window(from, to)] :
           /\ Follows(s, Earlier)
           /\ Chronological(from, to) = [k \in DOMAIN s |-> log[s[k]]]
<1> DEFINE W == Window(from, to)
           good(s) == \A i, j \in DOMAIN s : i < j => Before(log[s[i]], log[s[j]])
           s == CHOOSE s \in [1..Cardinality(W) -> W] : good(s)
<1>1. Chronological(from, to) = [k \in DOMAIN s |-> log[s[k]]]
  BY DEF Chronological
<1>2. W \in SUBSET (1..Len(log))
  BY DEF Window
<1> HIDE DEF W
<1>3. PICK r \in [1..Cardinality(W) -> W] : Follows(r, Earlier)
  BY <1>2, RowsAreOrdered, SetCanBeSorted
<1>4. good(r)
  BY <1>2, <1>3, SortsFollows
<1> HIDE DEF good
<1>5. s \in [1..Cardinality(W) -> W] /\ good(s)
  BY <1>4
<1> HIDE DEF s
<1>6. Follows(s, Earlier)
  BY <1>2, <1>5, SortsFollows DEF good
<1> QED
  BY <1>1, <1>5, <1>6 DEF W

(* Rows that verify are the first of the log, in its order: the first names *)
(* the hash before all rows, and each the row that it follows in the log.   *)
LEMMA ValidIsPrefix ==
  ASSUME IInv, NEW n \in Nat, NEW s \in [1..n -> 1..Len(log)],
         Invalid([k \in DOMAIN s |-> log[s[k]]]) = {}
  PROVE  \A k \in 1..n : s[k] = k
<1>1. /\ \A i \in 1..Len(log) : log[i].prev = IF i = 1 THEN Genesis ELSE log[i - 1].id
      /\ \A i, j \in 1..Len(log) : log[i].id = log[j].id => i = j
      /\ \A i \in 1..Len(log) : log[i].id # Genesis
  BY LogIsTyped, AuditAssumption DEF AuditAssumption, IInv, StateIsExact, Log!Linked
<1>2. PICK q : q = [k \in 1..n |-> log[s[k]]]
  OBVIOUS
<1>3. DOMAIN q = 1..n /\ \A k \in 1..n : q[k] = log[s[k]]
  BY <1>2
<1>4. Invalid(q) = {}
  BY <1>2
<1>5. \A k \in 1..n : q[k].prev = IF k = 1 THEN Genesis ELSE q[k - 1].id
  BY <1>3, <1>4 DEF Invalid
<1> DEFINE S == {k \in Nat : k \in 1..n => s[k] = k}
<1>6. 0 \in S
  OBVIOUS
<1>7. ASSUME NEW k \in Nat, k \in S PROVE k + 1 \in S
  <2>1. SUFFICES ASSUME k + 1 \in 1..n PROVE s[k + 1] = k + 1
    OBVIOUS
  <2>2. s[k + 1] \in 1..Len(log) /\ Len(log) \in Nat
    BY <2>1, LogIsTyped
  <2>3. CASE k = 0
    <3>1. log[s[1]].prev = Genesis
      BY <1>3, <1>5, <2>1, <2>3
    <3>2. s[1] \in 1..Len(log) /\ (s[1] # 1 => s[1] - 1 \in 1..Len(log))
      BY <2>2, <2>3
    <3>3. s[1] = 1
      BY <1>1, <3>1, <3>2
    <3> QED
      BY <2>3, <3>3
  <2>4. CASE k > 0
    <3>1. k \in 1..n /\ s[k] = k /\ k \in 1..Len(log) /\ k + 1 # 1 /\ (k + 1) - 1 = k
      BY <1>7, <2>1, <2>4
    <3>2. q[k + 1].prev = q[k].id
      BY <1>5, <2>1, <3>1
    <3>3. log[s[k + 1]].prev = log[k].id
      BY <1>3, <2>1, <3>1, <3>2
    <3>4. s[k + 1] # 1
      BY <1>1, <2>2, <3>1, <3>3
    <3>5. s[k + 1] - 1 \in 1..Len(log)
      BY <2>2, <3>4
    <3>6. s[k + 1] - 1 = k
      BY <1>1, <2>2, <3>1, <3>3, <3>4, <3>5
    <3> QED
      BY <2>2, <3>6
  <2> QED
    BY <2>3, <2>4
<1> HIDE DEF S
<1>8. Nat \subseteq S
  BY <1>6, <1>7, SetInduction
<1> QED
  BY <1>8 DEF S

(* So a period from the beginning that verifies is a prefix of the log.     *)
LEMMA VerifiedWhole ==
  ASSUME IInv, NEW to, IsValid(0, to)
  PROVE  \A i \in Window(0, to) : \A j \in 1..i : j \in Window(0, to)
<1>1. PICK W \in SUBSET (1..Len(log)) : W = Window(0, to)
  BY DEF Window
<1>2. PICK n \in Nat : n = Cardinality(W)
  BY RowsAreOrdered
<1>3. PICK s \in [1..n -> W] : /\ Follows(s, Earlier)
                               /\ Chronological(0, to) = [k \in DOMAIN s |-> log[s[k]]]
  BY <1>1, <1>2, PeriodIsSorted
<1>4. \A k \in 1..n : s[k] = k
  <2>1. s \in [1..n -> 1..Len(log)]
    OBVIOUS
  <2>2. Invalid([k \in DOMAIN s |-> log[s[k]]]) = {}
    BY <1>3 DEF IsValid
  <2> QED
    BY <2>1, <2>2, ValidIsPrefix
<1>5. \A x \in W : \E k \in 1..n : s[k] = x
  <2>1. IsInjective(s)
    BY <1>3, FollowsOnce
  <2> QED
    BY <1>2, <2>1, RowsAreOrdered, InjectiveIsOnto
<1>6. ASSUME NEW i \in W, NEW j \in 1..i PROVE j \in W
  <2>1. i \in 1..n
    BY <1>4, <1>5
  <2>2. j \in 1..n
    BY <2>1
  <2> QED
    BY <1>4, <2>2
<1> QED
  BY <1>1, <1>6

(* Everything is in the period that ends now.                               *)
LEMMA NowIsAll ==
  ASSUME IInv, TimesArePast
  PROVE  Window(0, now) = 1..Len(log) /\ Cardinality(1..Len(log)) = Len(log)
<1>1. now \in Nat
  BY AuditAssumption DEF AuditAssumption, IInv, TypeOK
<1>2. \A i \in 1..Len(log) : log[i].at \in 0..now
  BY <1>1, LogIsTyped DEF TimesArePast
<1> QED
  <2>1. Window(0, now) = 1..Len(log)
    BY <1>2 DEF Window
  <2>2. PICK n \in Nat : n = Len(log)
    BY LogIsTyped
  <2>3. Cardinality(1..n) = n
    BY FS_Interval
  <2> QED
    BY <2>1, <2>2, <2>3

(* From neighbours to any two.                                              *)
LEMMA NeighboursSuffice ==
  ASSUME NEW n \in Nat, NEW R, Orders(R, 1..n), \A i \in 1..(n - 1) : <<i, i + 1>> \in R,
         NEW i \in 1..n, NEW j \in 1..n, i < j
  PROVE  <<i, j>> \in R
<1> DEFINE S == {d \in Nat : i + d + 1 <= n => <<i, i + d + 1>> \in R}
<1>1. 0 \in S
  <2>1. i + 0 + 1 <= n => i \in 1..(n - 1) /\ i + 0 + 1 = i + 1
    OBVIOUS
  <2> QED
    BY <2>1
<1>2. ASSUME NEW d \in Nat, d \in S PROVE d + 1 \in S
  <2>1. SUFFICES ASSUME i + (d + 1) + 1 <= n PROVE <<i, i + (d + 1) + 1>> \in R
    OBVIOUS
  <2>2. PICK k \in 1..(n - 1) : k = i + d + 1
    BY <2>1
  <2>3. <<i, k>> \in R /\ <<k, k + 1>> \in R
    BY <1>2, <2>1, <2>2
  <2>4. k \in 1..n /\ k + 1 \in 1..n /\ i + (d + 1) + 1 = k + 1
    BY <2>2
  <2>5. <<i, k + 1>> \in R
    BY <2>3, <2>4 DEF Orders
  <2> QED
    BY <2>4, <2>5
<1> HIDE DEF S
<1>3. Nat \subseteq S
  BY <1>1, <1>2, SetInduction
<1>4. PICK d \in Nat : j = i + d + 1
  <2>1. j - i - 1 \in Nat /\ j = i + (j - i - 1) + 1
    OBVIOUS
  <2> QED
    BY <2>1
<1>5. d \in S /\ i + d + 1 <= n
  BY <1>3, <1>4
<1>6. <<i, i + d + 1>> \in R
  BY <1>5 DEF S
<1> QED
  BY <1>4, <1>6

(* The whole log verifies iff its order is that of the timestamps and ids.  *)
LEMMA VerdictOfOrder ==
  ASSUME IInv, TimesArePast
  PROVE  VerdictIsOrder
<1>1. PICK n \in Nat : n = Len(log)
  BY LogIsTyped
<1>2. PICK W \in SUBSET (1..Len(log)) : W = 1..n
  BY <1>1
<1>3. Window(0, now) = W /\ Cardinality(W) = n
  BY <1>1, <1>2, NowIsAll
<1>4. PICK s \in [1..n -> W] : /\ Follows(s, Earlier)
                               /\ Chronological(0, now) = [k \in DOMAIN s |-> log[s[k]]]
  <2>1. PICK to : to = now
    OBVIOUS
  <2>2. Window(0, to) = W
    BY <1>3, <2>1
  <2>3. PICK s \in [1..Cardinality(Window(0, to)) -> Window(0, to)] :
          /\ Follows(s, Earlier)
          /\ Chronological(0, to) = [k \in DOMAIN s |-> log[s[k]]]
    BY PeriodIsSorted
  <2> QED
    BY <1>3, <2>1, <2>2, <2>3
<1>5. Orders(Earlier, W) /\ IsFiniteSet(W)
  BY RowsAreOrdered
<1>6. \A i, j \in 1..n : <<i, j>> \in Earlier <=> Before(log[i], log[j])
  BY <1>1 DEF Earlier
<1>7. ASSUME IsValid(0, now), NEW i \in 1..(n - 1) PROVE Before(log[i], log[i + 1])
  <2>1. \A k \in 1..n : s[k] = k
    <3>1. s \in [1..n -> 1..Len(log)]
      OBVIOUS
    <3>2. Invalid([k \in DOMAIN s |-> log[s[k]]]) = {}
      BY <1>4, <1>7 DEF IsValid
    <3> QED
      BY <3>1, <3>2, ValidIsPrefix
  <2>2. i \in 1..n /\ i + 1 \in 1..n /\ i < i + 1
    OBVIOUS
  <2>3. <<s[i], s[i + 1]>> \in Earlier
    BY <1>4, <2>2 DEF Follows
  <2> QED
    BY <1>6, <2>1, <2>2, <2>3
<1>8. ASSUME \A i \in 1..(n - 1) : Before(log[i], log[i + 1])
      PROVE  IsValid(0, now)
  <2>1. \A i \in 1..(n - 1) : <<i, i + 1>> \in Earlier
    <3>1. \A i \in 1..(n - 1) : i \in 1..n /\ i + 1 \in 1..n
      OBVIOUS
    <3> QED
      BY <1>6, <1>8, <3>1
  <2>2. \A i, j \in 1..n : i < j => <<i, j>> \in Earlier
    BY <1>2, <1>5, <2>1, NeighboursSuffice
  <2>3. PICK inOrder \in [1..n -> W] : \A k \in 1..n : inOrder[k] = k
    <3>1. [k \in 1..n |-> k] \in [1..n -> W]
      BY <1>2
    <3> QED
      BY <3>1
  <2>4. Follows(inOrder, Earlier)
    BY <2>2, <2>3 DEF Follows
  <2>5. OneWay(Earlier, W)
    BY <1>5 DEF Orders
  <2>6. ASSUME NEW k \in 1..n PROVE s[k] = k
    <3>1. PICK i \in 1..n : i = s[k]
      BY <1>2
    <3>2. PICK B : B = {x \in W : <<x, i>> \in Earlier}
      OBVIOUS
    <3>3. Cardinality(B) = k - 1
      BY <1>3, <1>4, <1>5, <2>5, <3>1, <3>2, SortedByRank
    <3>4. Cardinality(B) = i - 1
      BY <1>3, <1>5, <2>3, <2>4, <2>5, <3>2, SortedByRank
    <3> QED
      BY <3>1, <3>3, <3>4
  <2>7. PICK q : q = [k \in 1..n |-> log[s[k]]]
    OBVIOUS
  <2>8. DOMAIN q = 1..n /\ \A k \in 1..n : q[k] = log[k]
    BY <2>6, <2>7
  <2>9. \A k \in 1..n : q[k].prev = IF k = 1 THEN Genesis ELSE q[k - 1].id
    <3>1. \A k \in 1..n : k # 1 => k - 1 \in 1..n
      OBVIOUS
    <3> QED
      BY <1>1, <2>8, <3>1 DEF IInv, StateIsExact, Log!Linked
  <2>10. Invalid(q) = {}
    BY <2>8, <2>9 DEF Invalid
  <2> QED
    BY <1>4, <2>7, <2>10 DEF IsValid
<1> QED
  BY <1>1, <1>7, <1>8 DEF VerdictIsOrder

(* Both hold in every state.                                                *)
LEMMA VerificationInvariance == Spec => [](IInv /\ TimesArePast)
<1>1. Init => TimesArePast
  BY AuditAssumption DEF AuditAssumption, Init, TimesArePast
<1>2. IInv /\ TimesArePast /\ [Next]_vars => IInv' /\ TimesArePast'
  BY NextKeeps, TimesStayPast
<1> QED
  BY <1>1, <1>2, InitInvariant, PTL DEF Spec

(* VerifiedPeriodsAreWhole: whatever transactions overlapped, a period from *)
(* the beginning that verify_audit_chain_integrity finds valid leaves out   *)
(* no row that was committed before one it has.                             *)
THEOREM VerifiedPeriodsAreWhole == Spec => []VerifiedIsWhole
<1>1. IInv => VerifiedIsWhole
  BY VerifiedWhole DEF VerifiedIsWhole
<1> QED
  BY <1>1, Invariance, PTL

(* VerdictsTellTheOrder: of a log that only the service wrote, the verdict  *)
(* is whether the commits were in the order of the timestamps and ids.      *)
THEOREM VerdictsTellTheOrder == Spec => []VerdictIsOrder
  BY VerdictOfOrder, VerificationInvariance, PTL
=============================================================================
