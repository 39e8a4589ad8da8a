----------------------------- MODULE AuditChain -----------------------------
(***************************************************************************)
(* Writing the audit log: the transactions of AuditService and of the      *)
(* retention job insert rows, and the trigger set_audit_log_hash links     *)
(* each row to the last hash it finds in hash_chain_state.  One action is  *)
(* one statement, or the part of one between two waits for a lock.  Hashes *)
(* do not collide, so a row's hash is named by its id.                     *)
(***************************************************************************)
EXTENDS Integers, Sequences

CONSTANTS
  Ids,      \* what gen_random_uuid returns, as numbers: ORDER BY id compares them
  Txns,     \* transactions that insert; each runs once
  Genesis,  \* sixty-four zeros
  None,     \* nobody holds the lock
  Rows,     \* Rows[t]: how many rows t inserts, several for createBulkAuditLogs
  MaxTime   \* bound: ticks of the database's clock

ASSUME AuditAssumption ==
  /\ Ids \subseteq Nat
  /\ Genesis \notin Ids
  /\ None \notin Txns
  /\ Rows \in [Txns -> Nat \ {0}]
  /\ MaxTime \in Nat

VARIABLES
  now,     \* now     : the clock of the database
  log,     \* log     : the committed rows of audit_logs, in the order of their commits
  head,    \* head    : hash_chain_state.last_hash, as committed
  count,   \* count   : hash_chain_state.last_sequence_number, as committed
  holder,  \* holder  : the transaction that has locked the row of hash_chain_state
  pc,      \* pc[t]   : the statement transaction t is at
  at,      \* at[t]   : NOW() in t, the time it began
  left,    \* left[t] : rows t has still to insert
  mine,    \* mine[t] : rows t has inserted and not committed
  prev     \* prev[t] : what the trigger of t read as the last hash

vars == <<now, log, head, count, holder, pc, at, left, mine, prev>>

Log == INSTANCE AppendOnlyLog WITH log <- log, Genesis <- Genesis

Row == [id : Ids, prev : Ids \cup {Genesis}, at : 0..MaxTime]

Init ==
  /\ now = 0
  /\ log = <<>>
  /\ head = Genesis
  /\ count = 0
  /\ holder = None
  /\ pc = [t \in Txns |-> "idle"]
  /\ at = [t \in Txns |-> 0]
  /\ left = [t \in Txns |-> 0]
  /\ mine = [t \in Txns |-> <<>>]
  /\ prev = [t \in Txns |-> Genesis]

Goto(t, to) == pc' = [pc EXCEPT ![t] = to]

Free(t) == holder \in {None, t}

(* last_hash as transaction t sees it: its own update, or what is committed *)
LastHash(t) == IF mine[t] = <<>> THEN head ELSE mine[t][Len(mine[t])].id

Taken(id) ==
  \/ \E i \in 1..Len(log) : log[i].id = id
  \/ \E t \in Txns : \E i \in 1..Len(mine[t]) : mine[t][i].id = id

(* BEGIN: one row (createAuditLog, the retention job) or several (bulk). *)
Begin(t) ==
  /\ pc[t] = "idle"
  /\ at' = [at EXCEPT ![t] = now]
  /\ left' = [left EXCEPT ![t] = Rows[t]]
  /\ Goto(t, "insert")
  /\ UNCHANGED <<now, log, head, count, holder, mine, prev>>

(* mutant: SELECT last_hash without FOR UPDATE *)
ReadHeadUnlocked(t) ==
  /\ pc[t] = "insert"
  /\ prev' = [prev EXCEPT ![t] = LastHash(t)]
  /\ Goto(t, "link")
  /\ UNCHANGED <<now, log, head, count, holder, at, left, mine>>

(* The trigger: SELECT last_hash ... FOR UPDATE waits for whoever updated   *)
(* it and then reads what that transaction committed.                      *)
ReadHead(t) ==
  /\ pc[t] = "insert"
  /\ Free(t)
  /\ holder' = t
  /\ prev' = [prev EXCEPT ![t] = LastHash(t)]
  /\ Goto(t, "link")
  /\ UNCHANGED <<now, log, head, count, at, left, mine>>

(* The trigger links the row and updates last_hash, under the same lock;   *)
(* the INSERT ends, and the loop goes on.                                  *)
LinkRow(t, id) ==
  /\ pc[t] = "link"
  /\ Free(t)
  /\ ~Taken(id)
  /\ holder' = t
  /\ mine' = [mine EXCEPT ![t] = Append(@, [id |-> id, prev |-> prev[t], at |-> at[t]])]
  /\ left' = [left EXCEPT ![t] = @ - 1]
  /\ Goto(t, IF left[t] > 1 THEN "insert" ELSE "commit")
  /\ UNCHANGED <<now, log, head, count, at, prev>>

Commit(t) ==
  /\ pc[t] = "commit"
  /\ log' = log \o mine[t]
  /\ head' = LastHash(t)
  /\ count' = count + Len(mine[t])
  /\ holder' = None
  /\ mine' = [mine EXCEPT ![t] = <<>>]
  /\ Goto(t, "done")
  /\ UNCHANGED <<now, at, left, prev>>

(* mutant: the client goes back to the pool without ROLLBACK *)
RollbackForgotten(t) ==
  /\ pc[t] \in {"insert", "link", "commit"}
  /\ mine' = [mine EXCEPT ![t] = <<>>]
  /\ Goto(t, "failed")
  /\ UNCHANGED <<now, log, head, count, holder, at, left, prev>>

(* An unknown event type, a missing field, a lost connection. *)
Rollback(t) ==
  /\ pc[t] \in {"insert", "link", "commit"}
  /\ mine' = [mine EXCEPT ![t] = <<>>]
  /\ holder' = IF holder = t THEN None ELSE holder
  /\ Goto(t, "failed")
  /\ UNCHANGED <<now, log, head, count, at, left, prev>>

Tick ==
  /\ now < MaxTime
  /\ now' = now + 1
  /\ UNCHANGED <<log, head, count, holder, pc, at, left, mine, prev>>

Step(t) == ReadHead(t) \/ (\E id \in Ids : LinkRow(t, id)) \/ Commit(t)

Next ==
  \/ \E t \in Txns : Begin(t) \/ Step(t) \/ Rollback(t)
  \/ Tick

Spec == Init /\ [][Next]_vars

(* The database answers every statement it can, in the order it was asked. *)
FairSpec == Spec /\ \A t \in Txns : WF_vars(Step(t))

-----------------------------------------------------------------------------
(* TypeOK: every variable keeps its type; no transaction inserts more rows *)
(* than it was given.                                                      *)
TypeOK ==
  /\ now \in 0..MaxTime
  /\ log \in Seq(Row)
  /\ head \in Ids \cup {Genesis}
  /\ count \in Nat
  /\ holder \in Txns \cup {None}
  /\ pc \in [Txns -> {"idle", "insert", "link", "commit", "done", "failed"}]
  /\ at \in [Txns -> 0..MaxTime]
  /\ left \in [Txns -> Nat] /\ \A t \in Txns : left[t] <= Rows[t]
  /\ mine \in [Txns -> Seq(Row)]
  /\ prev \in [Txns -> Ids \cup {Genesis}]

(* AppendOnly (requirements.md:78): whatever transactions overlap and fail, *)
(* what is committed is one chain that only grows at its end: no two rows  *)
(* name the same predecessor and no row names one that was rolled back.    *)
AppendOnly == Log!Spec

(* TransactionsEnd: nobody waits for the lock on hash_chain_state for ever, *)
(* although a bulk holds it from its first row to its end.                 *)
TransactionsEnd == \A t \in Txns : pc[t] = "insert" ~> pc[t] \in {"done", "failed"}
=============================================================================
