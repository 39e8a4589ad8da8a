---------------------------- MODULE DatabasePool ----------------------------
(***************************************************************************)
(* The connection pool and those who take clients from it: queries,        *)
(* transactions, the health check of the readiness probe, and a request    *)
(* under the GDPR that runs queries of the pool while it holds a client of *)
(* its own.  A call that finds no client waits for its turn until          *)
(* connectionTimeoutMillis have passed.                                    *)
(***************************************************************************)
EXTENDS Naturals, Sequences, FiniteSets, SequencesExt

CONSTANTS
  DbClients,  \* what the pool may open: max of them
  DbCalls,    \* calls under way at once
  MaxColumns  \* bound: columns of the inventory that one request looks into

ASSUME ColumnsAssumption == MaxColumns \in Nat

VARIABLES
  opened,     \* opened     : clients of the pool, connected
  spare,      \* spare      : those that are idle
  queue,      \* queue      : calls waiting for a client, in order
  dbCall,     \* dbCall[c]  : the kind of the call, where it is, the clients it holds,
              \*              the columns it has still to look into
  forgotten   \* forgotten  : clients that a failed health check never gave back

poolVars == <<opened, spare, queue, dbCall, forgotten>>

NoCall == [kind |-> "none", at |-> "rest", holds |-> {}, left |-> 0]

(* createConnectionPool: clients are opened when they are asked for *)
PoolInit ==
  /\ opened = {}
  /\ spare = {}
  /\ queue = <<>>
  /\ dbCall = [c \in DbCalls |-> NoCall]
  /\ forgotten = {}

CallAt(c, at) == dbCall[c].at = at
CallGo(c, at) == dbCall' = [dbCall EXCEPT ![c].at = at]
Waits(c) == c \in Range(queue)

(* pool.connect: a call stands in the queue, where it may be served at once *)
Begins(c, kind) ==
  /\ CallAt(c, "rest")
  /\ dbCall' = [dbCall EXCEPT ![c].kind = kind, ![c].at = "connect"]
  /\ queue' = Append(queue, c)
  /\ UNCHANGED <<opened, spare, forgotten>>

(* where a call is that has got the client it asked for *)
Granted(at) ==
  CASE at = "connect" -> "granted"
    [] at = "inventory" -> "inventory granted"
    [] at = "column" -> "column granted"

(* an idle client, or a new one while there are fewer than max *)
Available == IF spare # {} THEN spare ELSE DbClients \ opened
Serve ==
  /\ queue # <<>>
  /\ \E k \in Available :
       LET c == Head(queue)
       IN  /\ opened' = opened \cup {k}
           /\ spare' = spare \ {k}
           /\ dbCall' = [dbCall EXCEPT ![c].at = Granted(@),
                                       ![c].holds = @ \cup {k}]
  /\ queue' = Tail(queue)
  /\ UNCHANGED forgotten

(* mutant: no limit to the wait *)
WaitsOn(c) ==
  /\ Waits(c)
  /\ UNCHANGED poolVars

(* connectionTimeoutMillis have passed.  Outside of a transaction the call *)
(* has failed; inside of one the query of the inventory throws, which rolls *)
(* back, and that of a column is passed over, its client still held.       *)
GivesUp(call) ==
  CASE call.at = "connect" -> NoCall
    [] call.at = "inventory" -> [call EXCEPT !.at = "rollback"]
    [] call.at = "column" -> [call EXCEPT !.at = "search"]
TimesOut(c) ==
  /\ Waits(c)
  /\ queue' = RemoveFirst(queue, c)
  /\ dbCall' = [dbCall EXCEPT ![c] = GivesUp(@)]
  /\ UNCHANGED <<opened, spare, forgotten>>

(* release: back to the pool, or closed after an error of pool.query *)
GivesBack(k) == spare' = spare \cup {k} /\ UNCHANGED opened
Closes(k) == opened' = opened \ {k} /\ UNCHANGED spare

-----------------------------------------------------------------------------
(* query *)
Query(c) == Begins(c, "query")
QueryRuns(c) ==
  /\ dbCall[c].kind = "query" /\ CallAt(c, "granted")
  /\ \E k \in dbCall[c].holds : GivesBack(k) \/ Closes(k)
  /\ dbCall' = [dbCall EXCEPT ![c] = NoCall]
  /\ UNCHANGED <<queue, forgotten>>

(* healthCheck: when SELECT 1 fails, nothing releases the client *)
HealthCheck(c) == Begins(c, "check")
CheckRuns(c) ==
  /\ dbCall[c].kind = "check" /\ CallAt(c, "granted")
  /\ \E k \in dbCall[c].holds :
       \/ GivesBack(k) /\ UNCHANGED forgotten
       \/ forgotten' = forgotten \cup {k} /\ UNCHANGED <<opened, spare>>
  /\ dbCall' = [dbCall EXCEPT ![c] = NoCall]
  /\ UNCHANGED queue

(* transaction: BEGIN, the callback, COMMIT, any of which may fail *)
Transaction(c) == Begins(c, "transaction")
CallbackRuns(c) ==
  /\ dbCall[c].kind = "transaction" /\ CallAt(c, "granted")
  /\ CallGo(c, "release") \/ CallGo(c, "rollback")
  /\ UNCHANGED <<opened, spare, queue, forgotten>>

(* mutant: the error is thrown before the client is given back *)
RollbackThrows(c) ==
  /\ CallAt(c, "rollback")
  /\ CallGo(c, "release") \/ dbCall' = [dbCall EXCEPT ![c] = NoCall]
  /\ UNCHANGED <<opened, spare, queue, forgotten>>

(* ROLLBACK: its own failure is thrown as well, after finally *)
RollsBack(c) ==
  /\ CallAt(c, "rollback")
  /\ CallGo(c, "release")
  /\ UNCHANGED <<opened, spare, queue, forgotten>>

Releases(c) ==
  /\ CallAt(c, "release")
  /\ \E k \in dbCall[c].holds : GivesBack(k)
  /\ dbCall' = [dbCall EXCEPT ![c] = NoCall]
  /\ UNCHANGED <<queue, forgotten>>

-----------------------------------------------------------------------------
(* processDataSubjectRequest: the transaction keeps its client while       *)
(* identifyPersonalDataForSubject asks the pool for others, one after the  *)
(* other: for the inventory, then for each column it may find the subject in *)
ProcessRequest(c) == Begins(c, "process")

(* the request is read; it need not be searched for, or may not be there *)
ReadsRequest(c) ==
  /\ dbCall[c].kind = "process" /\ CallAt(c, "granted")
  /\ \/ CallGo(c, "inventory") /\ queue' = Append(queue, c)
     \/ (CallGo(c, "release") \/ CallGo(c, "rollback")) /\ UNCHANGED queue
  /\ UNCHANGED <<opened, spare, forgotten>>

(* getPersonalDataInventory: when it throws, so does the transaction *)
InventoryRuns(c) ==
  /\ CallAt(c, "inventory granted")
  /\ \E k \in dbCall[c].holds, n \in 0..MaxColumns :
       \/ /\ GivesBack(k)
          /\ dbCall' = [dbCall EXCEPT ![c].holds = @ \ {k}, ![c].at = "search", ![c].left = n]
       \/ /\ Closes(k)
          /\ dbCall' = [dbCall EXCEPT ![c].holds = @ \ {k}, ![c].at = "rollback"]
  /\ UNCHANGED <<queue, forgotten>>

NextColumn(c) ==
  /\ CallAt(c, "search") /\ dbCall[c].left > 0
  /\ dbCall' = [dbCall EXCEPT ![c].at = "column", ![c].left = @ - 1]
  /\ queue' = Append(queue, c)
  /\ UNCHANGED <<opened, spare, forgotten>>

(* the query of a column: whether it answers or throws, the search goes on *)
ColumnRuns(c) ==
  /\ CallAt(c, "column granted")
  /\ \E k \in dbCall[c].holds :
       /\ GivesBack(k) \/ Closes(k)
       /\ dbCall' = [dbCall EXCEPT ![c].holds = @ \ {k}, ![c].at = "search"]
  /\ UNCHANGED <<queue, forgotten>>

(* the deletions, the update of the request and COMMIT, with its own client *)
ProcessEnds(c) ==
  /\ CallAt(c, "search") /\ dbCall[c].left = 0
  /\ CallGo(c, "release") \/ CallGo(c, "rollback")
  /\ UNCHANGED <<opened, spare, queue, forgotten>>

-----------------------------------------------------------------------------
(* an idle client is closed after idleTimeoutMillis *)
Retire(k) ==
  /\ k \in spare
  /\ spare' = spare \ {k}
  /\ opened' = opened \ {k}
  /\ UNCHANGED <<queue, dbCall, forgotten>>

PoolStep(c) ==
  \/ QueryRuns(c) \/ CheckRuns(c) \/ CallbackRuns(c) \/ RollsBack(c) \/ Releases(c)
  \/ ReadsRequest(c) \/ InventoryRuns(c) \/ NextColumn(c) \/ ColumnRuns(c) \/ ProcessEnds(c)

PoolNext ==
  \/ Serve
  \/ \E c \in DbCalls :
       \/ Query(c) \/ HealthCheck(c) \/ Transaction(c) \/ ProcessRequest(c)
       \/ PoolStep(c) \/ TimesOut(c)
  \/ \E k \in DbClients : Retire(k)

(* The database answers or refuses every statement within its time-out,    *)
(* and timers fire.  Nobody has to be served.                              *)
PoolFairness ==
  \A c \in DbCalls : WF_poolVars(PoolStep(c)) /\ WF_poolVars(TimesOut(c))

PoolSpec == PoolInit /\ [][PoolNext]_poolVars

-----------------------------------------------------------------------------
(* ClientsAreReturned: whatever statement fails, in whichever call, a      *)
(* client that is open is idle, or in the hands of exactly one call that   *)
(* is under way, or was lost by a failed health check, the one path        *)
(* without a finally (databaseService healthCheck).                        *)
ClientsAreReturned ==
  \A k \in opened :
    Cardinality({c \in DbCalls : k \in dbCall[c].holds})
      + (IF k \in spare THEN 1 ELSE 0) + (IF k \in forgotten THEN 1 ELSE 0) = 1

(* EveryCallEnds: calls that hold a client and wait for a second one can   *)
(* have taken all clients, and health checks can have lost them all, yet   *)
(* every call ends.  One that waits gives up, and if it waited for a column *)
(* it asks again for the next, its own client still in its hands; it gives *)
(* it back after the last (connectionTimeoutMillis, the catch around the   *)
(* column's query, the catch and the finally of the transaction).          *)
EveryCallEnds == \A c \in DbCalls : dbCall[c].at # "rest" ~> dbCall[c].at = "rest"
=============================================================================
