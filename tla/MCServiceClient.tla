--------------------------- MODULE MCServiceClient ---------------------------
(***************************************************************************)
(* Instances for TLC of what waits for an answer or a connection: calls of *)
(* a service client, requests through the gateway, calls of the database   *)
(* pool.  They share no state, so each moves by itself: focus is the one   *)
(* that does.  The others rest, and nothing is owed to them.               *)
(***************************************************************************)
EXTENDS ServiceClient, Gateway, DatabasePool

CONSTANTS c1, c2, c3, i1, i2, r1, r2, k1, k2

VARIABLE focus

ThreeCalls == {c1, c2, c3}

allVars == <<focus, vars, gatewayVars, poolVars>>

Client(A) == focus = "client" /\ A /\ UNCHANGED <<focus, gatewayVars, poolVars>>
Proxy(A) == focus = "gateway" /\ A /\ UNCHANGED <<focus, vars, poolVars>>
Pool(A) == focus = "pool" /\ A /\ UNCHANGED <<focus, vars, gatewayVars>>

AllInit ==
  /\ focus \in {"client", "gateway", "pool"}
  /\ up \in [Instances -> (IF focus = "gateway" THEN BOOLEAN ELSE {FALSE})]
  /\ Init /\ GatewayInit /\ PoolInit

AllNext == Client(Next) \/ Proxy(GatewayNext) \/ Pool(PoolNext)

(* BusySpec *)
ClientFairness ==
  /\ WF_allVars(Client(Tick))
  /\ \A c \in Calls :
       /\ WF_allVars(Client(Retry(c))) /\ WF_allVars(Client(Success(c) \/ Failure(c)))
       /\ WF_allVars(Client(Begin(c)))

(* GatewayFairness *)
ProxyFairness ==
  /\ WF_allVars(Proxy(StartRound)) /\ WF_allVars(Proxy(GatewayTick))
  /\ \A i \in Instances : WF_allVars(Proxy(CheckEnds(i)))
  /\ \A r \in Proxied : WF_allVars(Proxy(Forward(r)))
  /\ SF_allVars(Proxy(\E r \in Proxied : RequestEnds(r)))

(* PoolFairness *)
CallsFairness ==
  \A c \in DbCalls :
    WF_allVars(Pool(PoolStep(c))) /\ WF_allVars(Pool(TimesOut(c)))

AllSpec == AllInit /\ [][AllNext]_allVars /\ ClientFairness /\ ProxyFairness /\ CallsFairness
=============================================================================
