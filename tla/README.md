# Verification of the AI Model Registry backend

The repository is a registry for machine-learning models: versions move through
a review, policies gate their promotion, evaluations run against them, they are
deployed, monitored and rolled back, and everything is written to an audit log.
Almost all of its logic is in the backend, an Express application in TypeScript
under `src/backend/src`, over PostgreSQL (schema, triggers and functions in
`database/migrations`) and Redis.

It is single-threaded, but hardly anything in it is atomic: every `await` lets
other requests, timers and background promises in, most operations are a series
of statements that are transactions of their own, several objects keep maps in
memory that mirror rows, and some operations go on in the background after their
request was answered. That is what the modules here are about. In all of them
**one action is what the code does between two awaits** (or, in the audit log,
between two waits for a lock), and a request, a background operation or a
transaction is a small process with a program counter.

Paths below are relative to `src/backend/src` unless they start with `src/`.

## 1. Inventory

### Modelled

The core, whose components interact:

| component | code | state it keeps | operations | what is hard | modules |
|---|---|---|---|---|---|
| Deployment rows | `services/deployment/deploymentService.ts`, migration 007 | deployments, traffic splits, alerts, rollback operations | single statements; an UPDATE looks at no old value, a DELETE cascades | several writers of one row, rows that vanish | `DeploymentService` |
| Orchestration | `services/deployment/deploymentOrchestrator.ts` | a promise per deployment | create, the three strategies, failure handling, automatic rollback | runs in the background; its failure is handled twice; lost in a crash | `DeploymentOrchestrator` |
| Rollback | `services/deployment/rollbackService.ts` | a promise per rollback | request, perform, cancel | status test and write apart; two at once; a cancel that stops nothing | `RollbackService` |
| Monitoring | `services/deployment/monitoringService.ts` | a map of intervals per object, of which there are three | start, stop, SLO check, alerts | map tested before an await and written after; a stop on the wrong object | `MonitoringService` |
| Deployment routes | `routes/deployment.ts` | – | the requests | – | `DeploymentSystem` |
| Evaluation engine | `services/evaluation/evaluationExecutionEngine.ts`, `routes/evaluation.ts`, migration 006 | queue, controllers and counter in memory; job rows | create, queue, poll, execute, cancel | writes not awaited, sort over a queue that has changed, a counter decremented twice, a trigger that refuses writes | `EvaluationEngine` |
| Circuit breaker, service client | `gateway/circuitBreaker.ts`, `messaging/serviceClient.ts` | state, counter, two time stamps | call with retries, answers, force, reset, inspection | answers of overlapping calls in any order; a breaker that changes only when asked | `CircuitBreaker`, `ServiceClient` |
| Gateway, registry, load balancer | `gateway/{apiGateway,serviceRegistry,loadBalancer,config}.ts` | health of the instances, round-robin counter, breaker of the service | health check, selection, forwarded request | checks of one instance that overlap; three judges of health that do not know of each other | `Gateway` |
| Policy engine | `services/policyEngine/*.ts`, migration 005 | evaluations, results, exceptions | evaluate, check a promotion, dry run, exception, override, expiry | statements of overlapping evaluations write each other's rows; failures are swallowed; four readers derive "blocked" in four ways | `PolicyEngine`, `PolicyRules` |
| Version lifecycle | `services/modelRegistry/modelRegistryService.ts`, `routes/modelRegistry.ts`, migration 001 | the state of a version | create, move | the gate and the move are separate requests; only a trigger guards the move | `VersionLifecycle`, `Governance` |
| Audit log | `services/audit/auditService.ts`, migration 008 | audit rows, head of the hash chain | single and bulk writes, retention, verification | transactions that begin in one order and link in another; a lock held over many awaits | `AuditChain`, `AuditVerification`, `AppendOnlyLog` |
| Sessions and tokens | `services/auth/{auth,session,jwt}Service.ts`, `middleware/auth.ts`, migration 002 | a row and a Redis copy per session, the user's flag | login, validate, refresh, logout, logout everywhere, deactivate, clean up | two copies written at different times by requests that overlap | `Sessions` |
| SSO and authorization | `services/auth/{passportConfig,authorizationService}.ts`, `middleware/auth.ts` | accounts, identities, roles | sign on, link, authenticate, require a role, change roles, the offered actions | find and create apart; roles both in the token and in the row; rules in TypeScript against rules in a trigger | `Access` |

Components with rows of their own:

| component | code | operations | what is hard | modules |
|---|---|---|---|---|
| Model rows and cache | `services/modelRegistry/modelRegistryService.ts`, `services/cache/cacheService.ts` | read, search, create and update through the cache | cache filled after an await; only one tag is ever dropped | `ModelCatalog` |
| Versions, artifacts, model cards | `routes/modelRegistry.ts`, `services/modelRegistry/{modelRegistry,modelCard}Service.ts` | create a version, two-step upload, verification, cards | a completion sent again | `VersionRecords` |
| Lineage | `services/modelRegistry/lineageService.ts`, migration 003 | track, link, read the graph | a cycle trigger of bounded depth that sees committed rows only | `Lineage` |
| Evaluation suites, reports | `services/evaluation/evaluation{,Reporting}Service.ts` | suites, jobs, verdicts, reports | a suite that changes between request and verdict; joins that pair too much | `EvaluationSuites` |
| Evidence bundles, compliance reports | `services/audit/evidenceBundleService.ts` | create, generate, download, clean up | generation in the background against clean-up, row and file apart | `EvidenceBundles` |
| GDPR | `services/audit/gdprComplianceService.ts` | requests of data subjects, inventory, retention | searches through the pool, deletions in a transaction that one failure aborts | `GdprCompliance` |
| Listings | ten listings of seven services | COUNT and SELECT of a page | rows that arrive between the two statements or between two pages | `Listings` |
| Event bus, messaging | `messaging/{eventBus,index}.ts`, the retries of `messaging/serviceClient.ts` | start, publish, handle | handlers that are not awaited, requests given up on that are received later | `Messaging` |
| ML platforms | `services/mlPlatforms/*.ts` | register, remove, import, export | adapters in memory, rows shared; four steps each of which may fail | `MlPlatforms` |
| CI/CD | `services/cicd/*.ts` | webhooks, commits, pipeline validation | one of many steps failing | `CicdIntegration` |
| Migrations | `database/migrator.ts`, `scripts/migrate.ts` | up (with its verification), reset, signals, kills | nothing locks the list of pending migrations | `Migrator` |
| Connection pool | `services/database/databaseService.ts`, `config/database.ts` | query, transaction, health check, the request of a data subject | a caller that holds a client and asks for others, one after the other | `DatabasePool` |

How they interact. The router holds one `DeploymentOrchestrator`, one
`RollbackService` and one `MonitoringService`; orchestrator and rollback service
each build a `MonitoringService` of their own, so there are three maps of
running monitors over one table. The orchestration and a rollback both write the
row of the deployment; the canary's promotion reads the alerts that monitors
insert. The policy engine reads the version and writes evaluations which the
promotion check reads back; the route that moves a version asks the trigger
only. `AuthService` calls `SessionService`, which writes PostgreSQL and Redis in
turn. Audit rows are inserted by `AuditService` and by the retention job of the
GDPR service; the chain is made by a trigger that locks one row. The gateway asks
registry, load balancer and breaker in turn and reports a request to the last
only. A data-subject request holds one client of the pool while it searches
through others. The remaining components meet in the database at most, in tables
the others do not write while they run.

What makes each correct:

- **Deployments**: a rollout and a rollback never work on one deployment at once;
  an active deployment has all of its traffic; everything that was begun comes to
  a final status; the canary's gate sees the alerts of others only.
- **Evaluations**: the limit on running jobs holds up to the known double
  release; the queue neither loses nor doubles a job; a waiting job is started.
- **Breaker, gateway**: it opens on a streak of failures only, closes on a success
  only, and a service that answers again is used again, at both levels.
- **Pool**: every client comes back and every call ends.
- **Policies**: a check that nothing disturbed lets no violation through and
  forgets none; rows settle; the readers of one outcome agree.
- **Versions**: production is reached only through the whole review; where the
  moves users are offered and the moves the trigger accepts differ is known.
- **Audit log**: what is committed is one chain that only grows; no writer waits
  for ever; the verdict of the verification means what it says.
- **Sessions, accounts**: nobody is let in after a logout, a deactivation or an
  expiry, whatever stale copies there are; one person has one account; a role that
  let a request through was held while it ran.
- **Catalog, lineage, records**: what the cache answers is what the table holds;
  cycles are longer than the check can see; an upload has one row.
- **Reports, bundles, listings**: what is shown agrees with what is stored.
- **Requests of data subjects** are done as a whole or not at all.
- **Messages, imports, pipelines**: no later step happens without the earlier one
  that must precede it, whatever fails.
- **Migrations** take effect once each, in the order of the release that brings
  them, and the table of migrations says which did.

### Not modelled

| component | why |
|---|---|
| Microservice wiring (`microservices/`, `index.ts`) | constructs the objects modelled elsewhere; `databaseService.initialize()`, which the microservices call, does not exist |
| Service tokens (`messaging/serviceAuth.ts`) | signed and checked without state; the check is mounted nowhere |
| Encryption, signing, TLS, vault (`services/security`, `services/vault`) | wrappers of libraries and of an external store; no caller in the backend |
| CDN (`services/cdn`) | uploads and URL building; no caller |
| Middleware, validation, types, utilities | stateless filters, schemas and types; the security and performance middleware has no caller |
| Audit trail of an entity, statistics | reads that change nothing; the statistics without dates are a statement PostgreSQL refuses (`auditService.ts:235`–`243`) |
| Policy views and notifications | reads and mail; the calls that change a gate are in `PolicyEngine` |
| Cache invalidation by pattern, pseudonymisation, deregistration of services, other balancing strategies | no caller |
| Frontend, manifests, scripts, documents | no state the backend depends on; the frontend calls endpoints the backend lacks |

`services/cicd` also holds older copies of four files that nothing imports.

## 2. Modules

```
DeploymentService <- MonitoringService <- RollbackService -------+
                                      <- DeploymentOrchestrator -+- DeploymentSystem - MCDeployment, DeploymentProofs
EvaluationEngine - MCEvaluation, EvaluationProofs
CircuitBreaker <- ServiceClient \
               <- Gateway        \
DatabasePool ------------------ MCServiceClient
VersionLifecycle, PolicyEngine <- Governance - MCGovernance, GovernanceProofs
VersionLifecycle <- Access
Sessions - MCSessions
AppendOnlyLog <= AuditChain <- AuditVerification - MCAudit, AuditProofs   (<= : is implemented by)
ModelCatalog, VersionRecords, Lineage, EvaluationSuites,
EvidenceBundles, GdprCompliance, PolicyRules, Listings   <- MCRecords
Messaging, MlPlatforms, CicdIntegration, Migrator, Access <- MCPlatform

Sessions, Access                                               <- SessionProofs
ServiceClient, DatabasePool, Messaging, MlPlatforms,
CicdIntegration                                                <- PlatformProofs
ModelCatalog, VersionRecords, PolicyRules, EvaluationSuites,
EvidenceBundles, GdprCompliance, Migrator, Lineage, Listings   <- RecordsProofs
SequenceLemmas (sequences without repetitions, finite sets,
sorting, induction)          <- EvaluationProofs, PlatformProofs, AuditProofs, RecordsProofs
```

The core:

- **DeploymentService** is the tables: `status[d]`, `traffic[d]`, `criticals[d]`,
  `rbRow[r]`. Each operator is one SQL statement. An UPDATE of a row that is gone
  changes nothing; an INSERT that refers to one is disabled, and the caller's
  action has a disjunct for the refusal.
- **MonitoringService** counts interval pairs (`live`) apart from map entries
  (`registered`), because `Map.set` overwrites a handle without clearing it.
- **RollbackService** walks through `executeRollback` and `performRollback`
  (`rpc[r]`): test, insert, two status writes, stop of the monitor, traffic to 0
  and to 100, verification attempts, two status writes, restart of the monitor;
  the catch block and the `.catch` of the caller come after any of them.
- **DeploymentOrchestrator** walks through `executeDeploymentStrategy`
  (`opc[d]`). `rethrown[d]` says that the function's own catch block is through
  and the `.catch` of `orchestrateDeployment` handles the same failure again.
- **DeploymentSystem** composes them, adds the routes, DELETE in its two steps,
  a kill (`Crash`), and the end of the process after an unhandled rejection.
- **EvaluationEngine** keeps `queue`, `controllers`, `counter` as the class does.
  `processQueue` has no await, so it is an operator that starts as many jobs as
  fit. Writes that are sent and not awaited are sets (`queuing`, `cancelling`,
  `sorts`) of which a member lands later. `ValidTransitions` is the trigger of
  migration 006, `TimingCheck` its table check. A write refused outside every try
  block ends the process (`ProcessDown`).
- **CircuitBreaker** is the class as functions on a record, time stamps relative
  to the clock; **ServiceClient** adds calls that ask once and retry without
  asking. `streak`, the failures since the last success, is a history variable.
- **Gateway** puts the same breaker behind the instances of one service: checks
  that `register` and each round start (`checking`), their failures (`failed`),
  a round-robin counter (`turn`) that is taken modulo a changing number of healthy
  instances, and requests that count for or against the breaker.
- **PolicyEngine** is `evaluatePolicies` statement by statement for every request
  (`pc[r]`), the tables it fills, and the promotion check on top. `found`,
  `disturbed`, `erred` and `overridden` record what happened for the properties.
  What a rule computes is a choice there; **PolicyRules** says what it is, one
  condition after the other, and what the engine, the summary, the stored rows
  and the evaluation read back by its id each make of it.
- **VersionLifecycle** is the trigger `validate_version_state_transition` and the
  PATCH route; **Governance** puts both side by side, as the code does.
- **Sessions** is `AuthService` over `SessionService`; a call is at the await
  `pc[c]`. `granted`, `call[c].dead` and `call[c].off` are history. **Access** is
  what comes before and after: accounts found, linked or created at a sign-on, and
  requests that authenticate and ask for a role (`visit[v]`), with the rules of
  `AuthorizationService` as operators. Any statement of a sign-on may fail.
- **AuditChain** is `set_audit_log_hash` with its two waits for the lock on
  `hash_chain_state`; a row's hash is named by its id. **AuditVerification** is
  `verify_audit_chain_integrity`; **AppendOnlyLog** is the abstract log, and
  `AuditChain` instantiates it with the committed rows: `AppendOnly` says that
  every step of the chain is a step of that log.
- **DatabasePool** is the pool of `pg` from its callers: clients opened, idle or
  held (`opened`, `spare`, `dbCall[c].holds`), the queue of those that wait, and
  those a failed health check never gave back (`forgotten`). The request of a data
  subject keeps its client while it asks for others, one for the inventory and one
  for each column (`dbCall[c].left`): that the inventory cannot be read rolls back,
  that a column cannot is passed over.

The components with rows of their own are one module each, named in the
inventory. In **Messaging**, an attempt the client gives up on goes to `late`, from
which its service may receive it at any later time or never. In **Migrator**, a
migration is the place of its file name among all names, and a release is the
names it has (`Release[p]`), so that releases may lack any of each other's files.
In **MlPlatforms** the trail is a set of entries per subject: it says that an import
was announced and logged, not how often. Requests are records with a place (`at`, `task`, `ask`, `work`,
`walk`, `visit`), rows are functions or sets, and what crosses the border of the
backend (Redis losing a key, a platform answering, a file that cannot be
unlinked) is an action or a disjunct of its own.

Every module has the operators that mutate it beside the definition they change,
marked `mutant:`; no specification uses them.

**Focus and slice.** `MCServiceClient`, `MCRecords` and `MCPlatform` put several
components that share no state into one run: `focus` is chosen at the start and
only the component it names moves, so the run visits the sum of their states and
not the product. `MCDeployment` and `MCGovernance` do the opposite for one
system that is too large as a whole: `slice` is chosen at the start and restricts
what may happen (`InSlice`), so that the run visits parts of one large instance.

## 3. What TLC checks

Twelve runs; nine hold, three show a disagreement between the code and what the
repository says of it. Every property of a passing run has a mutant of the code
(PROJECT.json) under which TLC finds it violated.

| run | instance | distinct states | shows |
|---|---|---|---|
| deployment | one deployment, two slices: two rollbacks under every strategy with cancels and deletes; one rollback with racing starts of monitors, splits by hand and a kill | 1.7 M | `RolloutExcludesRollback`, `UnsplitHasAllTraffic`, `RolloutSeesNoAlert` |
| deployment_live | fair schedules of two rollbacks of a canary, a cancel, an alert, deletes | 0.2 M | `RollbackEnds`, `RolloutEnds` |
| evaluation_queue | three jobs of three priorities for one place, two may be cancelled, writes in any order | 0.2 M | `LimitErosion`, `QueueIsExact`, `QueueDrains` |
| breaker | three overlapping calls with one retry and an operator; two instances and two requests; two calls of a pool with two clients | 88 k | `OpensOnStreak`, `ClosesOnSuccess`, `Recovers`; `ServiceComesBack`; `ClientsAreReturned`, `EveryCallEnds` |
| governance | four slices of two checks and a dry run of two policies, failing statements, changes, a version that moves | 0.9 M | `GateStopsViolations`, `ViolationsStick`, `RowsSettle`, `ProductionIsReviewed` |
| audit | a bulk of two rows and two single rows, failures, two ticks | 0.2 M | `AppendOnly`, `VerifiedIsWhole`, `VerdictIsOrder`, `TransactionsEnd` |
| sessions | four requests of any kind, one user, two ids, failing awaits, evictions, clean-up, two ticks | 0.6 M | `LoggedOutStaysOut`, `DeactivatedIsOut`, `ExpiryIsGranted` |
| records | eight components in turn, each with two overlapping calls where it has calls | 1.3 M | `SearchIsComplete`, `CyclesAreLong`, `OneRowPerUpload`, `ReportsAgree`, `BundleFilesAgree`, `GatesAgree`, `PagesMissNothing`, `RequestsAreWhole` |
| platform | six components in turn: two processes, two replicas, two workers, three tools with different releases, two visits; a version that moves | 2.3 M | `HeldBack`, `RecordsAreAudited`, `SuccessIsAudited`, `MigratedInOrder`, `LoginIsOwn`, `RightsAreCurrent`, `OffersFollowLifecycle` |
| deployment_completed | one rollback | – | `CompletedIsFinal` is violated |
| audit_order | three single rows | – | `UndisturbedIsVerified` is violated |
| login_token | a login and a request with its token | – | `LoginTokenIsAccepted` is violated |

What each says precisely is in the comment above it. Several hold only under a
condition the code does not establish, which the property then names:

- `SearchIsComplete`: no search overlapped the invalidation of a create, and Redis
  lost nothing of the tag (`raced`).
  One that did stores the result it read before; it stays until its TTL.
- `CyclesAreLong`: no two inserts of edges overlapped. The trigger follows ten
  edges (here two): shorter cycles are refused, longer ones are not.
- `GateStopsViolations`: nothing disturbed the check.
- `BundleFilesAgree`: no clean-up removed a file and then failed to mark its row
  (`unmarked`); a bundle whose file is being removed is left aside.
- `PagesMissNothing`: no row left, and none arrived between COUNT and SELECT of a
  page (`upset`); rows of one moment have no order except in the audit log.
- `ReportsAgree`: a recorded verdict is that of the thresholds of its job. The
  trends and the summary answer nothing once a joined evaluation passed, for the
  query of the trends is refused (section 5), and the property says so. What it says
  of their counts, the curves and the blamed metrics is about a version evaluated
  once with a suite; with a second evaluation the join pairs every job with every
  evaluation.
- `GatesAgree`: the summary of the request and the stored rows agree where no
  condition ended in an error and only block actions were to block. The evaluation
  read back by its id agrees with the summary exactly when everything passed
  (section 5).
- `MigratedInOrder`: the order is that of the release a migration came with. Between
  releases there is none (section 5).
- `HeldBack`: about what was received first. An attempt that was given up on may be
  received once more after the request that follows it.
- `SuccessIsAudited`: at most one statement or call of the validation failed.
- `OffersFollowLifecycle`: says where the rules and the trigger differ, which is in
  `approved_staging` and in the moves nobody is offered (section 5).

### Why these bounds

- *One deployment, two rollbacks.* No step of a rollback or a rollout reads
  another deployment's row except the automatic rollback, whose INSERT is always
  refused; everything that can go wrong between operations of one deployment
  needs two of them. Traffic increments of 60 give a canary with one
  intermediate step (60, 100), a rolling update of two replicas in batches of one
  has two rounds; one retry of the verification tells first from last.
  `MaxStarts` = 2 start requests are what the race of map test and map write
  needs; `MaxCriticals` = 1, as the canary only asks whether there is an open
  critical alert. In `deployment_live` the increment is 100, so that the state
  graph stays small enough for liveness.
- *Evaluations.* With one place and three jobs the queue is as long as two while
  one job runs, so `sortJobQueue` does something, and lands after the queue has
  changed. Two cancellations are enough for the counter to be released twice for
  each of two jobs. `OrderedWrites` = FALSE lets the not-awaited writes of one
  tick arrive in any order, which a pool of connections allows.
- *Breaker.* Threshold 2, three calls: a streak can be made by one call with its
  retry or by calls that overlap, with one more to arrive late. Failures are
  counted up to `MaxCount` = 3, past the threshold; an open breaker counts on, but
  nothing compares that count.
- *Gateway.* Two instances: one may die while the other answers. `MaxFailures` = 2
  tells the first failed check from the one that takes an instance out; `Turns` =
  2 is a multiple of every number of healthy instances. *Pool*: two clients and
  two calls that each want two of them is the smallest case of everyone waiting
  on everyone; with `MaxColumns` = 2 a call that got no client for a column asks
  for another one, and then ends.
- *Policies.* Two changes cover exception and expiry, exception and deactivation,
  violation and correction; two policies, so that a failure of the first leaves
  rows of the second behind. The slices keep together what can interfere: two
  checks, or one and a dry run, with one change; one check with two changes; one
  check while the version moves.
- *Audit.* Four rows in three transactions: a bulk between two single rows, ids
  in every order, two ticks so that transactions begin at different times.
- *Sessions.* `MaxAge` = 2 and two ticks: two refreshes that overlap compute
  different expiries, write them to row and Redis copy in different orders, and
  one of the two copies expires within the run. Four requests: a login, two that
  disturb each other, one that observes.
- *Records.* `Reach` = 2 stands for the depth of ten and `MaxLinks` = 2 for as many
  edges as that: every cycle they can make is one the trigger must refuse. Two models and
  one edit give a search an older and a newer answer. Two logs, one of them past
  the limit of a bundle, and three sweeps, so that a clean-up can meet a bundle at
  each of its steps. Two columns: the first may be deleted and the second fail.
  Three rows in pages of one or two, in the order of their ids, out of it, and
  with two of one moment. Rules: every operator on every kind of value in
  conditions that stand alone, and sequences of up to three that are met, unmet or
  malformed under every use of actions.
- *Platform.* `MaxPosts` = 2: of an event, an attempt may be given up on as long as
  fewer than two are received or still on their way, in whichever process; so the
  first request of a handler may be received after its retry and after the second.
  `MaxFaults` = 2 is one more than `SuccessIsAudited` allows. Three migration tools
  carry the releases {001, 003}, {001, 002, 003} with another edition of 002, and
  {001, 002}: a file comes between two applied ones, and a release lacks the last;
  `MaxRuns` = 4 lets one of them run again. Two identities of one person sign on
  at once; one role change reaches a visit at any of its awaits.

### Fairness

- *Node* (`deployment_live`, `evaluation_queue`): a continuation whose promise
  has settled is run, a timer fires, a statement that was sent is answered; so the
  steps of an operation that has begun are weakly fair, one by one. Requests,
  cancels and deletes are not: users need not act. `FairSpec` of the deployments
  asks progress of a process that is not killed, since nothing resumes after a
  kill (section 6). A verification attempt, a health check and a test end, well or
  not; both outcomes lead on and neither is preferred. Retries are bounded by the
  code.
- *The client* (`breaker`): time passes, delays end, requests are answered
  (axios has a time-out). Callers keep calling, because the breaker has no timer
  of its own; `Recovers` names that it is about a service that answers from some
  time on.
- *The gateway* (`breaker`): the interval of the health checks fires, a check
  ends (it has a time-out), time passes, a request that arrived is forwarded; and
  requests keep coming and some are waited for, which is strong fairness of their
  ending. The last is about the clients: the breaker asks its service only when
  somebody calls, and a client that leaves tells it nothing.
- *The pool* (`breaker`): a statement is answered or refused and timers fire, which
  is weak fairness of each. A request of a data subject ends because the inventory
  it has read has finitely many columns; that a waiting call is served is not
  assumed.
- *PostgreSQL* (`audit`): a statement that can go on does. No fairness between
  transactions that wait for the lock is assumed; each transaction takes it once
  and they are finitely many.

Deadlock is not checked where a system may come to rest: all requests are done,
the clock has reached its bound. In the `breaker` run it is.

## 4. What is proved

TLAPS checks the following for every value of the constants that satisfies the
assumptions the modules name (`StoreAssumption`, `RollbackAssumption`,
`BreakerAssumption`, `PolicyAssumption`, `SessionAssumption`, `AuditAssumption`,
`MigratorAssumption`, `MlAssumption`, `AccessAssumption`, `CatalogAssumption`,
`RulesAssumption`, `SuitesAssumption` and so on: types, non-zero limits, `None`
outside the sets, the audit events that are watched).

| module | theorems | argument |
|---|---|---|
| DeploymentProofs | `TypeCorrect`, `RolloutRollbackExclusion`, `CanaryGateIsBlind`, `ActivationOnlyByRollout` | Until an orchestration has written active or failed its row is pending or deploying (`RolloutStatus`), and a rollback or a monitor starts from an active or failed row; so they begin only after the rollout (`RolloutAlone`). The tests of `executeRollback` and `startMonitoring` are made long before they act, and it is not the row but the place of the orchestration that cannot go back: hence the strengthening. `VerifyBounded` and `RegisteredIsLive` carry the counters. |
| | `ActiveKeepsItsTraffic` | A deployment nobody split by hand has all of its traffic when its rollout is about to activate it and for as long as it is active; a rollback that is about to move traffic has written rolling_back before, and no rollout is left that could write active (`TrafficInv`, `RolloutAlone`). |
| EvaluationProofs | `TypeCorrect`, `QueueHolds`, `LimitErodesByCancels` | The queue is an injective sequence of the jobs that wait (`QueueHeld`): a late sort is a permutation, because an order of its entries that is strict repeats none, `splice` takes one out, and `processQueue` takes a prefix off. The counter is the number of jobs that execute and were not cancelled, less the cancelled ones whose `finally` block has run, and it never passes the limit (`PlacesHeld`): what the limit loses is what was given back twice. |
| PlatformProofs | `TypeCorrect`, `ClosedBelowThreshold`, `OpeningNeedsStreak`, `ClosingNeedsSuccess` | A closed breaker's count is below its threshold and never exceeds the running streak; so what takes it to the threshold is a streak. `SleepersMayRetry` bounds the attempts. |
| | `ClientsComeBack` | No client is in the hands of two calls, idle and held, or lost and used; and the open ones are exactly those that are idle, held or lost (`PoolHeld`). How many a call may hold follows from its place (`HoldsFit`), which is why it gives back all it has. |
| | `HandlersHoldBack` | What a handler has still to ask for is the end of its list, and what came before was received; an attempt it gave up on is of a request whose turn has come, at whatever later time it is received (`HandlersInOrder`): so the second request is first received after the first was. Nothing of an event has happened in a process before it takes it out of its inbox, where it is once (`WaitingIsFresh`, `UnpublishedIsFresh`): no handler runs twice. |
| | `ImportsAreAudited` | A request that is about to record has its announcement and its success in the trail, which only grows (`AnnouncedFirst`), and the row of its platform is referred to when it inserts. |
| | `SuccessesAreAudited` | Each worker past the INSERT has a validation of its own (`OwnValidation`), and its place says what the row may be (`WorkersFit`). A row that says passed has passed every check and is in the audit log, or a worker is about to write that entry or to take the success back, or two calls have failed (`PassedIsAccounted`). |
| GovernanceProofs | `TypeCorrect`, `UndisturbedGateIsSound`, `ReviewBeforeProduction` | At every statement of a check that nothing disturbs its rows are the latest of their policies, and what it has found hangs on them (`GateAt`); two requests under way have disturbed each other (`Alone`), so nobody else inserts, writes a status or stores a result. For the review, every state knows which ones came before it (`ReviewInv`). |
| | `EveryRowSettles`, `StoredViolationsStick` | A row short of completed is of a policy that some request under way still owes its writes (`SettleInv`). A result hangs on a row that was inserted (`HangInv`), and an undisturbed check leaves every row of the policies it is done with completed (`StickInv`), so that the SELECT of the gate, which reads completed rows only, finds it. |
| SessionProofs | `TypeCorrect`, `LogoutIsFinal`, `DeactivationIsFinal`, `ExpiryNeedsGrant` | Rows are inserted under ids never used before (`InsertsAreFresh`), so a session that is gone stays gone (`DeadStays`); every way in passes a SELECT of the row and of the user, whatever Redis says; and no expiry written anywhere exceeds one the table has held (`WithinGrant`). |
| | `SignOnIsOwn`, `AllowedWasHeld`, `OffersFit` | Of one address and of one identity there is at most one account (`OneEach`), whose address is that of its identity (`OwnIdentity`): so a sign-on that loses the race of find and create finds the winner's row. What a request knows of its account has been true since it began (`Sound`). A version is always in one of the states of the trigger. What is offered to somebody is what an administrator is offered (`OfferedWhenOpen`); decision by decision and state by state that is what the trigger accepts, but for the two decisions of `approved_staging`, and what it accepts besides leads to staging, deprecated or retired (`OffersAndMoves`). |
| AuditProofs | `TypeCorrect`, `ChainIsAppendOnly` | The lock on `hash_chain_state` is held from the first row to the end, so one transaction at a time has rows (`OneWriter`), they continue the committed chain (`Continues`) and the head is the hash of its last row (`StateIsExact`): every commit is a step of `AppendOnlyLog` and every other step a stutter. |
| | `VerifiedPeriodsAreWhole`, `VerdictsTellTheOrder` | The rows of a period have one order (no two share an id, `RowsAreOrdered`), and the walk goes through the one sequence in it (`PeriodIsSorted`). Rows that verify are the first of the log: the first names the hash before all rows, and each next one names a row whose successor in the log it is (`ValidIsPrefix`, by induction along the walk). Conversely, neighbours in order are all in order (`NeighboursSuffice`), and then the sorted sequence is the log. No row is of a time to come (`TimesArePast`), so a period up to now is all of it. |
| RecordsProofs | `SearchesAreComplete` | While no search raced a create and Redis lost nothing, no search and no create overlap at their critical statements (`Apart`); the tag names every entry but one whose search has not reached the tag, or one a create is about to drop (`TagIsWhole`), and an entry that is not the listing will be dropped (`StaleIsDropped`). |
| | `UploadsHaveOneRow` | A request that has found its version inserts for a version that is there, and no row is inserted under an id that has one. |
| | `ReadersAgree` | Up to the condition the loop has reached, the results are one row per verdict and, once a condition failed, the rows of all actions; the running status and the blocking flag summarise them (`RulesInv`), so the summary of the request and the stored rows say the same. What is read back by the id of the evaluation is made of no rows: it is a pass, which the summary is exactly when every condition passed. The loop is a sequence of steps, so a policy of any length is covered step by step. |
| | `VerdictsAndReportsAgree` | A completed job's verdict is that of the thresholds copied into its row and of its results (`JobFits`); an evaluation repeats them, belongs to one job, and that job stands for as long as its suite (`EvaluationStands`): over a pair evaluated once the joins of the reports meet each once. A passed evaluation of a pair with a completed job is in the join of the trends, so they throw, and the summary with them (`PassedIsRefused`). |
| | `ReadyFilesAreWhole` | A row is ready exactly when it names its file, which a generation does when it is done and its file whole; from there only a clean-up that selected the bundle comes in between (`RowFits`). What a file lists was in the log before its verification (`ContentFits`). |
| | `RequestsStayWhole` | Each column a call is sure of (there, and touched by nobody else) is still to be searched, or found and, in a deletion that was not aborted, still to be deleted or deleted (`WorkFits`); so at the UPDATE everything it is sure of is done. |
| | `MigrationsAreInOrder` | The list of a copy holds every file of its release without a row (`PendingIsRest`): what it passed over or is done with has taken effect, by whichever copy, and rows stay. Effects and rows change in one transaction, and the primary key lets only one copy stand at a migration, which has no committed row (`CommitIsFree`, `OneCommits`). So the migration that commits is new, and it is the first of its list, so the earlier files of its release have their rows (`CommitIsNext`); that list becomes empty only when nothing is left (`DoneIsComplete`). |
| | `RoundsStayLong` | What the recursive query finds at depth `d` contains the end of every way of `d - 1` edges (`WaysAreFollowed`, by induction; that the recursion has a solution is `PathExists`). A round that uses the new edge has, from its last use to its first, a way back over the old edges that is shorter (`RoundHasWay`). So an edge that passed the check closes no short round, and the check still holds at its commit, because a commit in between would have overlapped (`RoundsAreLong`). |
| | `NothingIsMissed` | A row the walk has still to show has at least as many rows before it as the walk was offered (`WalkFits`): in a sorted page it is on it or beyond a full page (`PageOrBeyond`), and a row that arrives never lowers its rank (`RankGrows`). When the answer says that there is no more, no rank is left for it. |

`SequenceLemmas` holds what these need of sequences and finite sets: an injective
sequence is as long as its set of elements is big, and so is each of its prefixes;
what `RemoveFirst` leaves; how many elements a union or a rest has. It also holds
the induction the last proofs need: a nonempty set of numbers has a least one (from
the library's `WFMin`), so a set with 0 and all successors has every number
(`SetInduction`); and from ranks, not from an induction, that a finite set in an
order can be put in a sequence (`SetCanBeSorted`) in which the i-th element has
i - 1 before it (`SortedByRank`).

TLC checked every invariant before it was proved. Each inductive invariant is
proved by one lemma per action or group of actions. A type invariant is stated in
every module of the core and is in no run: TLC checked it while the module was
written, and `TypeCorrect` proves it.

Every safety property of a passing run is proved. Left to TLC is liveness
(`RolloutEnds`, `RollbackEnds`, `QueueDrains`, `Recovers`, `ServiceComesBack`,
`EveryCallEnds`, `TransactionsEnd`), which needs fairness and ENABLED and is out of
the provers' reach.

## 5. Where the code and its descriptions disagree

Shown by a run:

| run | code | what happens |
|---|---|---|
| deployment_completed | `services/deployment/rollbackService.ts:161` | After a rollback has been marked completed, monitoring is restarted on a deployment that was just set to rolled_back; that throws, and the catch block marks rollback and deployment failed. No rollback ends completed, although line 103 treats completed as final. |
| audit_order | migration 008, line 313 | The chain is linked in the order in which transactions get the lock and verified in the order in which they began: an untouched log is reported as compromised. |
| login_token | `services/auth/authService.ts:46` | The id in the token of a login and the id of the session row are two different uuids: the token is refused by the first request that carries it. |

Stated in the modules, in no run, and violated; to see one, put the name under
INVARIANTS (or PROPERTIES) of the configuration in place of its properties and
run the module the run of that configuration names. (`OverrideTakesEffect` needs
three changes, more than a slice allows: check `Governance` itself, under `Spec`
with `MaxChanges` = 3, two requests and no dry run.)

| statement | module | configuration | code and what it contradicts |
|---|---|---|---|
| `OneRollbackAtATime` | DeploymentSystem | Deployment | two requests pass the status test before either writes (`rollbackService.ts:51`) |
| `CancelledStaysCancelled` | DeploymentSystem | Deployment | the background operation goes on (`rollbackService.ts:106`); the route answers "Rollback cancelled successfully" (`routes/deployment.ts:275`) |
| `RollbackIsNotMonitored` | DeploymentSystem | Deployment | "Stop monitoring for current deployment" (`rollbackService.ts:144`) stops the rollback service's own object |
| `DeletedIsNotMonitored` | DeploymentSystem | Deployment | the route stops the router's monitor only (`routes/deployment.ts:129`) |
| `MonitoredOnce` | DeploymentSystem | Deployment | two starts pass the map test (`monitoringService.ts:45`); one pair of intervals can then never be cleared |
| `ServingIsMonitored` | DeploymentSystem | Deployment | a canary serves traffic before it is active and so before it is monitored; `src/.kiro/specs/ai-model-registry/requirements.md:70` |
| `FailureIsRolledBack` | DeploymentSystem | DeploymentLive with TwoDeployments and OneRollback | 'system' is no uuid, so the INSERT of the automatic rollback is always refused (`deploymentOrchestrator.ts:284`) |
| `ConcurrencyLimit` | EvaluationEngine | EvaluationQueue | a cancel gives the place back, the finally block again (`evaluationExecutionEngine.ts:154`, `:362`) |
| `CancelSparesOthers` | EvaluationEngine | EvaluationQueue | the write of the catch block is refused for a cancelled row and nobody catches that: the process ends with every other job (`:355`) |
| `QueueingIsHarmless` | EvaluationEngine | EvaluationQueue | the QUEUED write arrives after RUNNING, is refused and not caught (`:262`) |
| `QueueByPriority` | EvaluationEngine | EvaluationQueue with FourJobs and NoJob | a sort that lands late treats newer jobs as normal (`:276`) |
| `DequeuedIsCancelled` | EvaluationEngine | EvaluationQueue | migration 006, lines 87–90, refuse `completed_at` without `started_at`; a test expects the cancelled row |
| `OpenSendsNothing` | ServiceClient | Breaker | retries do not ask the breaker (`serviceClient.ts:153`); `src/.kiro/specs/ai-model-registry/design.md:305` |
| `FoundIsBlocked` | PolicyEngine | Governance | overlapping requests write each other's rows (`policyEngineService.ts:540`), a failed store does not block (`policyEvaluationEngine.ts:90`) |
| `CleanIsAllowed` | PolicyEngine | Governance | every result ever stored counts (`policyNotificationService.ts:98`) |
| `OverrideTakesEffect` | PolicyEngine | Governance, see above | the row of an expired exception makes the new one fail, which is only logged (`policyBlockingService.ts:174`) |
| `ProductionIsCompliant` | Governance | Governance | the PATCH route asks nobody (`routes/modelRegistry.ts:384`); `src/docs/user/troubleshooting-faq.md:513` |
| `ApprovedByReviewers` | VersionLifecycle | Governance | a model owner may write any state (`routes/modelRegistry.ts:364`); `src/docs/user/model-management.md:150` |
| `SessionIsNotOutlived` | Sessions | Sessions | refreshes that overlap leave a Redis copy that lasts longer than the row (`sessionService.ts:209`–`216`) |
| `PeriodIsVerified` | AuditVerification | AuditOrder | the walk starts from the genesis hash whatever the period (migration 008, line 299); `evidenceBundleService.ts:411` verifies periods |

Met while modelling, and visible in what the modules say the code does:

- *Model registry.* `updateModel` drops nothing from the cache, although
  `src/docs/developer/architecture.md:855` promises event-driven invalidation, and `getOrSet` may store a row
  that was replaced while it waited (`cacheService.ts:122`): both leave an older
  answer until the TTL. The checksum of an upload is not computed
  (`src/.kiro/specs/ai-model-registry/requirements.md:32` asks for it), and a model
  card is never made, because the service misreads the names of its rows and
  answers "Model not found" (`:34`). The route that searches models is shadowed by
  an earlier one.
- *Audit.* A bundle lists at most `limit` logs (1000 by default, 10000 for reports)
  without saying so, and its verification covers all. Retention enforcement reads
  the first 1000 policies and deletes nothing (`deleteExpiredRecords` returns 0) but
  logs `delete_expired_records`.
- *Rules.* `Number(null)` is 0 and satisfies `less_than`; a condition that ends in an
  error counts as a pass in the summary; a latency is judged higher-is-better.
  `getEvaluationResults` groups the results by the id of the evaluation and looks
  them up by that of the policy (`policyEngineService.ts:371`, `:381`), so it finds
  none and reports every evaluation as passed, without blocking violations, whatever
  its rows say (`GatesAgree`, last part). A search for policies
  numbers three parameters for two (`policyEngineService.ts:151`–`158`) and always
  fails, and its route rounds an offset down to a page.
- *Approvals.* `approve_production` and `reject` are offered in `approved_staging`
  (`authorizationService.ts:150`, `:167`–`169`, and its test); the trigger refuses
  both there (migration 001, line 211). It accepts the moves from `approved_staging` to
  `staging`, from `production` to `deprecated` and from there to `retired`, which no
  right of `AuthorizationService` is about: by its offers alone no version gets past
  `approved_staging`, which only the PATCH route helps (`OffersFollowLifecycle`). `requireRoles` is called with an array by
  the deployment and evaluation routes and then matches nobody. The routes for
  check-promotion and the compliance summary answer with fixed values.
- *Reports.* `getEvaluationTrends` casts the metrics of a category, an object, to a
  number for every evaluation that passed (`evaluationReportingService.ts:227`–`234`),
  which PostgreSQL refuses: the trends, and the summary that awaits them (`:391`),
  throw as soon as one evaluation passed. Of evaluations that failed they report
  pass rates and scores of 0 (`ReportsAgree`).
- *Migrations.* Files are sorted by name and applied unless their id has a row
  (`migrator.ts:48`–`63`, `:158`–`164`). Where a release with 001 and 003 was
  applied, a later one that adds 002 applies it after 003.
- *Messages.* A request whose time-out ran out is sent again (`serviceClient.ts:159`–
  `187`) and nothing tells its service apart from the first: a deployment may be
  prepared, or a version blocked, once more after the request that follows it.
- *ML platforms, CI/CD.* `getPlatform` and the reads of a provider parse a JSONB
  column that the driver has parsed already and throw; `policyEngine.evaluateModel`
  and `AuditService.logEvent`, which they call, do not exist (their tests inject
  them). Their routers are not mounted. A delivery sent again overwrites a link
  made by hand; a GitLab header is compared as a plain token.
- *Pool.* The health check of `databaseService` (lines 96–104) does not give its
  client back when `SELECT 1` fails. `migrate.ts reset` closes the pool before it
  asks for confirmation and always fails.

## 6. Assumptions and limits of the models

- Some statements would be refused by PostgreSQL as they stand: single `$` as a
  quote (002, lines 71–79, and 003), inline INDEX clauses (005, 008), CREATE INDEX
  CONCURRENTLY in a transaction (008, 353–354), foreign keys from VARCHAR to UUID
  (009, 010), a second CREATE of `audit_logs`, `SET app.current_user_id = $1`, which
  takes no parameter and moreover runs on whichever client of the pool is free,
  `SELECT DISTINCT ... ORDER BY` of another column (policyNotificationService.ts
  98–110, policyEngineService.ts 466–475). They are taken to do what they evidently
  mean. `Migrator` is about files whose SQL may be refused or not.
- Where code calls something that does not exist, the module takes the behaviour of
  what its tests inject, and says so in its header.
- A statement is atomic and its effect is committed unless it is inside a
  transaction; isolation is READ COMMITTED, the default.
- Hashes do not collide and uuids do not repeat.
- Nothing is done at start-up about rows of an earlier process; the models
  therefore let a crash forget what was in memory and change no row.
- *Deployments.* The simulated parts (health checks, traffic shifting,
  deployment of a version) are choices between their outcomes. The automatic
  rollback by alerts is off by default and no caller turns it on. An SLO check is
  one step; a check that is under way when its monitor is stopped is covered by
  the one that ends just before.
- *Evaluations.* `restartFailedJobs` selects rows that carry a `retryCount`,
  which no job is created with, so it never changes anything.
- *Policies.* The tables of one version; a policy counts by its blocking action.
  `bypassPolicies` and the skip list have no caller, and the route that would
  check a promotion answers with a fixed value (`routes/policyEngine.ts:263`), so
  the check is modelled as its service offers it.
- *Sessions.* The service is modelled for any caller that has a session id, since
  no route gets past the refusal that `login_token` shows. The expiry inside a
  JWT is left out: it can only refuse more requests.
- *Audit.* `createBulkAuditLogs` has no caller yet; it is the only writer that
  holds the lock over several awaits.
- *Cache.* Redis may fail or lose a key at any moment; the service swallows that.
  `SearchIsComplete` is about searches; that a single model is stale after an
  update is what the code does (section 5).
- *Gateway.* One service; which instance is next depends on the counter modulo the
  number of healthy ones, so the counter is kept modulo a multiple of each.
- *Accounts.* Whose an address and an id are is settled by the identity providers:
  a profile comes with the address of its person (`PersonOf`) and no two providers
  give one id. Nothing calls `createUser`; the row it makes has no id.
- *Platforms, pipelines.* What an adapter, a provider or a webhook answers is a
  choice. That a process is killed between two steps is modelled for imports and
  exports, not for pipeline validations: `SuccessIsAudited` is about statements and
  calls that fail, and a kill between the result and its log leaves a success without
  its entry. *Events*: Redis publishes to whoever is subscribed at that moment and
  keeps nothing.
- *Migrations.* The command `status` only reads; seeds are data; what the SQL of a
  file does is left out, only that it took effect.
- *Listings.* The rows are those that match the filters; a walk keeps its filters.

## 7. Plan

Done in this order, the most important behaviour first: deployments and
rollbacks, evaluations, the breaker, policies and versions, sessions, the audit
log; then catalog and cache, lineage, artifacts, suites and reports, bundles,
data-subject requests, rules, listings; then gateway, pool, events, platforms,
pipelines, migrations and accounts.

Every safety property that a passing run checks is proved. Proofs worth adding:

1. The action properties of the core beside its invariants: a queued write never
   overtakes, a row of a rollback is written by its own operation only.
2. The refinement of an abstract session store by `Sessions`.
3. What the verification says of a log somebody changed: a row whose `prev` was
   altered is reported, in any period that has it.

Models worth adding: metrics and stored configuration of deployments, the alert
cooldown once a caller turns the automatic rollback on, the promotion gate in the
PATCH route once a route asks it, service tokens once they are checked.
