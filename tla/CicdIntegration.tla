-------------------------- MODULE CicdIntegration --------------------------
(***************************************************************************)
(* Webhooks of a CI/CD provider and the validation of model versions in a  *)
(* pipeline.  A delivery is verified, logged, its commit upserted, and     *)
(* when the commit message names a version, that version is validated: the *)
(* row of pipeline_validations is running, then passed or failed.  Every   *)
(* statement and every audit call may fail.  So may the reading of a       *)
(* provider or a validation, which parses a JSONB column (it throws        *)
(* whenever the driver has parsed the column already).  The collaborators  *)
(* are those the tests inject: evaluateModel and logEvent, which the       *)
(* policy engine and the audit service of this commit do not have.         *)
(***************************************************************************)
EXTENDS Naturals

CONSTANTS
  Providers,    \* names of providers
  ProviderTypes,\* types used, of github, gitlab and bitbucket
  Secrets,      \* webhook secrets, a content signed with one stands for it
  Commits,      \* shas
  Mentions,     \* [Commits -> what the message names: nothing, model or version]
  Validations,  \* ids of validations, made up when one starts
  Workers,      \* requests being served
  MaxFaults,    \* bound on the statements and audit calls that fail
  NoRow

VARIABLES
  providers,    \* providers     : [Providers -> secret and type, or NoRow]
  commits,      \* commits       : [Commits -> the link of the commit, or NoRow]
  validations,  \* validations   : [Validations -> row, or NoRow]
  audited,      \* audited       : validations whose completion is in the audit log
  worker,       \* worker[w]     : the request, the await it is at, its validation
  faults        \* faults        : calls that have failed

cicdVars == <<providers, commits, validations, audited, worker, faults>>

Checks == {"policyValidation", "securityScan", "qualityGates"}
Validation == [commit : Commits, status : {"running", "passed", "failed"}, passed : SUBSET Checks]

ASSUME CicdAssumption ==
  /\ MaxFaults \in Nat
  /\ Mentions \in [Commits -> {"nothing", "model", "version"}]
  /\ NoRow \notin Validation \cup {"nothing", "model", "version"}

Idle == [at |-> "idle", commit |-> CHOOSE c \in Commits : TRUE,
         id |-> CHOOSE v \in Validations : TRUE, passed |-> {}]

CicdInit ==
  /\ providers = [p \in Providers |-> NoRow]
  /\ commits = [c \in Commits |-> NoRow]
  /\ validations = [v \in Validations |-> NoRow]
  /\ audited = {}
  /\ worker = [w \in Workers |-> Idle]
  /\ faults = 0

At(w, at) == worker[w].at = at
Go(w, at) == worker' = [worker EXCEPT ![w].at = at]
End(w) == worker' = [worker EXCEPT ![w] = Idle]
Fails == faults < MaxFaults /\ faults' = faults + 1

-----------------------------------------------------------------------------
RegisterProvider(p, secret, type) ==
  /\ providers' = [providers EXCEPT ![p] = [secret |-> secret, type |-> type]]
  /\ UNCHANGED <<commits, validations, audited, worker, faults>>

RemoveProvider(p) ==
  /\ providers' = [providers EXCEPT ![p] = NoRow]
  /\ UNCHANGED <<commits, validations, audited, worker, faults>>

(* The signature is an HMAC of the body with the secret of the provider,   *)
(* and the body has the fields of its type.                                *)
VerifyWebhookSignature(provider, signedWith) == provider.secret = signedWith
ParseWebhookPayload(provider, sentBy) == provider.type = sentBy

(* handleWebhook up to its first logEvent; every refusal is an answer 400 *)
HandleWebhook(w, p, signedWith, sentBy, c) ==
  /\ At(w, "idle")
  /\ providers[p] # NoRow
  /\ VerifyWebhookSignature(providers[p], signedWith)
  /\ ParseWebhookPayload(providers[p], sentBy)
  /\ worker' = [worker EXCEPT ![w] = [Idle EXCEPT !.at = "received", !.commit = c]]
  /\ UNCHANGED <<providers, commits, validations, audited, faults>>

(* processWebhook: the delivery is logged; push and pull request events    *)
(* only log to the console; a delivery without a commit is done with that  *)
ProcessWebhook(w) ==
  /\ At(w, "received")
  /\ \/ (Go(w, "tracking") \/ End(w)) /\ UNCHANGED faults
     \/ Fails /\ End(w)
  /\ UNCHANGED <<providers, commits, validations, audited>>

(* trackCommit: an upsert that sets the link of the commit to what the     *)
(* message names, over a link made by hand; then the validation, when the  *)
(* message names a version                                                 *)
TrackCommit(w) ==
  LET c == worker[w].commit
  IN  /\ At(w, "tracking")
      /\ \/ /\ commits' = [commits EXCEPT ![c] = Mentions[c]]
            /\ IF Mentions[c] = "version" THEN Go(w, "validate") ELSE End(w)
            /\ UNCHANGED faults
         \/ Fails /\ End(w) /\ UNCHANGED commits
      /\ UNCHANGED <<providers, validations, audited>>

(* POST /commits/:sha/link, by hand: the row may not exist *)
LinkCommitToModel(c) ==
  /\ commits' = [commits EXCEPT ![c] = IF @ = NoRow THEN NoRow ELSE "version"]
  /\ UNCHANGED <<providers, validations, audited, worker, faults>>

(* POST /validations/trigger *)
TriggerPipelineValidation(w, c) ==
  /\ At(w, "idle")
  /\ worker' = [worker EXCEPT ![w] = [Idle EXCEPT !.at = "validate", !.commit = c]]
  /\ UNCHANGED <<providers, commits, validations, audited, faults>>

-----------------------------------------------------------------------------
(* storePipelineValidation: an upsert, refused while the commit has no row *)
StorePipelineValidation(w, v, status, next, onThrow) ==
  \/ /\ commits[worker[w].commit] # NoRow
     /\ validations' = [validations EXCEPT ![v] =
          [commit |-> worker[w].commit, status |-> status, passed |-> worker[w].passed]]
     /\ worker' = [worker EXCEPT ![w].at = next, ![w].id = v]
     /\ UNCHANGED faults
  \/ /\ commits[worker[w].commit] = NoRow \/ faults < MaxFaults
     /\ faults' = IF commits[worker[w].commit] = NoRow THEN faults ELSE faults + 1
     /\ worker' = [worker EXCEPT ![w] = IF onThrow = "idle" THEN Idle
                                        ELSE [@ EXCEPT !.at = onThrow, !.id = v]]
     /\ UNCHANGED validations

StartValidation(w) ==
  /\ At(w, "validate")
  /\ \E v \in Validations :
       /\ validations[v] = NoRow
       /\ \A x \in Workers : At(x, "idle") \/ At(x, "received") \/ At(x, "tracking")
                               \/ At(x, "validate") \/ worker[x].id # v
       /\ StorePipelineValidation(w, v, "running", "log_started", "store_failed")
  /\ UNCHANGED <<providers, commits, audited>>

LogStarted(w) ==
  /\ At(w, "log_started")
  /\ \/ Go(w, "policyValidation") /\ UNCHANGED faults
     \/ Fails /\ Go(w, "store_failed")
  /\ UNCHANGED <<providers, commits, validations, audited>>

(* The three checks, one read each: whatever throws in one makes it false. *)
RunCheck(w, check, next) ==
  /\ At(w, check)
  /\ \E holds \in BOOLEAN :
       worker' = [worker EXCEPT ![w].at = next,
                                ![w].passed = IF holds THEN @ \cup {check} ELSE @]
  /\ UNCHANGED <<providers, commits, validations, audited, faults>>
RunPolicyValidation(w) == RunCheck(w, "policyValidation", "securityScan")
RunSecurityScan(w) == RunCheck(w, "securityScan", "qualityGates")
RunQualityGates(w) == RunCheck(w, "qualityGates", "store_result")

StoreResult(w) ==
  /\ At(w, "store_result")
  /\ StorePipelineValidation(w, worker[w].id,
       IF worker[w].passed = Checks THEN "passed" ELSE "failed", "log_completed", "store_failed")
  /\ UNCHANGED <<providers, commits, audited>>

LogCompleted(w) ==
  /\ At(w, "log_completed")
  /\ \/ audited' = audited \cup {worker[w].id} /\ End(w) /\ UNCHANGED faults
     \/ Fails /\ Go(w, "store_failed") /\ UNCHANGED audited
  /\ UNCHANGED <<providers, commits, validations>>

(* mutant: the row keeps what it was when the error came *)
LeaveRow(w) ==
  /\ At(w, "store_failed")
  /\ Go(w, "log_error")
  /\ UNCHANGED <<providers, commits, validations, audited, faults>>

(* the catch of validateInPipeline: failed, whatever was stored before *)
StoreFailed(w) ==
  /\ At(w, "store_failed")
  /\ StorePipelineValidation(w, worker[w].id, "failed", "log_error", "idle")
  /\ UNCHANGED <<providers, commits, audited>>

LogError(w) ==
  /\ At(w, "log_error")
  /\ End(w)
  /\ UNCHANGED <<providers, commits, validations, audited, faults>>

(* validateInPipeline, one await after the other *)
ValidateInPipeline(w) ==
  \/ StartValidation(w)
  \/ LogStarted(w)
  \/ RunPolicyValidation(w)
  \/ RunSecurityScan(w)
  \/ RunQualityGates(w)
  \/ StoreResult(w)
  \/ LogCompleted(w)
  \/ StoreFailed(w)
  \/ LogError(w)

-----------------------------------------------------------------------------
(* What is read back: the row of a validation, and the validations of a     *)
(* model (commits here name versions of one).                               *)
GetPipelineValidation(v) == validations[v]
GetValidationHistory == {v \in Validations : validations[v] # NoRow}

(* what the provider is told of a validation *)
GenerateStatusCheck(row) ==
  CASE row.status = "running" -> "pending"
    [] row.status = "passed" -> "success"
    [] row.status = "failed" -> "failure"

GetStatusCheck(v) ==
  IF GetPipelineValidation(v) = NoRow THEN "error"
  ELSE GenerateStatusCheck(GetPipelineValidation(v))

(* getRepositoryIntegrationStatus: connected once a commit was tracked;     *)
(* all validations here are of the last thirty days                         *)
GetRepositoryIntegrationStatus ==
  [connected |-> \E c \in Commits : commits[c] # NoRow,
   recentValidations |-> {v \in GetValidationHistory : commits[validations[v].commit] # NoRow}]

-----------------------------------------------------------------------------
(* The routes.  A webhook is authenticated by its signature alone and is    *)
(* answered when handleWebhook ends; the others need a user.                *)
PostProvider(p) == \E s \in Secrets, t \in ProviderTypes : RegisterProvider(p, s, t)
DeleteProvider(p) == RemoveProvider(p)
PostWebhook(w, p) ==
  \E s \in Secrets, t \in ProviderTypes, c \in Commits : HandleWebhook(w, p, s, t, c)
PostLink(c) == LinkCommitToModel(c)
PostTrigger(w) == \E c \in Commits : TriggerPipelineValidation(w, c)

CicdNext ==
  \/ \E p \in Providers : PostProvider(p) \/ DeleteProvider(p)
  \/ \E c \in Commits : PostLink(c)
  \/ \E w \in Workers :
       \/ \E p \in Providers : PostWebhook(w, p)
       \/ PostTrigger(w)
       \/ ProcessWebhook(w)
       \/ TrackCommit(w)
       \/ ValidateInPipeline(w)

CicdSpec == CicdInit /\ [][CicdNext]_cicdVars

-----------------------------------------------------------------------------
(* A provider that asks for the status of a validation in the history, once *)
(* its request has ended, is told success only if the checks were all      *)
(* passed, the completion is in the audit log, and the repository is       *)
(* reported as connected with this validation among its recent ones,       *)
(* although any one statement or audit call may fail (validateInPipeline,  *)
(* generateStatusCheck).  That the process is killed between the result    *)
(* and its log is not modelled.                                            *)
SuccessIsAudited ==
  faults <= 1 =>
    \A v \in GetValidationHistory :
      GetStatusCheck(v) = "success" =>
        /\ GetRepositoryIntegrationStatus.connected
        /\ v \in GetRepositoryIntegrationStatus.recentValidations
        /\ \/ v \in audited /\ validations[v].passed = Checks
           \/ \E w \in Workers : worker[w].id = v /\ worker[w].at \in {"log_completed", "store_failed"}
=============================================================================
