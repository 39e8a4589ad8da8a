---------------------------- MODULE MlPlatforms ----------------------------
(***************************************************************************)
(* The integration with MLflow, Hugging Face, SageMaker and Vertex AI.     *)
(* The table ml_platforms is shared; the adapters that talk to a platform  *)
(* live in the memory of the replica that registered it.  A replica that   *)
(* restarted, or another one, would build an adapter from the row, but     *)
(* getPlatform parses a JSONB column the driver has parsed already, which  *)
(* throws.  An import is announced in the audit log, asked of the adapter, *)
(* logged again and then recorded; each of the four may fail.  logEvent is *)
(* the collaborator the tests inject: AuditService has no such method.     *)
(***************************************************************************)
EXTENDS Naturals

CONSTANTS
  Platforms,   \* names
  Kinds,       \* the platform types used
  Externals,   \* models of a platform
  Replicas,    \* processes of the service
  Callers,     \* users, one request at a time
  Watched,     \* audit events kept in the trail
  NotThere     \* no row, no adapter, no model

ASSUME MlAssumption ==
  /\ Platforms # {} /\ Externals # {}
  /\ NotThere \notin [type : Kinds, apiKey : BOOLEAN]
  /\ {"import_started", "import_completed", "export_started", "export_completed"} \subseteq Watched

VARIABLES
  mlRows,      \* mlRows      : [Platforms -> row of ml_platforms or NotThere]
  mlAdapters,  \* mlAdapters  : [Replicas -> [Platforms -> adapter or NotThere]]
  mlImports,   \* mlImports   : rows of model_imports, <<platform, model>>
  mlExports,   \* mlExports   : rows of model_exports, <<platform, model>>
  mlTrail,     \* mlTrail     : audit events, <<event, <<platform, model>>>>
  mlCall       \* mlCall[c]   : the request of c and the await it is at

mlVars == <<mlRows, mlAdapters, mlImports, mlExports, mlTrail, mlCall>>

(* The four types the route accepts.  A row also says whether it has a key *)
(* of its own; SageMaker and Vertex AI have credentials instead.           *)
PlatformTypes == {"mlflow", "huggingface", "sagemaker", "vertexai"}
PlatformConfig == {a \in [type : Kinds, apiKey : BOOLEAN] :
                     a.type \in {"sagemaker", "vertexai"} => a.apiKey}

(* What a platform answers about a model: nothing (also on any failure),   *)
(* or the model and what the adapters look at.                             *)
ExternalModel == [private : BOOLEAN, licensed : BOOLEAN, reachable : BOOLEAN]

Resting == [at |-> "idle", replica |-> NotThere,
            platform |-> CHOOSE p \in Platforms : TRUE,
            model |-> CHOOSE x \in Externals : TRUE, adapter |-> NotThere, code |-> 0]

MlInit ==
  /\ mlRows = [p \in Platforms |-> NotThere]
  /\ mlAdapters = [r \in Replicas |-> [p \in Platforms |-> NotThere]]
  /\ mlImports = {}
  /\ mlExports = {}
  /\ mlTrail = {}
  /\ mlCall = [c \in Callers |-> Resting]

MlFree(c) == mlCall[c].at = "idle"
MlGo(c, at) == mlCall' = [mlCall EXCEPT ![c].at = at]
MlReply(c, code) == mlCall' = [mlCall EXCEPT ![c] = [Resting EXCEPT !.code = code]]
MlStart(c, at, r, p, x) ==
  mlCall' = [mlCall EXCEPT ![c] =
    [at |-> at, replica |-> r, platform |-> p, model |-> x,
     adapter |-> mlAdapters[r][p], code |-> 0]]
Subject(c) == <<mlCall[c].platform, mlCall[c].model>>

(* logEvent: an entry of the audit log, or a throw *)
LogEvent(c, event, next, onThrow) ==
  \/ /\ mlTrail' = IF event \in Watched
                     THEN mlTrail \cup {<<event, Subject(c)>>} ELSE mlTrail
     /\ next
  \/ mlTrail' = mlTrail /\ onThrow

-----------------------------------------------------------------------------
(* Adapters.  getModel answers one of ExternalModel, or NotThere.          *)
MlflowImport(m) == m # NotThere
IsModelImportable(a, m) == (m.private => a.apiKey) /\ m.licensed
HuggingFaceImport(a, m) == m # NotThere /\ IsModelImportable(a, m)
AreArtifactsAccessible(m) == m.reachable
SageMakerImport(m) == m # NotThere /\ AreArtifactsAccessible(m)
IsModelAccessible(m) == m.reachable
VertexImport(m) == m # NotThere /\ IsModelAccessible(m)

(* result.success of the adapter for what getModel answered *)
AdapterImports(a, m) ==
  \/ a.type = "mlflow" /\ MlflowImport(m)
  \/ a.type = "huggingface" /\ HuggingFaceImport(a, m)
  \/ a.type = "sagemaker" /\ SageMakerImport(m)
  \/ a.type = "vertexai" /\ VertexImport(m)

(* exports are placeholders that succeed; Hugging Face wants a key *)
HuggingFaceExport(a) == a.apiKey
AdapterExports(a) == a.type = "huggingface" => HuggingFaceExport(a)

-----------------------------------------------------------------------------
(* registerPlatform: the row is written, then the adapter built and kept   *)
(* and the registration logged.  The route accepts the four types only, so *)
(* that the adapter can be built.                                          *)
RegisterPlatform(c, r, p, config) ==
  /\ MlFree(c)
  /\ mlRows' = [mlRows EXCEPT ![p] = config]
  /\ mlCall' = [mlCall EXCEPT ![c] =
       [at |-> "registering", replica |-> r, platform |-> p, model |-> Resting.model,
        adapter |-> config, code |-> 0]]
  /\ UNCHANGED <<mlAdapters, mlImports, mlExports, mlTrail>>

InitializeAdapter(c) ==
  /\ mlCall[c].at = "registering"
  /\ mlAdapters' =
       [mlAdapters EXCEPT ![mlCall[c].replica][mlCall[c].platform] = mlCall[c].adapter]
  /\ LogEvent(c, "registered", MlReply(c, 201), MlReply(c, 500))
  /\ UNCHANGED <<mlRows, mlImports, mlExports>>

(* removePlatform: the row goes with the import and export rows that refer *)
(* to it, the adapter of this replica after it                             *)
OfOthers(records, p) == {i \in records : i[1] # p}
RemovePlatform(c, r, p) ==
  /\ MlFree(c)
  /\ mlRows' = [mlRows EXCEPT ![p] = NotThere]
  /\ mlImports' = OfOthers(mlImports, p)
  /\ mlExports' = OfOthers(mlExports, p)
  /\ MlStart(c, "removing", r, p, Resting.model)
  /\ UNCHANGED <<mlAdapters, mlTrail>>

DropAdapter(c) ==
  /\ mlCall[c].at = "removing"
  /\ mlAdapters' = [mlAdapters EXCEPT ![mlCall[c].replica][mlCall[c].platform] = NotThere]
  /\ LogEvent(c, "removed", MlReply(c, 200), MlReply(c, 500))
  /\ UNCHANGED <<mlRows, mlImports, mlExports>>

(* listPlatforms, getIntegrationHistory: reads of the tables *)
ListPlatforms(c) ==
  /\ MlFree(c)
  /\ MlReply(c, 200)
  /\ UNCHANGED <<mlRows, mlAdapters, mlImports, mlExports, mlTrail>>

(* getAdapter: the one in memory, else the row; reading a row throws       *)
(* (getPlatform) and no row means "Platform ... not found": both 500       *)
GetPlatform(p) == IF mlRows[p] = NotThere THEN "none" ELSE "throws"
GetAdapter(r, p) == mlAdapters[r][p]

(* testPlatformConnection, listExternalModels, getExternalModel: an        *)
(* adapter answers a failure of its platform with false, [] or null, the   *)
(* last of which the route turns into 404                                  *)
AskPlatform(c, r, p, answers) ==
  /\ MlFree(c)
  /\ IF GetAdapter(r, p) = NotThere
       THEN MlReply(c, 500)
       ELSE \E code \in answers : MlReply(c, code)
  /\ UNCHANGED <<mlRows, mlAdapters, mlImports, mlExports, mlTrail>>
TestPlatformConnection(c, r, p) == AskPlatform(c, r, p, {200})
ListModels(c, r, p) == AskPlatform(c, r, p, {200})
GetModel(c, r, p) == AskPlatform(c, r, p, {200, 404})

PostImport(c, r, p, x) ==
  /\ MlFree(c)
  /\ IF GetAdapter(r, p) = NotThere
       THEN MlReply(c, 500)
       ELSE MlStart(c, "import_started", r, p, x)
  /\ UNCHANGED <<mlRows, mlAdapters, mlImports, mlExports, mlTrail>>

PostExport(c, r, p, x) ==
  /\ MlFree(c)
  /\ IF GetAdapter(r, p) = NotThere
       THEN MlReply(c, 500)
       ELSE MlStart(c, "export_started", r, p, x)
  /\ UNCHANGED <<mlRows, mlAdapters, mlImports, mlExports, mlTrail>>

-----------------------------------------------------------------------------
(* storeImportRecord, storeExportRecord: refused when the platform is gone *)
(* meanwhile, for an import recorded before, or when the model has no row  *)
(* of its own (no import creates one).                                     *)
StoreImportRecord(c) ==
  \/ /\ mlRows[mlCall[c].platform] # NotThere
     /\ Subject(c) \notin mlImports
     /\ mlImports' = mlImports \cup {Subject(c)}
     /\ MlReply(c, 201)
  \/ mlImports' = mlImports /\ MlGo(c, "import_error")

StoreExportRecord(c) ==
  \/ /\ mlRows[mlCall[c].platform] # NotThere
     /\ mlExports' = mlExports \cup {Subject(c)}
     /\ MlReply(c, 201)
  \/ mlExports' = mlExports /\ MlGo(c, "export_error")

(* importModel, from the announcement on.  The adapter the request found   *)
(* is the one it uses, whatever is registered or removed meanwhile.        *)
ImportModel(c) ==
  \/ /\ mlCall[c].at = "import_started"
     /\ LogEvent(c, "import_started", MlGo(c, "import_asked"), MlReply(c, 500))
     /\ UNCHANGED <<mlRows, mlAdapters, mlImports, mlExports>>
  \/ /\ mlCall[c].at = "import_asked"
     /\ \E m \in ExternalModel \cup {NotThere} :
          MlGo(c, IF AdapterImports(mlCall[c].adapter, m) THEN "import_done"
                                                          ELSE "import_refused")
     /\ UNCHANGED <<mlRows, mlAdapters, mlImports, mlExports, mlTrail>>
  \/ /\ mlCall[c].at = "import_done"
     /\ LogEvent(c, "import_completed", MlGo(c, "import_store"), MlGo(c, "import_error"))
     /\ UNCHANGED <<mlRows, mlAdapters, mlImports, mlExports>>
  \/ /\ mlCall[c].at = "import_refused"
     /\ LogEvent(c, "import_failed", MlReply(c, 400), MlGo(c, "import_error"))
     /\ UNCHANGED <<mlRows, mlAdapters, mlImports, mlExports>>
  \/ /\ mlCall[c].at = "import_store"
     /\ StoreImportRecord(c)
     /\ UNCHANGED <<mlRows, mlAdapters, mlExports, mlTrail>>
  \/ /\ mlCall[c].at = "import_error"
     /\ LogEvent(c, "import_error", MlReply(c, 500), MlReply(c, 500))
     /\ UNCHANGED <<mlRows, mlAdapters, mlImports, mlExports>>
(* mutant: the row is stored before the outcome is logged *)
ExportStoredFirst(c) ==
  \/ /\ mlCall[c].at = "export_started"
     /\ LogEvent(c, "export_started", MlGo(c, "export_asked"), MlReply(c, 500))
     /\ UNCHANGED <<mlRows, mlAdapters, mlImports, mlExports>>
  \/ /\ mlCall[c].at = "export_asked"
     /\ AdapterExports(mlCall[c].adapter)
     /\ mlExports' = mlExports \cup {Subject(c)}
     /\ MlGo(c, "export_done")
     /\ UNCHANGED <<mlRows, mlAdapters, mlImports, mlTrail>>
  \/ /\ mlCall[c].at = "export_done"
     /\ LogEvent(c, "export_completed", MlReply(c, 201), MlReply(c, 500))
     /\ UNCHANGED <<mlRows, mlAdapters, mlImports, mlExports>>

(* exportModel, from the announcement on *)
ExportModel(c) ==
  \/ /\ mlCall[c].at = "export_started"
     /\ LogEvent(c, "export_started", MlGo(c, "export_asked"), MlReply(c, 500))
     /\ UNCHANGED <<mlRows, mlAdapters, mlImports, mlExports>>
  \/ /\ mlCall[c].at = "export_asked"
     /\ MlGo(c, IF AdapterExports(mlCall[c].adapter) THEN "export_done" ELSE "export_refused")
     /\ UNCHANGED <<mlRows, mlAdapters, mlImports, mlExports, mlTrail>>
  \/ /\ mlCall[c].at = "export_done"
     /\ LogEvent(c, "export_completed", MlGo(c, "export_store"), MlGo(c, "export_error"))
     /\ UNCHANGED <<mlRows, mlAdapters, mlImports, mlExports>>
  \/ /\ mlCall[c].at = "export_refused"
     /\ LogEvent(c, "export_failed", MlReply(c, 400), MlGo(c, "export_error"))
     /\ UNCHANGED <<mlRows, mlAdapters, mlImports, mlExports>>
  \/ /\ mlCall[c].at = "export_store"
     /\ StoreExportRecord(c)
     /\ UNCHANGED <<mlRows, mlAdapters, mlImports, mlTrail>>
  \/ /\ mlCall[c].at = "export_error"
     /\ LogEvent(c, "export_error", MlReply(c, 500), MlReply(c, 500))
     /\ UNCHANGED <<mlRows, mlAdapters, mlImports, mlExports>>

(* A replica restarts: its adapters and its requests are gone, and nothing *)
(* calls initializeAllPlatforms, which would throw at the first row.       *)
ReplicaRestarts(r) ==
  /\ mlAdapters' = [mlAdapters EXCEPT ![r] = [p \in Platforms |-> NotThere]]
  /\ mlCall' = [c \in Callers |->
                  IF mlCall[c].at # "idle" /\ mlCall[c].replica = r THEN Resting ELSE mlCall[c]]
  /\ UNCHANGED <<mlRows, mlImports, mlExports, mlTrail>>

MlNext ==
  \/ \E c \in Callers :
       \/ /\ MlFree(c)
          /\ \/ ListPlatforms(c)
             \/ \E r \in Replicas, p \in Platforms :
                  \/ \E config \in PlatformConfig : RegisterPlatform(c, r, p, config)
                  \/ RemovePlatform(c, r, p)
                  \/ TestPlatformConnection(c, r, p)
                  \/ ListModels(c, r, p)
                  \/ GetModel(c, r, p)
                  \/ \E x \in Externals : PostImport(c, r, p, x) \/ PostExport(c, r, p, x)
       \/ InitializeAdapter(c) \/ DropAdapter(c) \/ ImportModel(c) \/ ExportModel(c)
  \/ \E r \in Replicas : ReplicaRestarts(r)

MlSpec == MlInit /\ [][MlNext]_mlVars

-----------------------------------------------------------------------------
(* Every import and export on record was announced and its success logged, *)
(* whichever step of whichever request failed, a replica restarted or the  *)
(* platform was registered anew, and belongs to a platform that is still   *)
(* registered (storeImportRecord, removePlatform on another replica).      *)
RecordsAreAudited ==
  /\ \A i \in mlImports : /\ mlRows[i[1]] # NotThere
                          /\ {<<"import_started", i>>, <<"import_completed", i>>} \subseteq mlTrail
  /\ \A e \in mlExports : /\ mlRows[e[1]] # NotThere
                          /\ {<<"export_started", e>>, <<"export_completed", e>>} \subseteq mlTrail
=============================================================================
