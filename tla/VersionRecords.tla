--------------------------- MODULE VersionRecords ---------------------------
(***************************************************************************)
(* The versions of a model, their artifacts and their model cards, as the  *)
(* routes of the model registry serve them.  Every route that names a      *)
(* version reads all versions of the model first and goes on with the row  *)
(* it found; a write is a statement of its own.  The result of the last    *)
(* request of a client stays with it, so a client may try again after a    *)
(* lost answer.                                                            *)
(***************************************************************************)
EXTENDS Naturals

CONSTANTS
  RecordModels, \* ids of models; the rows of some exist
  Numbers,   \* version numbers
  Uploads,   \* what gen randomUUID returns for uploads
  Contents,  \* what is uploaded; a content stands for its SHA256
  Clients,   \* clients, one request at a time
  NoHash     \* the client sends no SHA256

VARIABLES
  known,     \* known     : models that have a row
  versions,  \* versions  : rows of model_versions, <<model, number>>
  artifacts, \* artifacts : rows of artifacts, [id, version, sha256, type]
  offered,   \* offered   : upload URLs given out, <<id, version>>
  ask,       \* ask[c]    : the request of client c: what, for which version, with what
  reply      \* reply[c]  : the status of its last answer, and for verify what it said

recordVars == <<known, versions, artifacts, offered, ask, reply>>

Version == RecordModels \X Numbers
Lookups ==
  {"version", "upload_url", "complete", "artifacts", "generate_card", "card",
   "card_html", "card_json"}
Direct == {"create_version", "download", "verify"}

Quiet == [op |-> "none", version |-> CHOOSE v \in Version : TRUE,
          id |-> CHOOSE u \in Uploads : TRUE, hash |-> NoHash, found |-> FALSE]

RecordsInit ==
  /\ known \in SUBSET RecordModels
  /\ versions = {}
  /\ artifacts = {}
  /\ offered = {}
  /\ ask = [c \in Clients |-> Quiet]
  /\ reply = [c \in Clients |-> 0]

Reply(c, status) ==
  /\ reply' = [reply EXCEPT ![c] = status]
  /\ ask' = [ask EXCEPT ![c] = Quiet]

(* A request, past authentication, roles and validation. *)
UploadRequest(c, op, v, u, h) ==
  /\ ask[c].op = "none"
  /\ ask' = [ask EXCEPT ![c] = [Quiet EXCEPT !.op = op, !.version = v, !.id = u, !.hash = h]]
  /\ UNCHANGED <<known, versions, artifacts, offered, reply>>

PostVersion(c, v) == UploadRequest(c, "create_version", v, Quiet.id, NoHash)
GetVersion(c, v) == UploadRequest(c, "version", v, Quiet.id, NoHash)
PostUploadUrl(c, v) == UploadRequest(c, "upload_url", v, Quiet.id, NoHash)
(* the id is whatever the client puts into the path *)
PostComplete(c, v, u, h) == UploadRequest(c, "complete", v, u, h)
GetArtifacts(c, v) == UploadRequest(c, "artifacts", v, Quiet.id, NoHash)
GetDownload(c, u) == UploadRequest(c, "download", Quiet.version, u, NoHash)
PostVerify(c, u, h) == h # NoHash /\ UploadRequest(c, "verify", Quiet.version, u, h)
GenerateCard(c, v) == UploadRequest(c, "generate_card", v, Quiet.id, NoHash)
GetCard(c, v) == UploadRequest(c, "card", v, Quiet.id, NoHash)
GetCardHTML(c, v) == UploadRequest(c, "card_html", v, Quiet.id, NoHash)
GetCardJSON(c, v) == UploadRequest(c, "card_json", v, Quiet.id, NoHash)

-----------------------------------------------------------------------------
(* getModelVersions, and find of the number: 404 without one *)
FindVersionRow(c) ==
  /\ ask[c].op \in Lookups /\ ~ask[c].found
  /\ IF ask[c].version \in versions
       THEN ask' = [ask EXCEPT ![c].found = TRUE] /\ UNCHANGED reply
       ELSE Reply(c, 404)
  /\ UNCHANGED <<known, versions, artifacts, offered>>

Found(c, op) == ask[c].op = op /\ ask[c].found

(* createVersion: 23503 without the model, 23505 for a second row *)
InsertVersion(c) ==
  LET v == ask[c].version
  IN  /\ ask[c].op = "create_version"
      /\ \/ v[1] \notin known /\ Reply(c, 404) /\ UNCHANGED versions
         \/ v[1] \in known /\ v \in versions /\ Reply(c, 409) /\ UNCHANGED versions
         \/ v[1] \in known /\ v \notin versions /\ versions' = versions \cup {v} /\ Reply(c, 201)
      /\ UNCHANGED <<known, artifacts, offered>>

ReadVersionRow(c) ==
  /\ Found(c, "version") \/ Found(c, "artifacts")
  /\ Reply(c, 200)
  /\ UNCHANGED <<known, versions, artifacts, offered>>

(* generateArtifactUploadUrl: an id is made up, nothing is stored *)
OfferUpload(c) ==
  /\ Found(c, "upload_url")
  /\ \E u \in Uploads :
       /\ \A o \in offered : o[1] # u
       /\ offered' = offered \cup {<<u, ask[c].version>>}
  /\ Reply(c, 200)
  /\ UNCHANGED <<known, versions, artifacts>>

(* mutant: the row gets an id of its own, and a retry inserts another *)
InsertArtifactAgain(c) ==
  /\ Found(c, "complete")
  /\ artifacts' = artifacts \cup
       {[id |-> ask[c].id, version |-> ask[c].version, sha256 |-> ask[c].hash, type |-> "weights"]}
  /\ Reply(c, 201)
  /\ UNCHANGED <<known, versions, offered>>

(* createArtifact: the type is weights whatever was asked for; without a   *)
(* SHA256 a random one is stored, which no content has (NoHash).  The id   *)
(* is the primary key: a retry gets 500.                                   *)
InsertArtifact(c) ==
  /\ Found(c, "complete")
  /\ IF \E a \in artifacts : a.id = ask[c].id
       THEN Reply(c, 500) /\ UNCHANGED artifacts
       ELSE /\ artifacts' = artifacts \cup
                 {[id |-> ask[c].id, version |-> ask[c].version,
                   sha256 |-> ask[c].hash, type |-> "weights"]}
            /\ Reply(c, 201)
  /\ UNCHANGED <<known, versions, offered>>

(* the routes of one artifact do not look at model and version *)
ReadArtifact(c) ==
  /\ ask[c].op = "download"
  /\ Reply(c, IF \E a \in artifacts : a.id = ask[c].id THEN 200 ELSE 404)
  /\ UNCHANGED <<known, versions, artifacts, offered>>

(* verifyArtifactIntegrity: 1 stands for isValid, 2 for its negation *)
VerifyArtifact(c) ==
  /\ ask[c].op = "verify"
  /\ \/ \E a \in artifacts :
          a.id = ask[c].id /\ Reply(c, IF a.sha256 = ask[c].hash THEN 1 ELSE 2)
     \/ (\A a \in artifacts : a.id # ask[c].id) /\ Reply(c, 404)
  /\ UNCHANGED <<known, versions, artifacts, offered>>

(* generateModelCard: version.modelId is undefined, the model not found *)
FailCard(c) ==
  /\ Found(c, "generate_card")
  /\ Reply(c, 500)
  /\ UNCHANGED <<known, versions, artifacts, offered>>

(* getModelCard: no row was ever stored *)
ReadCard(c) ==
  /\ \E op \in {"card", "card_html", "card_json"} : Found(c, op)
  /\ Reply(c, 404)
  /\ UNCHANGED <<known, versions, artifacts, offered>>

RecordStep(c) ==
  \/ FindVersionRow(c) \/ InsertVersion(c) \/ ReadVersionRow(c) \/ OfferUpload(c)
  \/ InsertArtifact(c) \/ ReadArtifact(c) \/ VerifyArtifact(c) \/ FailCard(c) \/ ReadCard(c)

RecordRequest(c) ==
  \/ \E v \in Version :
       \/ PostVersion(c, v) \/ GetVersion(c, v) \/ PostUploadUrl(c, v) \/ GetArtifacts(c, v)
       \/ GenerateCard(c, v) \/ GetCard(c, v) \/ GetCardHTML(c, v) \/ GetCardJSON(c, v)
       \/ \E u \in Uploads, h \in Contents \cup {NoHash} : PostComplete(c, v, u, h)
  \/ \E u \in Uploads :
       GetDownload(c, u) \/ \E h \in Contents : PostVerify(c, u, h)

RecordsNext == \E c \in Clients : RecordRequest(c) \/ RecordStep(c)

RecordsSpec == RecordsInit /\ [][RecordsNext]_recordVars

-----------------------------------------------------------------------------
(* OneRowPerUpload: a completion that is tried again, because its answer   *)
(* was lost or because two clients send it, never makes a second row for   *)
(* the upload, and a row belongs to a version that exists.                 *)
OneRowPerUpload ==
  /\ \A a, b \in artifacts : a.id = b.id => a = b
  /\ \A a \in artifacts : a.version \in versions
=============================================================================
