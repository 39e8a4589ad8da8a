-------------------------- MODULE EvidenceBundles --------------------------
(***************************************************************************)
(* EvidenceBundleService: a bundle or a report is a row and a file.  The   *)
(* file is made after the request was answered, and its end is written to  *)
(* the row; the clean-up of expired bundles removes file and row content   *)
(* on its own schedule.  A bundle lists audit logs and then says whether   *)
(* the chain verified over their period.  One action is one statement or   *)
(* one file operation; each may fail.                                      *)
(***************************************************************************)
EXTENDS Naturals

CONSTANTS
  Bundles,   \* rows of evidence_bundles
  Reports,   \* rows of compliance_reports
  MaxSweeps, \* bound: runs of the clean-up
  MaxLogs    \* bound: audit logs that match the criteria

Files == Bundles \cup Reports

VARIABLES
  status,   \* status[f]  : the status of the row, "none" before it is inserted
  path,     \* path[f]    : the row names the file
  file,     \* file[f]    : on disk: "none", "part" or "whole"
  due,      \* due[b]     : expires_at of the bundle is past
  making,   \* making[f]  : where the generation of f is
  logs,     \* logs       : how many audit logs match the criteria
  lists,    \* lists[f]   : how many of them the file of f lists
  covers,   \* covers[f]  : how many the verification covered, a set: empty without one
  sweep,    \* sweep      : rows the clean-up has read and not treated, <<b, path>>
  sweeping, \* sweeping   : the bundle whose file the clean-up has just removed, as a set
  sweeps,   \* sweeps     : clean-ups so far
  unmarked  \* unmarked   : history: the UPDATE of a clean-up failed after the file was removed

contentVars == <<logs, lists, covers>>
sweepVars == <<sweep, sweeping, sweeps>>
bundleVars == <<status, path, file, due, making, contentVars, sweepVars, unmarked>>

BundlesInit ==
  /\ status = [f \in Files |-> "none"]
  /\ path = [f \in Files |-> FALSE]
  /\ file = [f \in Files |-> "none"]
  /\ due = [b \in Bundles |-> FALSE]
  /\ making = [f \in Files |-> "idle"]
  /\ logs = 0
  /\ lists = [f \in Files |-> 0]
  /\ covers = [f \in Files |-> {}]
  /\ sweep = {}
  /\ sweeping = {}
  /\ sweeps = 0
  /\ unmarked = FALSE

Step(f, place) == making' = [making EXCEPT ![f] = place]

(* a write to the row of f: done, or refused *)
WriteRow(f, to, named) ==
  \/ status' = [status EXCEPT ![f] = to] /\ path' = [path EXCEPT ![f] = named]
  \/ UNCHANGED <<status, path>>

-----------------------------------------------------------------------------
(* createEvidenceBundle: the row is committed, the request is answered and *)
(* the generation starts.  Nothing compares expiresAt with now.            *)
CreateEvidenceBundle(b) ==
  /\ status' = [status EXCEPT ![b] = "generating"]
  /\ Step(b, "load")
  /\ UNCHANGED <<path, file, due, contentVars, sweepVars, unmarked>>

PostBundle(b) == status[b] = "none" /\ CreateEvidenceBundle(b)

(* createComplianceReport: status has the default of the table *)
CreateComplianceReport(r) ==
  /\ status' = [status EXCEPT ![r] = "draft"]
  /\ Step(r, "load")
  /\ UNCHANGED <<path, file, due, contentVars, sweepVars, unmarked>>

PostReport(r) == status[r] = "none" /\ CreateComplianceReport(r)

(* the read before the try block: its failure leaves the inner catch out *)
LoadRow(f) ==
  /\ making[f] = "load"
  /\ \E to \in {"outer", IF f \in Bundles THEN "open" ELSE "start"} : Step(f, to)
  /\ UNCHANGED <<status, path, file, due, contentVars, sweepVars, unmarked>>

StartReport(r) ==
  /\ making[r] = "start"
  /\ WriteRow(r, "generating", FALSE)
  /\ Step(r, IF status'[r] = "generating" THEN "list" ELSE "inner")
  /\ UNCHANGED <<file, due, contentVars, sweepVars, unmarked>>

(* mkdir and createWriteStream; require may not exist *)
OpenArchive(b) ==
  /\ making[b] = "open"
  /\ \/ file' = [file EXCEPT ![b] = "part"] /\ Step(b, "list")
     \/ Step(b, "inner") /\ UNCHANGED file
  /\ UNCHANGED <<status, path, due, contentVars, sweepVars, unmarked>>

(* queryAuditLogs: the latest of the logs, up to a limit (the criteria's,  *)
(* 1000 without one, 10000 for a report), which here is one or not reached *)
SelectLogs(f, limited) ==
  lists' = [lists EXCEPT ![f] = IF limited /\ logs > 1 THEN 1 ELSE logs]

(* Only criteria with a date are verified.  A report never is. *)
ListLogs(f) ==
  /\ making[f] = "list"
  /\ \/ /\ \E limited \in BOOLEAN : SelectLogs(f, limited)
        /\ \E to \in {"write", IF f \in Bundles THEN "verify" ELSE "write"} : Step(f, to)
     \/ Step(f, "inner") /\ UNCHANGED lists
  /\ UNCHANGED <<status, path, file, due, logs, covers, sweepVars, unmarked>>

VerifyLogs(b) ==
  /\ making[b] = "verify"
  /\ \/ covers' = [covers EXCEPT ![b] = {logs}] /\ Step(b, "write")
     \/ Step(b, "inner") /\ UNCHANGED covers
  /\ UNCHANGED <<status, path, file, due, logs, lists, sweepVars, unmarked>>

(* mutant: the row becomes ready before the file is closed *)
WriteFileLater(f) ==
  /\ making[f] = "write"
  /\ \E to \in {"store", "inner"} : Step(f, to)
  /\ UNCHANGED <<status, path, file, due, contentVars, sweepVars, unmarked>>

(* metadata, finalize, close, and reading it back for the hash; a report   *)
(* is written in one piece                                                 *)
WriteFile(f) ==
  /\ making[f] = "write"
  /\ \/ file' = [file EXCEPT ![f] = "whole"] /\ \E to \in {"store", "inner"} : Step(f, to)
     \/ Step(f, "inner") /\ UNCHANGED file
  /\ UNCHANGED <<status, path, due, contentVars, sweepVars, unmarked>>

StoreReady(f) ==
  /\ making[f] = "store"
  /\ WriteRow(f, "ready", TRUE)
  /\ Step(f, IF status'[f] = "ready" THEN "done" ELSE "inner")
  /\ UNCHANGED <<file, due, contentVars, sweepVars, unmarked>>

(* the catch block writes the failure and throws it on *)
CatchInside(f) ==
  /\ making[f] = "inner"
  /\ WriteRow(f, IF f \in Bundles THEN "error" ELSE "archived", path[f])
  /\ Step(f, "outer")
  /\ UNCHANGED <<file, due, contentVars, sweepVars, unmarked>>

(* the catch of the caller writes it once more and waits for nothing *)
CatchOutside(f) ==
  /\ making[f] = "outer"
  /\ WriteRow(f, IF f \in Bundles THEN "error" ELSE "archived", path[f])
  /\ Step(f, "done")
  /\ UNCHANGED <<file, due, contentVars, sweepVars, unmarked>>

(* createAuditLog, by whoever: the log is committed *)
AppendLog ==
  /\ logs < MaxLogs
  /\ logs' = logs + 1
  /\ UNCHANGED <<status, path, file, due, making, lists, covers, sweepVars, unmarked>>

(* what the reads answer: the row, and the file of a bundle *)
GetEvidenceBundle(b) == [status |-> status[b], path |-> path[b]]
GetComplianceReport(r) == [status |-> status[r], path |-> path[r]]

DownloadEvidenceBundle(b) ==
  LET row == GetEvidenceBundle(b)
  IN  IF row.status = "ready" /\ row.path THEN file[b] ELSE "none"

-----------------------------------------------------------------------------
(* cleanupExpiredBundles *)

Expire(b) ==
  /\ ~due[b]
  /\ due' = [due EXCEPT ![b] = TRUE]
  /\ UNCHANGED <<status, path, file, making, contentVars, sweepVars, unmarked>>

SelectExpired ==
  /\ sweep = {} /\ sweeping = {} /\ sweeps < MaxSweeps
  /\ sweep' = {<<b, path[b]>> : b \in {x \in Bundles : due[x] /\ status[x] \notin {"none", "expired"}}}
  /\ sweeps' = sweeps + 1
  /\ UNCHANGED <<status, path, file, due, making, contentVars, sweeping, unmarked>>

(* unlink of the path as it was read; a failure is only logged *)
UnlinkBundle ==
  /\ sweeping = {}
  /\ \E s \in sweep :
       /\ sweep' = sweep \ {s}
       /\ sweeping' = {s[1]}
       /\ \/ s[2] /\ file' = [file EXCEPT ![s[1]] = "none"]
          \/ UNCHANGED file
  /\ UNCHANGED <<status, path, due, making, contentVars, sweeps, unmarked>>

MarkExpired ==
  /\ sweeping # {}
  /\ sweeping' = {}
  /\ \/ /\ status' = [b \in Files |-> IF b \in sweeping THEN "expired" ELSE status[b]]
        /\ path' = [b \in Files |-> path[b] /\ b \notin sweeping]
        /\ UNCHANGED unmarked
     \/ unmarked' = TRUE /\ UNCHANGED <<status, path>>
  /\ UNCHANGED <<file, due, making, contentVars, sweep, sweeps>>

Generate(f) ==
  \/ LoadRow(f) \/ ListLogs(f) \/ WriteFile(f) \/ StoreReady(f)
  \/ CatchInside(f) \/ CatchOutside(f)

BundlesNext ==
  \/ \E b \in Bundles : PostBundle(b) \/ OpenArchive(b) \/ VerifyLogs(b) \/ Expire(b)
  \/ \E r \in Reports : PostReport(r) \/ StartReport(r)
  \/ \E f \in Files : Generate(f)
  \/ SelectExpired \/ UnlinkBundle \/ MarkExpired \/ AppendLog

BundlesSpec == BundlesInit /\ [][BundlesNext]_bundleVars

-----------------------------------------------------------------------------
(* BundleFilesAgree: no download sends a file that is being written, and a *)
(* row names its file exactly when it is ready, however its generation,    *)
(* its failures and a clean-up that treats it meanwhile are interleaved.   *)
(* As long as every clean-up could mark what it treated, a bundle or a     *)
(* report that the reads show ready has its whole file, unless the         *)
(* clean-up has just removed it.                                           *)
(* Whatever logs arrive in between, the logs a bundle lists are among      *)
(* those its verification covered, if it has one.  (The converse does not  *)
(* hold: logs past the limit, and logs that arrive later, are verified and *)
(* not listed.)                                                            *)
BundleFilesAgree ==
  /\ \A b \in Bundles : DownloadEvidenceBundle(b) # "part"
  /\ \A f \in Files :
       LET row == IF f \in Bundles THEN GetEvidenceBundle(f) ELSE GetComplianceReport(f)
       IN  /\ row.path <=> row.status = "ready"
           /\ ~unmarked /\ row.path => file[f] = "whole" \/ f \in sweeping
  /\ \A b \in Bundles : \A n \in covers[b] : lists[b] <= n
=============================================================================
