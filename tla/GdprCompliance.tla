--------------------------- MODULE GdprCompliance ---------------------------
(***************************************************************************)
(* GDPRComplianceService: requests of one data subject, processed in a     *)
(* transaction, over the columns the inventory of personal data lists.     *)
(* The search for the subject goes through the pool, one statement a       *)
(* column, outside the transaction; the deletions are inside.  Once a      *)
(* statement of a transaction fails, PostgreSQL refuses all that follow,   *)
(* whether or not the code catches the failure.                            *)
(***************************************************************************)
EXTENDS Naturals, FiniteSets

CONSTANTS
  Columns,   \* columns of category contact, numbered in the order of table and column
  Requests,  \* rows of data_subject_requests
  Officers   \* calls of processDataSubjectRequest that may overlap

ASSUME GdprAssumption == Columns \subseteq Nat

VARIABLES
  value,   \* value[k] : what column k holds of the subject: "none", "plain" or "masked"
  listed,  \* listed   : the columns the inventory lists
  request, \* request[r] : the row: [type, status, found], found the columns it reports
  work     \* work[c]  : call c: a transaction, or an inquiry through the pool

gdprVars == <<value, listed, request, work>>

Types == {"access", "deletion", "rectification", "portability"}
RequestStatuses == {"pending", "processing", "completed", "rejected"}

(* kind: what the call does; left: columns still to visit; seen: where the *)
(* subject was found and, in a deletion, is still to be deleted; gone:     *)
(* rows deleted and not committed; sure: history, the columns that held    *)
(* the subject throughout and whose search did not fail                    *)
NoWork == [at |-> "idle", request |-> CHOOSE r \in Requests : TRUE, kind |-> "none",
           to |-> "pending", left |-> {}, seen |-> {}, gone |-> {}, sure |-> {},
           aborted |-> FALSE]

GdprInit ==
  /\ value \in [Columns -> {"none", "plain"}]
  /\ listed \in SUBSET Columns
  /\ request = [r \in Requests |-> [type |-> "access", status |-> "none", found |-> {}]]
  /\ work = [c \in Officers |-> NoWork]

First(S) == CHOOSE k \in S : \A j \in S : k <= j
Locked(k) == \E c \in Officers : k \in work[c].gone
At(c, place) == work[c].at = place
Unsure(S) == [c \in Officers |-> [work[c] EXCEPT !.sure = @ \ S]]

-----------------------------------------------------------------------------
CreateDataSubjectRequest(r, type) ==
  /\ request' = [request EXCEPT ![r] = [type |-> type, status |-> "pending", found |-> {}]]
  /\ UNCHANGED <<value, listed, work>>

PostRequest(r, type) == request[r].status = "none" /\ CreateDataSubjectRequest(r, type)

(* addPersonalDataInventory: a second entry of a column is refused *)
ListColumn(k) ==
  /\ k \notin listed
  /\ listed' = listed \cup {k}
  /\ UNCHANGED <<value, request, work>>

(* external: another part of the program stores the subject's data *)
StoreValue(k) ==
  /\ value[k] = "none"
  /\ value' = [value EXCEPT ![k] = "plain"]
  /\ UNCHANGED <<listed, request, work>>

(* BEGIN and the SELECT of the request.  No status forbids another one,    *)
(* and only completing one of these types does more than store the status. *)
BeginProcess(c, r, to) ==
  LET does == to = "completed" /\ request[r].type # "rectification"
  IN  work' = [work EXCEPT ![c] =
        [NoWork EXCEPT !.request = r, !.to = to, !.kind = request[r].type,
           !.at = IF does THEN "inventory" ELSE "update"]]

PutProcess(c, r, to) ==
  /\ At(c, "idle") /\ request[r].status # "none"
  /\ BeginProcess(c, r, to)
  /\ UNCHANGED <<value, listed, request>>

(* GET /gdpr/personal-data: the same search without a transaction *)
GetPersonalData(c) ==
  /\ At(c, "idle")
  /\ work' = [work EXCEPT ![c] = [NoWork EXCEPT !.kind = "inquiry", !.at = "inventory"]]
  /\ UNCHANGED <<value, listed, request>>

(* also what GET /gdpr/personal-data-inventory answers *)
GetPersonalDataInventory == listed

ReadInventory(c) ==
  /\ At(c, "inventory")
  /\ work' = [work EXCEPT ![c].at = "search", ![c].left = GetPersonalDataInventory,
        ![c].sure = {k \in GetPersonalDataInventory : value[k] = "plain"}]
  /\ UNCHANGED <<value, listed, request>>

(* identifyPersonalDataForSubject: a failing query counts as no value *)
SearchColumn(c) ==
  LET w == work[c]
      k == First(w.left)
      after == IF w.kind = "deletion" THEN "delete" ELSE "update"
      next == [w EXCEPT !.left = @ \ {k}, !.at = IF w.left = {k} THEN after ELSE "search"]
  IN  /\ At(c, "search")
      /\ \/ w.left = {} /\ work' = [work EXCEPT ![c].at = after]
         \/ /\ w.left # {} /\ value[k] = "plain"
            /\ work' = [work EXCEPT ![c] = [next EXCEPT !.seen = @ \cup {k}]]
         \/ /\ w.left # {}
            /\ work' = [work EXCEPT ![c] = [next EXCEPT !.sure = @ \ {k}]]
      /\ UNCHANGED <<value, listed, request>>

(* mutant: a deletion that fails leaves the transaction usable *)
DeleteAndContinue(c) ==
  LET k == First(work[c].seen)
  IN  /\ At(c, "delete")
      /\ \/ work[c].seen = {} /\ work' = [work EXCEPT ![c].at = "update"]
         \/ /\ work[c].seen # {} /\ ~Locked(k)
            /\ \E gone \in {{k}, {}} :
                 work' = [work EXCEPT ![c].seen = @ \ {k}, ![c].gone = @ \cup gone]
      /\ UNCHANGED <<value, listed, request>>

(* processDeletionRequest: column after column.  A deletion waits for the  *)
(* transaction that has the row, and may fail, which the loop survives and *)
(* the transaction does not.                                               *)
DeleteColumn(c) ==
  LET k == First(work[c].seen)
  IN  /\ At(c, "delete")
      /\ \/ work[c].seen = {} /\ work' = [work EXCEPT ![c].at = "update"]
         \/ /\ work[c].seen # {} /\ ~work[c].aborted /\ ~Locked(k)
            /\ \/ work' = [work EXCEPT ![c].seen = @ \ {k},
                     ![c].gone = IF value[k] = "plain" THEN @ \cup {k} ELSE @]
               \/ work' = [work EXCEPT ![c].seen = @ \ {k}, ![c].aborted = TRUE]
         \/ /\ work[c].seen # {} /\ work[c].aborted
            /\ work' = [work EXCEPT ![c].seen = @ \ {k}]
      /\ UNCHANGED <<value, listed, request>>

(* the columns the details of a completed request report *)
ProcessAccessRequest(w) == w.seen
ProcessPortabilityRequest(w) == w.seen
ProcessRectificationRequest(w) == {}

Reported(w) ==
  CASE w.to # "completed" -> {}
    [] w.kind = "access" -> ProcessAccessRequest(w)
    [] w.kind = "portability" -> ProcessPortabilityRequest(w)
    [] w.kind = "rectification" -> ProcessRectificationRequest(w)
    [] OTHER -> {}

(* The UPDATE of the request and COMMIT. *)
FinishProcess(c) ==
  /\ At(c, "update") /\ work[c].kind # "inquiry" /\ ~work[c].aborted
  /\ request' = [request EXCEPT ![work[c].request].status = work[c].to,
                                ![work[c].request].found = Reported(work[c])]
  /\ value' = [k \in Columns |-> IF k \in work[c].gone THEN "none" ELSE value[k]]
  /\ work' = [Unsure(work[c].gone) EXCEPT ![c] = NoWork]
  /\ UNCHANGED listed

(* The answer to an inquiry, or ROLLBACK when a statement outside the *)
(* loops fails                                                        *)
RollbackProcess(c) ==
  /\ work[c].at \in {"inventory", "update"}
  /\ work' = [work EXCEPT ![c] = NoWork]
  /\ UNCHANGED <<value, listed, request>>

-----------------------------------------------------------------------------
(* pseudonymizePersonalData: an UPDATE of the column, which waits for a    *)
(* deletion.  What it notes in the inventory nobody reads.  The method     *)
(* tokenize changes nothing.                                               *)
Pseudonymize(k) ==
  /\ ~Locked(k)
  /\ value[k] = "plain"
  /\ value' = [value EXCEPT ![k] = "masked"]
  /\ work' = Unsure({k})
  /\ UNCHANGED <<listed, request>>

GdprNext ==
  \/ \E r \in Requests, type \in Types : PostRequest(r, type)
  \/ \E k \in Columns :
       ListColumn(k) \/ StoreValue(k) \/ Pseudonymize(k)
  \/ \E c \in Officers :
       \/ \E r \in Requests, to \in RequestStatuses : PutProcess(c, r, to)
       \/ GetPersonalData(c) \/ ReadInventory(c) \/ SearchColumn(c) \/ DeleteColumn(c)
       \/ FinishProcess(c) \/ RollbackProcess(c)

GdprSpec == GdprInit /\ [][GdprNext]_gdprVars

-----------------------------------------------------------------------------
(* RequestsAreWhole: data of the subject disappears only in the step that  *)
(* completes a deletion request, and that step removes it from every       *)
(* listed column that held it when the inventory was read, unless the      *)
(* search there failed or the value had been changed by then.  A completed *)
(* request for access or portability reports every such column.            *)
RequestsAreWhole ==
  [][LET Completes(c, kinds) ==
           FinishProcess(c) /\ work[c].to = "completed" /\ work[c].kind \in kinds
     IN  /\ \A k \in Columns :
              value[k] = "plain" /\ value'[k] = "none" =>
                \E c \in Officers : Completes(c, {"deletion"})
         /\ \A c \in Officers :
              /\ Completes(c, {"deletion"}) => \A k \in work[c].sure : value'[k] = "none"
              /\ Completes(c, {"access", "portability"}) =>
                   work[c].sure \subseteq request'[work[c].request].found]_gdprVars
=============================================================================
