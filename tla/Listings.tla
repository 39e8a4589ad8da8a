------------------------------ MODULE Listings ------------------------------
(***************************************************************************)
(* The listings that answer in pages: a COUNT, then a SELECT with ORDER BY *)
(* ..., LIMIT and OFFSET, as two statements outside a transaction, while   *)
(* rows arrive and leave.  A client walks: it asks for the next page as    *)
(* long as an answer says, or its total implies, that there is more.  The  *)
(* rows are those that match the filters; the listing stays the same for   *)
(* the whole walk.                                                         *)
(***************************************************************************)
EXTENDS Naturals, Sequences, FiniteSets

CONSTANTS
  MaxRow,   \* bound: rows, numbered by id
  Limits,   \* page sizes a request names, or has by default
  Moments,  \* the times the rows may have, functions of the ids
  MaxOffset \* bound: the offset of a page of a walk

Ids == 1..MaxRow

ASSUME ListingsAssumption ==
  MaxRow \in Nat /\ Limits \subseteq Nat \ {0} /\ Moments \subseteq [Ids -> Nat]

Listings == {"bundles", "reports", "requests", "retention", "logs",
             "suites", "datasets", "history", "policies", "deployments"}

VARIABLES
  listing, \* the listing that is walked
  moment,  \* moment[r] : the time of row r, by which the listing is ordered
  rows,    \* the rows that match
  walk     \* the walk: [at, limit, offset, total, page, missing, upset]

listingVars == <<listing, moment, rows, walk>>

(* missing: rows that were there at the first request and not answered;    *)
(* upset: history, a row left, or arrived between the two statements of a  *)
(* page, or the enforcement of one failed                                  *)
NoWalk == [at |-> "idle", limit |-> 1, offset |-> 0, total |-> 0, page |-> <<>>,
           missing |-> {}, upset |-> FALSE]

ListingsInit ==
  /\ listing \in Listings
  /\ moment \in Moments
  /\ rows \in SUBSET Ids
  /\ walk = NoWalk

-----------------------------------------------------------------------------
(* the orders an ORDER BY ... DESC may answer in: logs are ordered by id   *)
(* within a moment, all others as the database likes                       *)
Precedes(r, q) ==
  \/ moment[r] > moment[q]
  \/ moment[r] = moment[q] /\ (listing = "logs" => r > q)

Ordered == {s \in [1..Cardinality(rows) -> rows] :
              \A i, j \in DOMAIN s : i < j => s[i] # s[j] /\ Precedes(s[i], s[j])}

Slice(s, offset, limit) ==
  SubSeq(s, offset + 1, IF offset + limit < Len(s) THEN offset + limit ELSE Len(s))

(* the first statement and the second *)
CountRows ==
  /\ walk.at = "count"
  /\ walk' = [walk EXCEPT !.at = "select", !.total = Cardinality(rows)]
  /\ UNCHANGED <<listing, moment, rows>>

SelectRows(from, to) ==
  /\ walk.at = from
  /\ \E s \in Ordered : walk' = [walk EXCEPT !.at = to,
                                   !.page = Slice(s, walk.offset, walk.limit)]
  /\ UNCHANGED <<listing, moment, rows>>

CountThenSelect(l) == listing = l /\ (CountRows \/ SelectRows("select", "answer"))

ListEvidenceBundles == CountThenSelect("bundles")
ListComplianceReports == CountThenSelect("reports")
ListDataSubjectRequests == CountThenSelect("requests")
ListDataRetentionPolicies == CountThenSelect("retention")
QueryAuditLogs == CountThenSelect("logs")
SearchEvaluationSuites == CountThenSelect("suites")
SearchEvaluationDatasets == CountThenSelect("datasets")
GetEvaluationHistory == CountThenSelect("history")

(* Promise.all: the statements run in either order.  With a search the     *)
(* SELECT names parameters that are not bound, and the request fails.      *)
CountLast ==
  /\ walk.at = "counts"
  /\ walk' = [walk EXCEPT !.at = "answer", !.total = Cardinality(rows)]
  /\ UNCHANGED <<listing, moment, rows>>

FailSearch ==
  /\ walk.at = "count"
  /\ walk' = NoWalk
  /\ UNCHANGED <<listing, moment, rows>>

SearchPolicies ==
  /\ listing = "policies"
  /\ \/ CountRows \/ SelectRows("select", "answer")
     \/ SelectRows("count", "counts") \/ CountLast
     \/ FailSearch

(* no COUNT *)
GetDeployments == listing = "deployments" /\ SelectRows("count", "answer")

-----------------------------------------------------------------------------
(* The client begins a walk, or asks for the page after the rows it has.   *)
(* Routes pass limit and offset on, but policies have pages: the offset is *)
(* rounded down to one.                                                    *)
OffsetOf(limit, offset) ==
  IF listing = "policies" THEN (offset \div limit) * limit ELSE offset

BeginWalk ==
  /\ walk.at = "idle"
  /\ \E limit \in Limits :
       walk' = [NoWalk EXCEPT !.at = "count", !.limit = limit, !.missing = rows]
  /\ UNCHANGED <<listing, moment, rows>>

(* mutant: the row that makes the page the last one is counted twice *)
HasMoreShort(offset, page, total) == offset + Len(page) + 1 < total

(* five of the listings answer this; for the others but one the client     *)
(* computes it from the total, and for deployments from a full page        *)
HasMore(offset, page, total) == offset + Len(page) < total

More ==
  IF listing = "deployments"
    THEN Len(walk.page) = walk.limit
    ELSE HasMore(walk.offset, walk.page, walk.total)

OnPage == {walk.page[i] : i \in DOMAIN walk.page}

AnswerPage ==
  LET next == OffsetOf(walk.limit, walk.offset + Len(walk.page))
      kept == [walk EXCEPT !.missing = @ \ OnPage, !.page = <<>>, !.total = 0]
  IN  /\ walk.at = "answer"
      /\ walk' = IF More THEN [kept EXCEPT !.at = "count", !.offset = next]
                         ELSE [kept EXCEPT !.at = "done"]
      /\ walk'.offset <= MaxOffset
      /\ UNCHANGED <<listing, moment, rows>>

-----------------------------------------------------------------------------
(* enforceDataRetentionPolicies: the first page of the listing, then one   *)
(* policy after the other: nothing is deleted, and the enforcement is      *)
(* logged, or the error noted.  What the first page leaves out is not      *)
(* looked at.                                                              *)
EnforceRetention ==
  /\ listing = "retention" /\ walk.at = "answer" /\ walk.offset = 0
  /\ walk' = [walk EXCEPT !.at = IF More THEN "enforceFirst" ELSE "enforce"]
  /\ UNCHANGED <<listing, moment, rows>>

EnforcePolicy ==
  /\ walk.at \in {"enforce", "enforceFirst"} /\ walk.page # <<>>
  /\ \/ walk' = [walk EXCEPT !.page = Tail(@), !.missing = @ \ {Head(walk.page)}]
     \/ walk' = [walk EXCEPT !.page = Tail(@), !.upset = TRUE]
  /\ UNCHANGED <<listing, moment, rows>>

EndEnforcement ==
  /\ walk.at = "enforce" /\ walk.page = <<>>
  /\ walk' = [walk EXCEPT !.at = "done"]
  /\ UNCHANGED <<listing, moment, rows>>

-----------------------------------------------------------------------------
Between == walk.at = "select"

(* a row is committed, or begins to match: its time may be any *)
RowArrives(r) ==
  /\ r \notin rows
  /\ rows' = rows \cup {r}
  /\ walk' = [walk EXCEPT !.upset = @ \/ Between]
  /\ UNCHANGED <<listing, moment>>

PostRetentionPolicy(r) == listing = "retention" /\ RowArrives(r)
CreateEvaluationDataset(r) == listing = "datasets" /\ RowArrives(r)
ArriveElsewhere(r) == listing \notin {"retention", "datasets"} /\ RowArrives(r)

(* a row is deleted or stops matching: logs and retention policies do not *)
Leave(r) ==
  /\ listing \notin {"logs", "retention"} /\ r \in rows
  /\ rows' = rows \ {r}
  /\ walk' = [walk EXCEPT !.upset = @ \/ walk.at # "idle"]
  /\ UNCHANGED <<listing, moment>>

ListingsNext ==
  \/ ListEvidenceBundles \/ ListComplianceReports \/ ListDataSubjectRequests
  \/ ListDataRetentionPolicies \/ QueryAuditLogs \/ SearchEvaluationSuites
  \/ SearchEvaluationDatasets \/ GetEvaluationHistory \/ SearchPolicies \/ GetDeployments
  \/ BeginWalk \/ AnswerPage \/ EnforceRetention \/ EnforcePolicy \/ EndEnforcement
  \/ \E r \in Ids :
       PostRetentionPolicy(r) \/ CreateEvaluationDataset(r) \/ ArriveElsewhere(r) \/ Leave(r)

ListingsSpec == ListingsInit /\ [][ListingsNext]_listingVars

-----------------------------------------------------------------------------
(* PagesMissNothing: a walk that has ended has shown every row that was    *)
(* listed when it began, however many arrived meanwhile, if none left,     *)
(* none arrived between the two statements of a page, and no two are of    *)
(* one moment unless the listing orders them.  (Rows that arrive may make  *)
(* it show a row twice.)  An enforcement of retention policies that found  *)
(* no more than a page and met no error has likewise logged every one.     *)
PagesMissNothing ==
  walk.at = "done" /\ ~walk.upset
    /\ (listing = "logs" \/ \A r, q \in Ids : moment[r] = moment[q] => r = q)
    => walk.missing = {}
=============================================================================
