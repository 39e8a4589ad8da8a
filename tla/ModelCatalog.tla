---------------------------- MODULE ModelCatalog ----------------------------
(***************************************************************************)
(* ModelRegistryService over the table models and the cache of             *)
(* CacheService.  One action is one statement or one Redis command.  A     *)
(* read fills the cache after its SELECT; only createModel drops anything  *)
(* from the cache, by the tag model-search.  The other tags are written    *)
(* and never read.  CacheService swallows every failure of Redis.          *)
(***************************************************************************)
EXTENDS Naturals, FiniteSets

CONSTANTS
  Models,    \* the models, by group and name
  Queries,   \* filters and page of a search, which every model matches
  Readers,   \* requests that may overlap
  Writers,   \* requests that may overlap and write
  MaxEdits,  \* bound: editions of a row
  NoEntry    \* Redis has no such key

ASSUME CatalogAssumption ==
  /\ MaxEdits \in Nat
  /\ Readers \cap Writers = {}
  /\ NoEntry \notin [total : 0..Cardinality(Models), models : SUBSET Models]

VARIABLES
  row,      \* row[m]    : edition of the row of models, 0 without one
  byId,     \* byId[m]   : edition at the key model:<id>; 0: none, or the value null
  byName,   \* byName[m] : the same for the key model:group:<group>:name:<name>
  found,    \* found[q]  : the result at the key of a search
  tagged,   \* tagged    : the members of tag:model-search
  at,       \* at[c]     : the await request c is at
  on,       \* on[c]     : its model, or its query
  got,      \* got[c]    : what its statements returned so far
  raced     \* raced     : history: a search overlapped a create, or Redis lost something

catalogVars == <<row, byId, byName, found, tagged, at, on, got, raced>>

Listed == {m \in Models : row[m] > 0}

Result == [total : 0..Cardinality(Models), models : SUBSET Models]

Searching(c) == at[c] \in {"select_both", "count", "select_page", "set_result", "tag_result"}
Creating(c) == at[c] \in {"members", "drop_tag", "drop_keys"}

CatalogInit ==
  /\ row = [m \in Models |-> 0]
  /\ byId = row
  /\ byName = row
  /\ found = [q \in Queries |-> NoEntry]
  /\ tagged = {}
  /\ at = [c \in Readers \cup Writers |-> "idle"]
  /\ on = [c \in Readers \cup Writers |-> CHOOSE m \in Models : TRUE]
  /\ got = [c \in Readers \cup Writers |-> 0]
  /\ raced = FALSE

Await(c, place) == at' = [at EXCEPT ![c] = place]
Answer(c) == Await(c, "idle") /\ got' = [got EXCEPT ![c] = 0]

(* A request arrives, past authentication and validation. *)
Arrive(c, x, place) ==
  /\ at[c] = "idle"
  /\ on' = [on EXCEPT ![c] = x]
  /\ Await(c, place)
  /\ UNCHANGED <<row, byId, byName, found, tagged, got, raced>>

-----------------------------------------------------------------------------
(* Reading one model. *)

RequestModel(c, m) == Arrive(c, m, "get_id")
RequestByName(c, m) == Arrive(c, m, "get_name")

(* CacheService.get: a failure and the value null are misses *)
LookUpModel(c) ==
  /\ at[c] \in {"get_id", "get_name"}
  /\ \/ /\ (IF at[c] = "get_id" THEN byId ELSE byName)[on[c]] > 0
        /\ Answer(c)
     \/ /\ Await(c, IF at[c] = "get_id" THEN "select_id" ELSE "select_name")
        /\ UNCHANGED got
  /\ UNCHANGED <<row, byId, byName, found, tagged, on, raced>>

SelectById(c) ==
  /\ at[c] = "select_id"
  /\ got' = [got EXCEPT ![c] = row[on[c]]]
  /\ Await(c, "set_id")
  /\ UNCHANGED <<row, byId, byName, found, tagged, on, raced>>

SelectByName(c) ==
  /\ at[c] = "select_name"
  /\ got' = [got EXCEPT ![c] = row[on[c]]]
  /\ Await(c, "set_name")
  /\ UNCHANGED <<row, byId, byName, found, tagged, on, raced>>

(* The second half of getOrSet: whatever happened since, the value read is *)
(* stored.                                                                 *)
FillModel(c) ==
  /\ at[c] \in {"set_id", "set_name"}
  /\ \/ UNCHANGED <<byId, byName>>
     \/ at[c] = "set_id" /\ byId' = [byId EXCEPT ![on[c]] = got[c]] /\ UNCHANGED byName
     \/ at[c] = "set_name" /\ byName' = [byName EXCEPT ![on[c]] = got[c]] /\ UNCHANGED byId
  /\ Answer(c)
  /\ UNCHANGED <<row, found, tagged, on, raced>>

-----------------------------------------------------------------------------
(* Searching. *)

RequestSearch(c, q) == Arrive(c, q, "get_result")

LookUpResult(c) ==
  /\ at[c] = "get_result"
  /\ \/ found[on[c]] # NoEntry /\ Answer(c) /\ UNCHANGED raced
     \/ /\ Await(c, "select_both")
        /\ got' = [got EXCEPT ![c] = [total |-> 0, models |-> {}]]
        /\ raced' = (raced \/ \E w \in Writers : Creating(w))
  /\ UNCHANGED <<row, byId, byName, found, tagged, on>>

(* performModelSearch sends its two statements to two connections: either  *)
(* may be first, and what is inserted in between is in one of them.        *)
SelectListing(c) ==
  /\ \/ /\ at[c] \in {"select_both", "count"}
        /\ got' = [got EXCEPT ![c].total = Cardinality(Listed)]
        /\ Await(c, IF at[c] = "count" THEN "set_result" ELSE "select_page")
     \/ /\ at[c] \in {"select_both", "select_page"}
        /\ got' = [got EXCEPT ![c].models = Listed]
        /\ Await(c, IF at[c] = "select_page" THEN "set_result" ELSE "count")
  /\ UNCHANGED <<row, byId, byName, found, tagged, on, raced>>

(* CacheService.set stores the entry and, in a command of its own, adds    *)
(* its key to the set of the tag.                                          *)
StoreResult(c) ==
  /\ at[c] = "set_result"
  /\ \/ /\ found' = [found EXCEPT ![on[c]] = got[c]]
        /\ Await(c, "tag_result")
        /\ UNCHANGED got
     \/ Answer(c) /\ UNCHANGED found
  /\ UNCHANGED <<row, byId, byName, tagged, on, raced>>

(* addTags; without it no invalidation will find the entry *)
TagResult(c) ==
  /\ at[c] = "tag_result"
  /\ \/ tagged' = tagged \cup {on[c]} /\ UNCHANGED raced
     \/ UNCHANGED tagged /\ raced' = TRUE
  /\ Answer(c)
  /\ UNCHANGED <<row, byId, byName, found, on>>

-----------------------------------------------------------------------------
(* Writing. *)

RequestCreate(c, m) == Arrive(c, m, "insert")
RequestUpdate(c, m) == Arrive(c, m, "update")

(* INSERT, or its refusal: group and name are unique *)
InsertModel(c) ==
  /\ at[c] = "insert"
  /\ \/ /\ row[on[c]] = 0
        /\ row' = [row EXCEPT ![on[c]] = 1]
        /\ raced' = (raced \/ \E r \in Readers : Searching(r))
        /\ Await(c, "members")
        /\ UNCHANGED got
     \/ Answer(c) /\ UNCHANGED <<row, raced>>
  /\ UNCHANGED <<byId, byName, found, tagged, on>>

(* mutant: what is found in the tag is not deleted *)
InvalidateTagOnly(c) ==
  /\ \/ /\ at[c] = "members"
        /\ got' = [got EXCEPT ![c] = tagged]
        /\ Await(c, "drop_tag")
        /\ UNCHANGED <<tagged, found>>
     \/ /\ at[c] = "drop_tag"
        /\ tagged' = {}
        /\ Await(c, "set_created")
        /\ UNCHANGED <<got, found>>
  /\ UNCHANGED <<row, byId, byName, on, raced>>

(* invalidateByTags: SMEMBERS, DEL of the tag, DEL of the members.  A       *)
(* failure ends it, and createModel goes on.                               *)
InvalidateSearches(c) ==
  /\ \/ /\ at[c] = "members"
        /\ got' = [got EXCEPT ![c] = tagged]
        /\ Await(c, "drop_tag")
        /\ UNCHANGED <<tagged, found, raced>>
     \/ /\ at[c] = "drop_tag"
        /\ tagged' = {}
        /\ Await(c, IF got[c] = {} THEN "set_created" ELSE "drop_keys")
        /\ UNCHANGED <<got, found, raced>>
     \/ /\ at[c] = "drop_keys"
        /\ found' = [q \in Queries |-> IF q \in got[c] THEN NoEntry ELSE found[q]]
        /\ Await(c, "set_created")
        /\ UNCHANGED <<got, tagged, raced>>
     \/ /\ Creating(c)
        /\ raced' = TRUE
        /\ Await(c, "set_created")
        /\ UNCHANGED <<got, tagged, found>>
  /\ UNCHANGED <<row, byId, byName, on>>

(* The row as it was inserted becomes the entry of the model. *)
CacheCreated(c) ==
  /\ at[c] = "set_created"
  /\ byId' \in {[byId EXCEPT ![on[c]] = 1], byId}
  /\ Answer(c)
  /\ UNCHANGED <<row, byName, found, tagged, on, raced>>

(* updateModel: UPDATE ... RETURNING, and nothing of the cache *)
UpdateModel(c) ==
  /\ at[c] = "update"
  /\ row' \in {row} \cup {[row EXCEPT ![on[c]] = n] : n \in {row[on[c]] + 1} \cap 2..MaxEdits}
  /\ Answer(c)
  /\ UNCHANGED <<byId, byName, found, tagged, on, raced>>

-----------------------------------------------------------------------------
(* Entries expire; Redis evicts, entries and tags alike. *)
ExpireEntry ==
  /\ \/ \E m \in Models :
          \/ byId[m] > 0 /\ byId' = [byId EXCEPT ![m] = 0] /\ UNCHANGED <<byName, found, tagged, raced>>
          \/ byName[m] > 0 /\ byName' = [byName EXCEPT ![m] = 0] /\ UNCHANGED <<byId, found, tagged, raced>>
     \/ \E q \in Queries :
          /\ found[q] # NoEntry
          /\ found' = [found EXCEPT ![q] = NoEntry]
          /\ UNCHANGED <<byId, byName, tagged, raced>>
     \/ tagged # {} /\ tagged' = {} /\ raced' = TRUE /\ UNCHANGED <<byId, byName, found>>
  /\ UNCHANGED <<row, at, on, got>>

ReadStep(c) ==
  \/ LookUpModel(c) \/ SelectById(c) \/ SelectByName(c) \/ FillModel(c)
  \/ LookUpResult(c) \/ SelectListing(c) \/ StoreResult(c) \/ TagResult(c)

WriteStep(c) == InsertModel(c) \/ InvalidateSearches(c) \/ CacheCreated(c) \/ UpdateModel(c)

CatalogNext ==
  \/ \E c \in Readers :
       \/ \E m \in Models : RequestModel(c, m) \/ RequestByName(c, m)
       \/ \E q \in Queries : RequestSearch(c, q)
       \/ ReadStep(c)
  \/ \E c \in Writers :
       \/ \E m \in Models : RequestCreate(c, m) \/ RequestUpdate(c, m)
       \/ WriteStep(c)
  \/ ExpireEntry

CatalogSpec == CatalogInit /\ [][CatalogNext]_catalogVars

-----------------------------------------------------------------------------
(* SearchIsComplete: as long as no search overlapped the invalidation of a *)
(* create and Redis lost nothing, what a search finds in the cache while   *)
(* no create is under way are all models, and as many as it says.          *)
SearchIsComplete ==
  (~raced /\ \A w \in Writers : ~Creating(w)) =>
    \A q \in Queries :
      found[q] # NoEntry => found[q] = [total |-> Cardinality(Listed), models |-> Listed]
=============================================================================
