--------------------------- MODULE RecordsProofs ---------------------------
(***************************************************************************)
(* What the components that keep rows of their own promise, for every      *)
(* value of the constants: searches that miss nothing, walks through pages *)
(* that miss nothing, lineage without short cycles, one row for an         *)
(* upload, gates that agree on a policy, verdicts and reports that agree,  *)
(* evidence that is whole while it is on offer, requests of data subjects  *)
(* that are answered in full; and that two copies of the migration tool,   *)
(* which makes the tables, never skip, repeat or misrecord a migration.    *)
(***************************************************************************)
EXTENDS ModelCatalog, VersionRecords, PolicyRules, EvaluationSuites, EvidenceBundles,
        GdprCompliance, Migrator, Lineage, Listings, SequenceLemmas

-----------------------------------------------------------------------------
(* The catalog and its cache.                                              *)

(* Places a reader and a writer may be at, and what they hold there. *)
ReaderPlaces ==
  {"idle", "get_id", "get_name", "select_id", "select_name", "set_id", "set_name", "get_result",
   "select_both", "count", "select_page", "set_result", "tag_result"}
WriterPlaces == {"idle", "insert", "update", "members", "drop_tag", "drop_keys", "set_created"}

Shape ==
  /\ row \in [Models -> Nat]
  /\ DOMAIN found = Queries
  /\ raced \in BOOLEAN
  /\ at \in [Readers \cup Writers -> ReaderPlaces \cup WriterPlaces]
  /\ DOMAIN on = Readers \cup Writers
  /\ DOMAIN got = Readers \cup Writers
  /\ \A r \in Readers :
       /\ at[r] \in ReaderPlaces
       /\ Searching(r) \/ at[r] = "get_result" => on[r] \in Queries
       /\ Searching(r) => got[r] = [total |-> got[r].total, models |-> got[r].models]
  /\ \A w \in Writers :
       /\ at[w] \in WriterPlaces
       /\ at[w] \in {"insert", "update"} => on[w] \in Models

Current == [total |-> Cardinality(Listed), models |-> Listed]

(* What a search has read is the listing as it is. *)
ReadsAreCurrent ==
  \A r \in Readers :
    /\ at[r] = "select_page" => got[r].total = Cardinality(Listed)
    /\ at[r] = "count" => got[r].models = Listed
    /\ at[r] = "set_result" => got[r] = Current

(* Some create has still to drop the entry of q. *)
Dropping(q) ==
  \E w \in Writers :
    \/ at[w] = "members" /\ q \in tagged
    \/ at[w] \in {"drop_tag", "drop_keys"} /\ q \in got[w]

(* The tag names every entry, but one whose search has not reached the tag, *)
(* or one that a create is about to drop.                                   *)
TagIsWhole ==
  \A q \in Queries : found[q] # NoEntry =>
    \/ q \in tagged
    \/ \E r \in Readers : at[r] = "tag_result" /\ on[r] = q
    \/ Dropping(q)

(* While Redis lost nothing, no search and no create overlap.               *)
Apart == \A r \in Readers, w \in Writers : ~(Searching(r) /\ Creating(w))

(* A create that is about to delete the tag has read all of it.             *)
TagIsRead == \A w \in Writers : at[w] = "drop_tag" => tagged \subseteq got[w]

(* An entry that is not the listing as it is will be dropped.               *)
StaleIsDropped == \A q \in Queries : found[q] # NoEntry => found[q] = Current \/ Dropping(q)

CatalogInv ==
  /\ Shape
  /\ ~raced => Apart /\ TagIsRead /\ ReadsAreCurrent /\ TagIsWhole /\ StaleIsDropped

-----------------------------------------------------------------------------
LEMMA InitCatalog == CatalogInit => CatalogInv
<1> SUFFICES ASSUME CatalogInit PROVE CatalogInv
  OBVIOUS
<1>1. Shape
  BY CatalogAssumption DEF CatalogInit, Shape, Searching, ReaderPlaces, WriterPlaces
<1>2. Apart /\ TagIsRead /\ ReadsAreCurrent /\ TagIsWhole /\ StaleIsDropped
  BY CatalogAssumption DEF CatalogInit, Apart, TagIsRead, ReadsAreCurrent, TagIsWhole,
     StaleIsDropped, Searching, Creating
<1> QED
  BY <1>1, <1>2 DEF CatalogInv

LEMMA NextShape == Shape /\ [CatalogNext]_catalogVars => Shape'
<1> SUFFICES ASSUME Shape, [CatalogNext]_catalogVars PROVE Shape'
  OBVIOUS
<1>a. Readers \cap Writers = {}
  BY CatalogAssumption
<1>1. ASSUME NEW c \in Readers, NEW m \in Models, RequestModel(c, m) \/ RequestByName(c, m)
      PROVE  Shape'
  BY <1>1, <1>a DEF Shape, RequestModel, RequestByName, Arrive, Await, Searching, ReaderPlaces,
     WriterPlaces
<1>2. ASSUME NEW c \in Readers, NEW q \in Queries, RequestSearch(c, q) PROVE Shape'
  BY <1>2, <1>a DEF Shape, RequestSearch, Arrive, Await, Searching, ReaderPlaces, WriterPlaces
<1>3. ASSUME NEW c \in Readers, LookUpModel(c) \/ SelectById(c) \/ SelectByName(c) \/ FillModel(c)
      PROVE  Shape'
  <2>1. /\ \E p \in {"idle", "select_id", "select_name", "set_id", "set_name"} :
             at' = [at EXCEPT ![c] = p]
        /\ DOMAIN got' = DOMAIN got
        /\ \A r \in Readers \ {c} : got'[r] = got[r]
        /\ UNCHANGED <<row, found, on, raced>>
    BY <1>3 DEF LookUpModel, SelectById, SelectByName, FillModel, Answer, Await, Shape
  <2>2. at'[c] \in {"idle", "select_id", "select_name", "set_id", "set_name"}
    BY <2>1 DEF Shape
  <2>3. \A r \in Readers : ~(r = c) => at'[r] = at[r]
    BY <2>1 DEF Shape
  <2>4. \A r \in Readers : Searching(r)' => Searching(r) /\ got'[r] = got[r]
    BY <2>1, <2>2, <2>3 DEF Searching
  <2> QED
    BY <2>1, <2>2, <2>3, <2>4, <1>a DEF Shape, ReaderPlaces, WriterPlaces
<1>4. ASSUME NEW c \in Readers, LookUpResult(c) PROVE Shape'
  <2>1. CASE Answer(c)
    BY <2>1, <1>4, <1>a DEF Shape, LookUpResult, Answer, Await, Searching, ReaderPlaces, WriterPlaces
  <2>2. CASE /\ Await(c, "select_both")
             /\ got' = [got EXCEPT ![c] = [total |-> 0, models |-> {}]]
    <3>1. got'[c] = [total |-> 0, models |-> {}] /\ \A r \in Readers \ {c} : got'[r] = got[r]
      BY <2>2 DEF Shape
    <3>2. at'[c] = "select_both" /\ \A r \in Readers \ {c} : at'[r] = at[r]
      BY <2>2 DEF Shape, Await
    <3>3. at[c] = "get_result" /\ UNCHANGED <<row, found, on>> /\ raced' \in BOOLEAN
      BY <1>4 DEF Shape, LookUpResult
    <3>4. \A r \in Readers :
            Searching(r)' => got'[r] = [total |-> got'[r].total, models |-> got'[r].models]
      BY <3>1, <3>2 DEF Shape, Searching
    <3> QED
      BY <2>2, <3>2, <3>3, <3>4, <1>a DEF Shape, Await, Searching, ReaderPlaces, WriterPlaces
  <2> QED
    BY <1>4, <2>1, <2>2 DEF LookUpResult
<1>5. ASSUME NEW c \in Readers, SelectListing(c) PROVE Shape'
  <2>1. /\ Searching(c) /\ UNCHANGED <<row, found, on, raced>>
        /\ \E p \in {"count", "select_page", "set_result"} : at' = [at EXCEPT ![c] = p]
    BY <1>5 DEF SelectListing, Await, Searching
  <2>2. \E x : \/ got' = [got EXCEPT ![c].total = x] \/ got' = [got EXCEPT ![c].models = x]
    BY <1>5 DEF SelectListing
  <2>3. /\ got'[c] = [total |-> got'[c].total, models |-> got'[c].models]
        /\ DOMAIN got' = DOMAIN got /\ \A r \in Readers \ {c} : got'[r] = got[r]
    <3>1. got[c] = [total |-> got[c].total, models |-> got[c].models]
      BY <2>1 DEF Shape
    <3>2. c \in DOMAIN got
      BY DEF Shape
    <3>3. PICK x : \/ got' = [got EXCEPT ![c] = [got[c] EXCEPT !.total = x]]
                   \/ got' = [got EXCEPT ![c] = [got[c] EXCEPT !.models = x]]
      BY <2>2
    <3>4. got'[c] = [got[c] EXCEPT !.total = x] \/ got'[c] = [got[c] EXCEPT !.models = x]
      BY <3>2, <3>3
    <3>5. \/ got'[c] = [total |-> x, models |-> got[c].models]
          \/ got'[c] = [total |-> got[c].total, models |-> x]
      BY <3>1, <3>4
    <3>6. got'[c] = [total |-> got'[c].total, models |-> got'[c].models]
      BY <3>5
    <3>7. \A r \in Readers \ {c} : r \in DOMAIN got
      BY DEF Shape
    <3> QED
      BY <3>3, <3>6, <3>7
  <2>4. \A r \in Readers :
          Searching(r)' => got'[r] = [total |-> got'[r].total, models |-> got'[r].models]
    BY <2>1, <2>3 DEF Shape, Searching
  <2> QED
    BY <2>1, <2>3, <2>4, <1>a DEF Shape, Searching, ReaderPlaces, WriterPlaces
<1>6. ASSUME NEW c \in Readers, StoreResult(c) \/ TagResult(c) PROVE Shape'
  <2>1. /\ Searching(c) /\ UNCHANGED <<row, on>> /\ raced' \in BOOLEAN /\ DOMAIN found' = Queries
        /\ \/ at' = [at EXCEPT ![c] = "tag_result"] /\ UNCHANGED got
           \/ at' = [at EXCEPT ![c] = "idle"] /\ got' = [got EXCEPT ![c] = 0]
    BY <1>6 DEF StoreResult, TagResult, Answer, Await, Searching, Shape
  <2>2. CASE at' = [at EXCEPT ![c] = "tag_result"] /\ UNCHANGED got
    BY <2>1, <2>2, <1>a DEF Shape, Searching, ReaderPlaces, WriterPlaces
  <2>3. CASE at' = [at EXCEPT ![c] = "idle"] /\ got' = [got EXCEPT ![c] = 0]
    <3>1. at'[c] = "idle" /\ \A r \in Readers \ {c} : at'[r] = at[r] /\ got'[r] = got[r]
      BY <2>3 DEF Shape
    <3>2. \A r \in Readers : Searching(r)' => Searching(r) /\ got'[r] = got[r]
      BY <3>1 DEF Searching
    <3> QED
      BY <2>1, <2>3, <3>1, <3>2, <1>a DEF Shape, ReaderPlaces, WriterPlaces
  <2> QED
    BY <2>1, <2>2, <2>3
<1>7. ASSUME NEW c \in Writers, NEW m \in Models, RequestCreate(c, m) \/ RequestUpdate(c, m)
      PROVE  Shape'
  BY <1>7, <1>a DEF Shape, RequestCreate, RequestUpdate, Arrive, Await, Searching, ReaderPlaces,
     WriterPlaces
<1>8. ASSUME NEW c \in Writers, InsertModel(c) \/ UpdateModel(c) PROVE Shape'
  <2>1. row' \in [Models -> Nat]
    BY <1>8, <1>a, CatalogAssumption DEF Shape, InsertModel, UpdateModel
  <2>2. raced' \in BOOLEAN
    BY <1>8 DEF Shape, InsertModel, UpdateModel
  <2>3. /\ at' = [at EXCEPT ![c] = "members"] \/ at' = [at EXCEPT ![c] = "idle"]
        /\ got' = got \/ got' = [got EXCEPT ![c] = 0]
        /\ UNCHANGED <<found, on>>
    BY <1>8 DEF InsertModel, UpdateModel, Answer, Await
  <2> QED
    BY <2>1, <2>2, <2>3, <1>a DEF Shape, Searching, ReaderPlaces, WriterPlaces
<1>9. ASSUME NEW c \in Writers, InvalidateSearches(c) \/ CacheCreated(c) PROVE Shape'
  <2>1. /\ \E p \in {"idle", "drop_tag", "drop_keys", "set_created"} : at' = [at EXCEPT ![c] = p]
        /\ got' = got \/ \E x : got' = [got EXCEPT ![c] = x]
        /\ UNCHANGED <<row, on>>
    BY <1>9 DEF InvalidateSearches, CacheCreated, Answer, Await
  <2>2. DOMAIN found' = Queries /\ raced' \in BOOLEAN
    BY <1>9 DEF Shape, InvalidateSearches, CacheCreated
  <2> QED
    BY <2>1, <2>2, <1>a DEF Shape, Searching, ReaderPlaces, WriterPlaces
<1>10. CASE ExpireEntry
  BY <1>10 DEF Shape, ExpireEntry, Searching
<1>11. CASE UNCHANGED catalogVars
  BY <1>11 DEF Shape, catalogVars, Searching
<1> QED
  BY <1>1, <1>2, <1>3, <1>4, <1>5, <1>6, <1>7, <1>8, <1>9, <1>10, <1>11
     DEF CatalogNext, ReadStep, WriteStep

(* An action is quiet when no search and no create notices it: the listing, *)
(* the tag, the entries and what searches and creates have read stay, and   *)
(* nobody begins or ends one.                                               *)
LEMMA QuietKeeps ==
  ASSUME CatalogInv, Shape', UNCHANGED <<found, tagged, raced>>, Listed' = Listed,
         NEW c \in Readers \cup Writers,
         \A d \in (Readers \cup Writers) \ {c} :
           at'[d] = at[d] /\ got'[d] = got[d] /\ on'[d] = on[d],
         ~Searching(c), ~Searching(c)', ~Creating(c), ~Creating(c)'
  PROVE  CatalogInv'
<1> SUFFICES ASSUME ~raced
             PROVE  Apart' /\ TagIsRead' /\ ReadsAreCurrent' /\ TagIsWhole' /\ StaleIsDropped'
  BY DEF CatalogInv
<1>1. Apart /\ TagIsRead /\ ReadsAreCurrent /\ TagIsWhole /\ StaleIsDropped
  BY DEF CatalogInv
<1>2. Current' = Current /\ Cardinality(Listed)' = Cardinality(Listed)
  BY DEF Current
<1>3. \A q \in Queries : Dropping(q) => Dropping(q)'
  BY DEF Dropping, Creating
<1>4. Apart'
  BY <1>1 DEF Apart, Searching, Creating
<1>5. TagIsRead'
  BY <1>1 DEF TagIsRead, Creating
<1>6. ReadsAreCurrent'
  BY <1>1, <1>2 DEF ReadsAreCurrent, Searching
<1>7. TagIsWhole'
  BY <1>1, <1>3 DEF TagIsWhole, Searching
<1>8. StaleIsDropped'
  BY <1>1, <1>2, <1>3 DEF StaleIsDropped
<1> QED
  BY <1>4, <1>5, <1>6, <1>7, <1>8

LEMMA LookUpKeeps == ASSUME CatalogInv, Shape', NEW c \in Readers, LookUpResult(c)
                     PROVE  CatalogInv'
<1> SUFFICES ASSUME ~raced'
             PROVE  Apart' /\ TagIsRead' /\ ReadsAreCurrent' /\ TagIsWhole' /\ StaleIsDropped'
  BY DEF CatalogInv
<1>1. Shape /\ ~raced
  BY DEF CatalogInv, LookUpResult, Shape
<1>2. Apart /\ TagIsRead /\ ReadsAreCurrent /\ TagIsWhole /\ StaleIsDropped
  BY <1>1 DEF CatalogInv
<1>3. /\ Current' = Current /\ Listed' = Listed /\ Cardinality(Listed)' = Cardinality(Listed)
      /\ UNCHANGED <<found, tagged, on>>
  BY DEF Current, Listed, LookUpResult
<1>4. /\ at[c] = "get_result" /\ at'[c] \in {"idle", "select_both"}
      /\ \A d \in (Readers \cup Writers) \ {c} : at'[d] = at[d] /\ got'[d] = got[d]
      /\ at'[c] = "select_both" => \A w \in Writers : ~Creating(w)
  BY <1>1 DEF LookUpResult, Answer, Await, Shape
<1>a. c \notin Writers
  BY CatalogAssumption
<1>5. \A q \in Queries : Dropping(q) => Dropping(q)'
  BY <1>3, <1>4, <1>a DEF Dropping
<1>6. Apart'
  BY <1>2, <1>4, <1>a DEF Apart, Searching, Creating
<1>7. TagIsRead'
  BY <1>2, <1>3, <1>4, <1>a DEF TagIsRead
<1>8. ReadsAreCurrent'
  BY <1>2, <1>3, <1>4 DEF ReadsAreCurrent
<1>9. TagIsWhole'
  BY <1>2, <1>3, <1>4, <1>5 DEF TagIsWhole
<1>10. StaleIsDropped'
  BY <1>2, <1>3, <1>5 DEF StaleIsDropped
<1> QED
  BY <1>6, <1>7, <1>8, <1>9, <1>10

LEMMA SelectKeeps == ASSUME CatalogInv, Shape', NEW c \in Readers, SelectListing(c)
                     PROVE  CatalogInv'
<1> SUFFICES ASSUME ~raced
             PROVE  Apart' /\ TagIsRead' /\ ReadsAreCurrent' /\ TagIsWhole' /\ StaleIsDropped'
  BY DEF CatalogInv, SelectListing
<1>1. Shape /\ Apart /\ TagIsRead /\ ReadsAreCurrent /\ TagIsWhole /\ StaleIsDropped
  BY DEF CatalogInv
<1>3. /\ Current' = Current /\ Listed' = Listed /\ Cardinality(Listed)' = Cardinality(Listed)
      /\ UNCHANGED <<found, tagged, on>>
  BY DEF Current, Listed, SelectListing
<1>4. /\ Searching(c) /\ at[c] # "tag_result" /\ Searching(c)'
      /\ \A d \in (Readers \cup Writers) \ {c} : at'[d] = at[d] /\ got'[d] = got[d]
  BY <1>1 DEF SelectListing, Await, Shape, Searching
<1>a. c \notin Writers
  BY CatalogAssumption
<1>5. \A q \in Queries : Dropping(q) => Dropping(q)'
  BY <1>3, <1>4, <1>a DEF Dropping
<1>6. Apart'
  BY <1>1, <1>4, <1>a DEF Apart, Searching, Creating
<1>7. TagIsRead'
  BY <1>1, <1>3, <1>4, <1>a DEF TagIsRead
<1>8. ReadsAreCurrent'
  <2>1. CASE at[c] = "select_both"
    <3>1. \/ at'[c] = "select_page" /\ got'[c].total = Cardinality(Listed)
          \/ at'[c] = "count" /\ got'[c].models = Listed
      BY <2>1, <1>1 DEF SelectListing, Await, Shape, Searching
    <3> QED
      BY <3>1, <1>1, <1>3, <1>4 DEF ReadsAreCurrent
  <2>2. CASE at[c] # "select_both"
    <3>1. at'[c] = "set_result"
      BY <2>2, <1>1 DEF SelectListing, Await, Shape
    <3>2. got'[c].total = Cardinality(Listed) /\ got'[c].models = Listed
      BY <2>2, <1>1 DEF SelectListing, Await, Shape, Searching, ReadsAreCurrent
    <3>3. got'[c] = Current
      <4>1. \/ got'[c] = [got[c] EXCEPT !.total = Cardinality(Listed)]
            \/ got'[c] = [got[c] EXCEPT !.models = Listed]
        BY <1>1 DEF SelectListing, Shape
      <4>2. got[c] = [total |-> got[c].total, models |-> got[c].models]
        BY <1>1, <1>4 DEF Shape
      <4> QED
        BY <4>1, <4>2, <3>2 DEF Current
    <3> QED
      BY <3>1, <3>3, <1>1, <1>3, <1>4 DEF ReadsAreCurrent
  <2> QED
    BY <2>1, <2>2
<1>9. TagIsWhole'
  BY <1>1, <1>3, <1>4, <1>5 DEF TagIsWhole
<1>10. StaleIsDropped'
  BY <1>1, <1>3, <1>5 DEF StaleIsDropped
<1> QED
  BY <1>6, <1>7, <1>8, <1>9, <1>10

LEMMA StoreKeeps == ASSUME CatalogInv, Shape', NEW c \in Readers, StoreResult(c)
                    PROVE  CatalogInv'
<1> SUFFICES ASSUME ~raced
             PROVE  Apart' /\ TagIsRead' /\ ReadsAreCurrent' /\ TagIsWhole' /\ StaleIsDropped'
  BY DEF CatalogInv, StoreResult
<1>1. Shape /\ Apart /\ TagIsRead /\ ReadsAreCurrent /\ TagIsWhole /\ StaleIsDropped
  BY DEF CatalogInv
<1>3. /\ Current' = Current /\ Listed' = Listed /\ Cardinality(Listed)' = Cardinality(Listed)
      /\ UNCHANGED <<tagged, on>>
  BY DEF Current, Listed, StoreResult
<1>4. /\ Searching(c) /\ at[c] = "set_result" /\ at'[c] \in {"idle", "tag_result"}
      /\ \A d \in (Readers \cup Writers) \ {c} : at'[d] = at[d] /\ got'[d] = got[d]
  BY <1>1 DEF StoreResult, Answer, Await, Shape, Searching
<1>a. c \notin Writers
  BY CatalogAssumption
<1>5. \A q \in Queries : Dropping(q) => Dropping(q)'
  BY <1>3, <1>4, <1>a DEF Dropping
<1>b. \A q \in Queries :
        \/ found'[q] = found[q]
        \/ q = on[c] /\ found'[q] = Current /\ at'[c] = "tag_result"
  BY <1>1, <1>4 DEF StoreResult, Await, Shape, ReadsAreCurrent
<1>6. Apart'
  BY <1>1, <1>4, <1>a DEF Apart, Searching, Creating
<1>7. TagIsRead'
  BY <1>1, <1>3, <1>4, <1>a DEF TagIsRead
<1>8. ReadsAreCurrent'
  BY <1>1, <1>3, <1>4 DEF ReadsAreCurrent
<1>9. TagIsWhole'
  BY <1>1, <1>3, <1>4, <1>5, <1>b DEF TagIsWhole
<1>10. StaleIsDropped'
  BY <1>1, <1>3, <1>5, <1>b DEF StaleIsDropped
<1> QED
  BY <1>6, <1>7, <1>8, <1>9, <1>10

LEMMA TagKeeps == ASSUME CatalogInv, Shape', NEW c \in Readers, TagResult(c)
                  PROVE  CatalogInv'
<1> SUFFICES ASSUME ~raced'
             PROVE  Apart' /\ TagIsRead' /\ ReadsAreCurrent' /\ TagIsWhole' /\ StaleIsDropped'
  BY DEF CatalogInv
<1>1. Shape /\ Apart /\ TagIsRead /\ ReadsAreCurrent /\ TagIsWhole /\ StaleIsDropped
  BY DEF CatalogInv, TagResult
<1>3. /\ Current' = Current /\ Listed' = Listed /\ Cardinality(Listed)' = Cardinality(Listed)
      /\ UNCHANGED <<found, on>> /\ tagged' = tagged \cup {on[c]}
  BY DEF Current, Listed, TagResult
<1>4. /\ Searching(c) /\ at[c] = "tag_result" /\ at'[c] = "idle"
      /\ \A d \in (Readers \cup Writers) \ {c} : at'[d] = at[d] /\ got'[d] = got[d]
  BY <1>1 DEF TagResult, Answer, Await, Shape, Searching
<1>a. c \notin Writers
  BY CatalogAssumption
<1>b. \A w \in Writers : ~Creating(w) /\ at'[w] = at[w]
  BY <1>1, <1>4, <1>a DEF Apart
<1>5. \A q \in Queries : ~Dropping(q)
  BY <1>b DEF Dropping, Creating
<1>6. Apart'
  BY <1>b DEF Apart, Creating
<1>7. TagIsRead'
  BY <1>b DEF TagIsRead, Creating
<1>8. ReadsAreCurrent'
  BY <1>1, <1>3, <1>4 DEF ReadsAreCurrent
<1>9. TagIsWhole'
  BY <1>1, <1>3, <1>4, <1>5 DEF TagIsWhole
<1>10. StaleIsDropped'
  BY <1>1, <1>3, <1>5 DEF StaleIsDropped
<1> QED
  BY <1>6, <1>7, <1>8, <1>9, <1>10

LEMMA InsertKeeps == ASSUME CatalogInv, Shape', NEW c \in Writers, InsertModel(c)
                     PROVE  CatalogInv'
<1>a. c \notin Readers /\ c \in Readers \cup Writers
  BY CatalogAssumption
<1>b. Shape /\ at[c] = "insert" /\ UNCHANGED <<found, tagged, on>>
  BY DEF CatalogInv, InsertModel
<1>1. CASE Answer(c) /\ UNCHANGED <<row, raced>>
  <2>1. Listed' = Listed
    BY <1>1 DEF Listed
  <2>2. /\ ~Searching(c) /\ ~Searching(c)' /\ ~Creating(c) /\ ~Creating(c)'
        /\ \A d \in (Readers \cup Writers) \ {c} :
             at'[d] = at[d] /\ got'[d] = got[d] /\ on'[d] = on[d]
    BY <1>1, <1>a, <1>b DEF Answer, Await, Searching, Creating, Shape
  <2> QED
    BY <1>1, <1>a, <1>b, <2>1, <2>2, QuietKeeps
<1>2. CASE /\ raced' = (raced \/ \E r \in Readers : Searching(r))
           /\ Await(c, "members") /\ UNCHANGED got
  <2> SUFFICES ASSUME ~raced'
               PROVE  Apart' /\ TagIsRead' /\ ReadsAreCurrent' /\ TagIsWhole' /\ StaleIsDropped'
    BY DEF CatalogInv
  <2>1. ~raced /\ \A r \in Readers : ~Searching(r)
    BY <1>2, <1>b DEF Shape
  <2>2. TagIsRead /\ TagIsWhole
    BY <2>1 DEF CatalogInv
  <2>3. /\ at'[c] = "members" /\ \A d \in (Readers \cup Writers) \ {c} : at'[d] = at[d]
        /\ \A r \in Readers : at'[r] = at[r]
    BY <1>2, <1>a, <1>b DEF Await, Shape
  <2>4. Apart'
    BY <2>1, <2>3 DEF Apart, Searching
  <2>5. TagIsRead'
    BY <1>2, <1>b, <2>2, <2>3 DEF TagIsRead
  <2>6. ReadsAreCurrent'
    BY <2>1, <2>3 DEF ReadsAreCurrent, Searching
  <2>7. \A q \in Queries : found'[q] # NoEntry => Dropping(q)'
    BY <1>2, <1>b, <2>1, <2>2, <2>3 DEF TagIsWhole, Dropping, Searching
  <2>8. TagIsWhole' /\ StaleIsDropped'
    BY <2>7 DEF TagIsWhole, StaleIsDropped
  <2> QED
    BY <2>4, <2>5, <2>6, <2>8
<1> QED
  BY <1>1, <1>2 DEF InsertModel

LEMMA DropKeeps == ASSUME CatalogInv, Shape', NEW c \in Writers, InvalidateSearches(c)
                   PROVE  CatalogInv'
<1> SUFFICES ASSUME ~raced'
             PROVE  Apart' /\ TagIsRead' /\ ReadsAreCurrent' /\ TagIsWhole' /\ StaleIsDropped'
  BY DEF CatalogInv
<1>1. Shape /\ Apart /\ TagIsRead /\ ReadsAreCurrent /\ TagIsWhole /\ StaleIsDropped
  BY DEF CatalogInv, InvalidateSearches
<1>2. /\ Current' = Current /\ Listed' = Listed /\ Cardinality(Listed)' = Cardinality(Listed)
      /\ UNCHANGED on
  BY DEF Current, Listed, InvalidateSearches
<1>a. c \notin Readers
  BY CatalogAssumption
<1>3. /\ Creating(c)
      /\ \A d \in (Readers \cup Writers) \ {c} : at'[d] = at[d] /\ got'[d] = got[d]
      /\ at'[c] \in {"drop_tag", "drop_keys", "set_created"}
  BY <1>1 DEF InvalidateSearches, Await, Shape, Creating
<1>4. \A r \in Readers : ~Searching(r) /\ at'[r] = at[r]
  BY <1>1, <1>3, <1>a DEF Apart
<1>5. Apart'
  BY <1>4 DEF Apart, Searching
<1>6. ReadsAreCurrent'
  BY <1>4 DEF ReadsAreCurrent, Searching
<1>7. CASE at[c] = "members"
  <2>1. /\ got'[c] = tagged /\ at'[c] = "drop_tag" /\ UNCHANGED <<tagged, found>>
    BY <1>1, <1>7 DEF InvalidateSearches, Await, Shape
  <2>2. \A q \in Queries : Dropping(q) => Dropping(q)'
    BY <1>3, <1>7, <2>1 DEF Dropping
  <2>3. TagIsRead'
    BY <1>1, <1>3, <2>1 DEF TagIsRead
  <2>4. TagIsWhole' /\ StaleIsDropped'
    BY <1>1, <1>2, <1>4, <2>1, <2>2 DEF TagIsWhole, StaleIsDropped, Searching
  <2> QED
    BY <1>5, <1>6, <2>3, <2>4
<1>8. CASE at[c] = "drop_tag"
  <2>1. /\ got'[c] = got[c] /\ tagged' = {} /\ UNCHANGED found
        /\ at'[c] = IF got[c] = {} THEN "set_created" ELSE "drop_keys"
    BY <1>1, <1>8 DEF InvalidateSearches, Await, Shape
  <2>2. tagged \subseteq got[c]
    BY <1>1, <1>8 DEF TagIsRead
  <2>3. \A q \in Queries : q \in tagged \/ Dropping(q) => Dropping(q)'
    <3> SUFFICES ASSUME NEW q \in Queries, q \in tagged \/ Dropping(q) PROVE Dropping(q)'
      OBVIOUS
    <3>1. CASE q \in got[c]
      BY <3>1, <2>1 DEF Dropping
    <3>2. CASE q \notin got[c]
      BY <3>2, <2>2, <1>3, <1>8 DEF Dropping
    <3> QED
      BY <3>1, <3>2
  <2>4. TagIsRead'
    BY <2>1 DEF TagIsRead
  <2>5. TagIsWhole' /\ StaleIsDropped'
    BY <1>1, <1>2, <1>4, <2>1, <2>3 DEF TagIsWhole, StaleIsDropped, Searching
  <2> QED
    BY <1>5, <1>6, <2>4, <2>5
<1>9. CASE at[c] = "drop_keys"
  <2>1. /\ found' = [q \in Queries |-> IF q \in got[c] THEN NoEntry ELSE found[q]]
        /\ at'[c] = "set_created" /\ UNCHANGED <<got, tagged>>
    BY <1>1, <1>9 DEF InvalidateSearches, Await, Shape
  <2>2. \A q \in Queries : found'[q] # NoEntry => found'[q] = found[q] /\ q \notin got[c]
    BY <2>1
  <2>3. \A q \in Queries : found'[q] # NoEntry /\ Dropping(q) => Dropping(q)'
    BY <2>1, <2>2, <1>3, <1>9 DEF Dropping
  <2>4. TagIsRead'
    BY <1>1, <1>3, <2>1 DEF TagIsRead
  <2>5. TagIsWhole' /\ StaleIsDropped'
    BY <1>1, <1>2, <1>4, <2>1, <2>2, <2>3 DEF TagIsWhole, StaleIsDropped, Searching
  <2> QED
    BY <1>5, <1>6, <2>4, <2>5
<1> QED
  BY <1>3, <1>7, <1>8, <1>9 DEF Creating

LEMMA ExpireKeeps == CatalogInv /\ Shape' /\ ExpireEntry => CatalogInv'
<1> SUFFICES ASSUME CatalogInv, Shape', ExpireEntry, ~raced'
             PROVE  Apart' /\ TagIsRead' /\ ReadsAreCurrent' /\ TagIsWhole' /\ StaleIsDropped'
  BY DEF CatalogInv
<1>1. Shape /\ Apart /\ TagIsRead /\ ReadsAreCurrent /\ TagIsWhole /\ StaleIsDropped
  BY DEF CatalogInv, ExpireEntry
<1>2. /\ Current' = Current /\ Listed' = Listed /\ Cardinality(Listed)' = Cardinality(Listed)
      /\ UNCHANGED <<at, on, got, tagged>>
  BY DEF Current, Listed, ExpireEntry
<1>3. \A q \in Queries : found'[q] # NoEntry => found'[q] = found[q]
  BY <1>1 DEF ExpireEntry, Shape
<1>4. \A q \in Queries : Dropping(q) => Dropping(q)'
  BY <1>2 DEF Dropping
<1> QED
  BY <1>1, <1>2, <1>3, <1>4
     DEF Apart, TagIsRead, ReadsAreCurrent, TagIsWhole, StaleIsDropped, Searching, Creating

LEMMA NextCatalog == CatalogInv /\ [CatalogNext]_catalogVars => CatalogInv'
<1> SUFFICES ASSUME CatalogInv, [CatalogNext]_catalogVars PROVE CatalogInv'
  OBVIOUS
<1>a. Shape /\ Shape'
  BY NextShape DEF CatalogInv
<1>b. Readers \cap Writers = {}
  BY CatalogAssumption
<1>1. ASSUME NEW c \in Readers, NEW m \in Models, RequestModel(c, m) \/ RequestByName(c, m)
      PROVE  CatalogInv'
  <2>1. Listed' = Listed /\ UNCHANGED <<found, tagged, raced>>
    BY <1>1 DEF Listed, RequestModel, RequestByName, Arrive
  <2>2. /\ ~Searching(c) /\ ~Searching(c)' /\ ~Creating(c) /\ ~Creating(c)'
        /\ \A d \in (Readers \cup Writers) \ {c} :
             at'[d] = at[d] /\ got'[d] = got[d] /\ on'[d] = on[d]
    BY <1>1, <1>a DEF RequestModel, RequestByName, Arrive, Await, Searching, Creating, Shape
  <2> QED
    BY <1>a, <2>1, <2>2, QuietKeeps
<1>2. ASSUME NEW c \in Readers, NEW q \in Queries, RequestSearch(c, q) PROVE CatalogInv'
  <2>1. Listed' = Listed /\ UNCHANGED <<found, tagged, raced>>
    BY <1>2 DEF Listed, RequestSearch, Arrive
  <2>2. /\ ~Searching(c) /\ ~Searching(c)' /\ ~Creating(c) /\ ~Creating(c)'
        /\ \A d \in (Readers \cup Writers) \ {c} :
             at'[d] = at[d] /\ got'[d] = got[d] /\ on'[d] = on[d]
    BY <1>2, <1>a DEF RequestSearch, Arrive, Await, Searching, Creating, Shape
  <2> QED
    BY <1>a, <2>1, <2>2, QuietKeeps
<1>3. ASSUME NEW c \in Readers, LookUpModel(c) \/ SelectById(c) \/ SelectByName(c) \/ FillModel(c)
      PROVE  CatalogInv'
  <2>1. Listed' = Listed /\ UNCHANGED <<found, tagged, raced>>
    BY <1>3 DEF Listed, LookUpModel, SelectById, SelectByName, FillModel
  <2>2. /\ ~Searching(c) /\ ~Searching(c)' /\ ~Creating(c) /\ ~Creating(c)'
        /\ \A d \in (Readers \cup Writers) \ {c} :
             at'[d] = at[d] /\ got'[d] = got[d] /\ on'[d] = on[d]
    BY <1>3, <1>a DEF LookUpModel, SelectById, SelectByName, FillModel, Answer, Await, Searching,
       Creating, Shape
  <2> QED
    BY <1>a, <2>1, <2>2, QuietKeeps
<1>4. ASSUME NEW c \in Writers, NEW m \in Models, RequestCreate(c, m) \/ RequestUpdate(c, m)
      PROVE  CatalogInv'
  <2>1. Listed' = Listed /\ UNCHANGED <<found, tagged, raced>>
    BY <1>4 DEF Listed, RequestCreate, RequestUpdate, Arrive
  <2>2. /\ ~Searching(c) /\ ~Searching(c)' /\ ~Creating(c) /\ ~Creating(c)'
        /\ \A d \in (Readers \cup Writers) \ {c} :
             at'[d] = at[d] /\ got'[d] = got[d] /\ on'[d] = on[d]
    BY <1>4, <1>a DEF RequestCreate, RequestUpdate, Arrive, Await, Searching, Creating, Shape
  <2> QED
    BY <1>a, <2>1, <2>2, QuietKeeps
<1>5. ASSUME NEW c \in Writers, CacheCreated(c) \/ UpdateModel(c) PROVE CatalogInv'
  <2>1. Listed' = Listed
    BY <1>5, <1>a, CatalogAssumption DEF Listed, CacheCreated, UpdateModel, Shape
  <2>2. UNCHANGED <<found, tagged, raced>>
    BY <1>5 DEF CacheCreated, UpdateModel
  <2>3. /\ ~Searching(c) /\ ~Searching(c)' /\ ~Creating(c) /\ ~Creating(c)'
        /\ \A d \in (Readers \cup Writers) \ {c} :
             at'[d] = at[d] /\ got'[d] = got[d] /\ on'[d] = on[d]
    BY <1>5, <1>a DEF CacheCreated, UpdateModel, Answer, Await, Searching, Creating, Shape
  <2> QED
    BY <1>a, <2>1, <2>2, <2>3, QuietKeeps
<1>6. CASE UNCHANGED catalogVars
  <2>1. Current' = Current /\ Listed' = Listed /\ Cardinality(Listed)' = Cardinality(Listed)
    BY <1>6 DEF Current, Listed, catalogVars
  <2> QED
    BY <1>6, <1>a, <2>1 DEF CatalogInv, catalogVars, Apart, TagIsRead, ReadsAreCurrent, TagIsWhole,
       StaleIsDropped, Dropping, Searching, Creating
<1> QED
  BY <1>a, <1>1, <1>2, <1>3, <1>4, <1>5, <1>6, LookUpKeeps, SelectKeeps, StoreKeeps, TagKeeps,
     InsertKeeps, DropKeeps, ExpireKeeps DEF CatalogNext, ReadStep, WriteStep

(* Whatever requests overlap, for any models, queries and clients: without  *)
(* a race with a create and a loss in Redis, what a search finds in the     *)
(* cache is the listing, because the tag names every entry the listing was  *)
(* stored under and every create deletes all it found there.                *)
THEOREM SearchesAreComplete == CatalogSpec => []SearchIsComplete
<1>1. CatalogInv => SearchIsComplete
  BY DEF CatalogInv, SearchIsComplete, StaleIsDropped, Dropping, Creating, Current
<1> QED
  BY <1>1, InitCatalog, NextCatalog, PTL DEF CatalogSpec

-----------------------------------------------------------------------------
(* Versions and artifacts.                                                 *)

(* A request goes on only with a version whose row it found, and the row is *)
(* still there when it stores an artifact: no version is ever deleted.      *)
RecordsInv ==
  /\ DOMAIN ask = Clients
  /\ \A c \in Clients : ask[c].found => ask[c].version \in versions
  /\ OneRowPerUpload

LEMMA InitRecords == RecordsInit => RecordsInv
  BY DEF RecordsInit, RecordsInv, OneRowPerUpload, Quiet

LEMMA NextRecords == RecordsInv /\ [RecordsNext]_recordVars => RecordsInv'
<1> SUFFICES ASSUME RecordsInv, [RecordsNext]_recordVars PROVE RecordsInv'
  OBVIOUS
<1>1. ASSUME NEW c \in Clients, RecordRequest(c) PROVE RecordsInv'
  <2>1. PICK op, v, u, h : UploadRequest(c, op, v, u, h)
    BY <1>1 DEF RecordRequest, PostVersion, GetVersion, PostUploadUrl, PostComplete, GetArtifacts,
       GetDownload, PostVerify, GenerateCard, GetCard, GetCardHTML, GetCardJSON
  <2>2. ask' = [ask EXCEPT ![c] = [Quiet EXCEPT !.op = op, !.version = v, !.id = u, !.hash = h]]
    BY <2>1 DEF UploadRequest
  <2>3. [Quiet EXCEPT !.op = op, !.version = v, !.id = u, !.hash = h].found = FALSE
    BY DEF Quiet
  <2>4. ~ask'[c].found /\ \A d \in Clients \ {c} : ask'[d] = ask[d]
    BY <2>2, <2>3 DEF RecordsInv
  <2>5. UNCHANGED <<versions, artifacts>> /\ DOMAIN ask' = DOMAIN ask
    BY <2>1, <2>2 DEF UploadRequest
  <2> QED
    BY <2>4, <2>5 DEF RecordsInv, OneRowPerUpload
<1>2. ASSUME NEW c \in Clients, NEW n, Reply(c, n), UNCHANGED artifacts, versions \subseteq versions'
      PROVE  RecordsInv'
  <2>1. ask' = [ask EXCEPT ![c] = Quiet] /\ ~Quiet.found
    BY <1>2 DEF Reply, Quiet
  <2>2. ~ask'[c].found /\ \A d \in Clients \ {c} : ask'[d] = ask[d]
    BY <2>1 DEF RecordsInv
  <2> QED
    BY <1>2, <2>1, <2>2 DEF RecordsInv, OneRowPerUpload
<1>3. ASSUME NEW c \in Clients, FindVersionRow(c) PROVE RecordsInv'
  <2>1. CASE ask[c].version \in versions
    <3>1. ask' = [ask EXCEPT ![c].found = TRUE] /\ UNCHANGED <<versions, artifacts>>
      BY <1>3, <2>1 DEF FindVersionRow
    <3>2. ask'[c].version = ask[c].version /\ \A d \in Clients \ {c} : ask'[d] = ask[d]
      BY <3>1 DEF RecordsInv
    <3> QED
      BY <2>1, <3>1, <3>2 DEF RecordsInv, OneRowPerUpload
  <2> QED
    BY <1>2, <1>3, <2>1 DEF FindVersionRow
<1>4. ASSUME NEW c \in Clients, InsertArtifact(c) PROVE RecordsInv'
  <2>1. CASE \E a \in artifacts : a.id = ask[c].id
    BY <1>2, <1>4, <2>1 DEF InsertArtifact
  <2>2. CASE \A a \in artifacts : a.id # ask[c].id
    <3> DEFINE new == [id |-> ask[c].id, version |-> ask[c].version, sha256 |-> ask[c].hash,
                       type |-> "weights"]
    <3>1. /\ artifacts' = artifacts \cup {new} /\ UNCHANGED versions
          /\ Reply(c, 201)
      BY <1>4, <2>2 DEF InsertArtifact
    <3>2. new.id = ask[c].id /\ new.version \in versions
      BY <1>4 DEF InsertArtifact, Found, RecordsInv
    <3> HIDE DEF new
    <3>3. OneRowPerUpload'
      BY <2>2, <3>1, <3>2 DEF RecordsInv, OneRowPerUpload
    <3>4. ask' = [ask EXCEPT ![c] = Quiet] /\ ~Quiet.found
      BY <3>1 DEF Reply, Quiet
    <3>5. ~ask'[c].found /\ \A d \in Clients \ {c} : ask'[d] = ask[d]
      BY <3>4 DEF RecordsInv
    <3> QED
      BY <3>1, <3>3, <3>4, <3>5 DEF RecordsInv
  <2> QED
    BY <2>1, <2>2
<1>5. ASSUME NEW c \in Clients, RecordStep(c) PROVE RecordsInv'
  BY <1>2, <1>3, <1>4, <1>5 DEF RecordStep, InsertVersion, ReadVersionRow, OfferUpload, ReadArtifact,
     VerifyArtifact, FailCard, ReadCard
<1>6. CASE UNCHANGED recordVars
  BY <1>6 DEF RecordsInv, OneRowPerUpload, recordVars
<1> QED
  BY <1>1, <1>5, <1>6 DEF RecordsNext

(* For any clients and uploads: a completion tried again inserts nothing,   *)
(* and a row of artifacts belongs to a version that exists.                 *)
THEOREM UploadsHaveOneRow == RecordsSpec => []OneRowPerUpload
<1>1. RecordsInv => OneRowPerUpload
  BY DEF RecordsInv
<1> QED
  BY <1>1, InitRecords, NextRecords, PTL DEF RecordsSpec

-----------------------------------------------------------------------------
(* Rules of policies.                                                      *)

(* The condition judged at turn i, and the verdicts of the turns so far. *)
Verdict(i) == EvaluateCondition(policy.conditions[i])
Verdicts == {Verdict(i) : i \in 1..(index - 1)}

Row(judged) == [status |-> judged, blocking |-> FALSE, of |-> "condition"]

(* The rows are those of the verdicts and, once a condition failed, of all  *)
(* actions; the running status and the flag summarise them.                 *)
RulesInv ==
  /\ policy \in Policies
  /\ index \in 1..(Len(policy.conditions) + 1)
  /\ overall = "pass" \/ overall \in Verdicts \ {"pass"}
  /\ overall = "pass" => Verdicts \subseteq {"pass"}
  /\ \A s \in Verdicts : Row(s) \in results
  /\ \A r \in results :
       \/ \E s \in Verdicts : r = Row(s)
       \/ "fail" \in Verdicts /\ \E j \in DOMAIN policy.actions : r = ExecuteAction(policy.actions[j])
  /\ blocks <=> \E r \in results : r.blocking

LEMMA VerdictIsOneOfThree == \A i : Verdict(i) \in {"pass", "fail", "error"}
  BY DEF Verdict, EvaluateCondition

LEMMA InitRules == RulesInit => RulesInv
<1> SUFFICES ASSUME RulesInit PROVE RulesInv
  OBVIOUS
<1>1. index - 1 = 0 /\ index \in 1..(Len(policy.conditions) + 1)
  BY RulesAssumption DEF RulesInit
<1>2. Verdicts = {}
  BY <1>1 DEF Verdicts
<1> QED
  BY <1>1, <1>2 DEF RulesInit, RulesInv

LEMMA NextRules == RulesInv /\ [RulesNext]_ruleVars => RulesInv'
<1> SUFFICES ASSUME RulesInv, [RulesNext]_ruleVars PROVE RulesInv'
  OBVIOUS
<1>a. UNCHANGED <<policy, context>>
  BY DEF RulesNext, JudgeCondition, ruleVars
<1>b. \A i : Verdict(i)' = Verdict(i)
  BY <1>a DEF Verdict, EvaluateCondition, GetConditionValue
<1>1. CASE JudgeCondition
  <2> DEFINE judged == Verdict(index)
             acted == IF judged = "fail"
                      THEN {ExecuteAction(policy.actions[j]) : j \in DOMAIN policy.actions}
                      ELSE {}
  <2>1. /\ index <= Len(policy.conditions)
        /\ index' = index + 1
        /\ overall' = IF judged \in {"fail", "error"} THEN judged ELSE overall
        /\ blocks' = (blocks \/ \E a \in acted : a.blocking)
        /\ results' = results \cup acted \cup {Row(judged)}
    BY <1>1 DEF JudgeCondition, Verdict, Row
  <2>2. Len(policy.conditions) \in Nat /\ index \in Nat /\ index >= 1
    BY RulesAssumption DEF RulesInv
  <2>3. Verdicts' = Verdicts \cup {judged}
    <3>1. 1..(index' - 1) = 1..(index - 1) \cup {index}
      BY <2>1, <2>2
    <3> QED
      BY <1>b, <3>1 DEF Verdicts
  <2>4. judged \in {"pass", "fail", "error"}
    BY VerdictIsOneOfThree
  <2>5. \A a \in acted : "fail" = judged /\ \E j \in DOMAIN policy.actions : a = ExecuteAction(policy.actions[j])
    OBVIOUS
  <2>6. ~Row(judged).blocking
    BY DEF Row
  <2> HIDE DEF judged, acted
  <2>7. policy' \in Policies /\ index' \in 1..(Len(policy'.conditions) + 1)
    BY <1>a, <2>1, <2>2 DEF RulesInv
  <2>8. /\ overall' = "pass" \/ overall' \in Verdicts' \ {"pass"}
        /\ overall' = "pass" => Verdicts' \subseteq {"pass"}
    BY <2>1, <2>3, <2>4 DEF RulesInv
  <2>9. \A s \in Verdicts' : Row(s) \in results'
    BY <2>1, <2>3 DEF RulesInv
  <2>10. \A r \in results' :
          \/ \E s \in Verdicts' : r = Row(s)
          \/ "fail" \in Verdicts' /\ \E j \in DOMAIN policy'.actions : r = ExecuteAction(policy'.actions[j])
    BY <1>a, <2>1, <2>3, <2>5 DEF RulesInv
  <2>11. blocks' <=> \E r \in results' : r.blocking
    BY <2>1, <2>6 DEF RulesInv
  <2> QED
    BY <2>7, <2>8, <2>9, <2>10, <2>11 DEF RulesInv, Row, ExecuteAction, ActionStatus
<1>2. CASE UNCHANGED ruleVars
  <2>1. Verdicts' = Verdicts
    BY <1>2, <1>b DEF Verdicts, ruleVars
  <2> QED
    BY <1>2, <2>1 DEF RulesInv, ruleVars, Row, ExecuteAction, ActionStatus
<1> QED
  BY <1>1, <1>2 DEF RulesNext

LEMMA RulesDecide == RulesInv => GatesAgree
<1> SUFFICES ASSUME RulesInv, Judged PROVE GatesAgree
  BY DEF GatesAgree
<1>1. Verdicts = RuleStatuses
  <2>1. Len(policy.conditions) \in Nat /\ DOMAIN policy.conditions = 1..Len(policy.conditions)
    BY RulesAssumption DEF RulesInv
  <2>2. 1..(index - 1) = DOMAIN policy.conditions
    BY <2>1 DEF RulesInv, Judged
  <2> QED
    BY <2>2 DEF Verdicts, RuleStatuses, Verdict
<1>2. Verdicts \subseteq {"pass", "fail", "error"}
  BY VerdictIsOneOfThree DEF Verdicts
<1>3. \A r \in results :
        \/ r.status \in Verdicts /\ ~r.blocking
        \/ /\ "fail" \in Verdicts
           /\ \E j \in DOMAIN policy.actions :
                r.status = ActionStatus(policy.actions[j]) /\ r.blocking = policy.actions[j].blocking
  BY DEF RulesInv, Row, ExecuteAction
<1>4. \A s \in Verdicts : \E r \in results : r.status = s
  BY DEF RulesInv, Row
<1>5. \A a : ActionStatus(a) \in {"warning", "fail"}
  BY DEF ActionStatus
<1>6. /\ overall = "pass" \/ overall \in Verdicts \ {"pass"}
      /\ overall = "pass" => Verdicts \subseteq {"pass"}
      /\ blocks <=> \E r \in results : r.blocking
  BY DEF RulesInv
<1>7. (overall = "pass") = (RuleStatuses \subseteq {"pass"})
  BY <1>1, <1>6
<1>8. (GetEvaluationResults = EvaluatePolicies) = (RuleStatuses \subseteq {"pass"})
  <2>1. PolicyResults("policy") = {}
    BY DEF PolicyResults, ResultsByPolicy
  <2>2. GetEvaluationResults = CalculateEvaluationSummary("pass", FALSE)
    BY <2>1 DEF GetEvaluationResults, DetermineOverallPolicyStatus, CalculateEvaluationSummary
  <2>3. GetEvaluationResults.passed = 1
    BY <2>2 DEF CalculateEvaluationSummary
  <2>4. EvaluatePolicies.passed = IF overall = "pass" THEN 1 ELSE 0
    BY DEF EvaluatePolicies, CalculateEvaluationSummary
  <2>5. overall = "pass" => EvaluatePolicies = CalculateEvaluationSummary("pass", FALSE)
    BY DEF EvaluatePolicies, CalculateEvaluationSummary
  <2>6. CASE overall = "pass"
    BY <1>7, <2>2, <2>5, <2>6
  <2>7. CASE overall # "pass"
    <3>1. GetEvaluationResults # EvaluatePolicies
      BY <2>3, <2>4, <2>7
    <3> QED
      BY <1>7, <2>7, <3>1
  <2> QED
    BY <2>6, <2>7
<1>9. HasBlockingViolations => blocks
  BY <1>6 DEF HasBlockingViolations
<1>10. blocks => overall # "pass"
  BY <1>3, <1>6
<1>12. ASSUME "error" \notin RuleStatuses,
              \A j \in DOMAIN policy.actions :
                policy.actions[j].blocking => ActionStatus(policy.actions[j]) = "fail"
       PROVE  (EvaluatePolicies.blockingViolations = 1) = HasBlockingViolations
  <2>1. EvaluatePolicies.blockingViolations = IF blocks /\ overall = "fail" THEN 1 ELSE 0
    BY DEF EvaluatePolicies, CalculateEvaluationSummary
  <2>2. blocks => overall = "fail"
    BY <1>1, <1>2, <1>6, <1>10, <1>12
  <2>3. blocks => HasBlockingViolations
    BY <1>3, <1>6, <1>12 DEF HasBlockingViolations
  <2>4. HasBlockingViolations => EvaluatePolicies.blockingViolations = 1
    BY <1>9, <2>1, <2>2
  <2>5. ~HasBlockingViolations => EvaluatePolicies.blockingViolations # 1
    BY <2>1, <2>3
  <2>6. HasBlockingViolations \in BOOLEAN
    BY DEF HasBlockingViolations
  <2> QED
    BY <2>4, <2>5, <2>6
<1> QED
  BY <1>7, <1>8, <1>9, <1>10, <1>12 DEF GatesAgree

(* For any policies and any contexts, and so for any number of conditions   *)
(* and actions and any values: the loop of executePolicy, the summary of    *)
(* the request and the stored rows agree, and the evaluation read back does *)
(* not unless the policy passed, as GatesAgree says.                        *)
THEOREM ReadersAgree == RulesSpec => []GatesAgree
  BY InitRules, NextRules, RulesDecide, PTL DEF RulesSpec

-----------------------------------------------------------------------------
(* Suites, jobs and evaluations.                                           *)

(* What a job carries is what its suite, or the test runner, once had. *)
JobFits(entry) ==
  /\ entry \in JobRow
  /\ entry.status = "completed" =>
       /\ entry.thresholds \in Thresholds
       /\ entry.results \in Measured
       /\ entry.passed = CompareWithThresholds(entry.results, entry.thresholds)

EvaluationFits(e) ==
  /\ e.thresholds \in Thresholds /\ e.results \in Measured
  /\ e.passed = CompareWithThresholds(e.results, e.thresholds)

RequestFits(r) == r.version \in Evaluated /\ r.suite \in Suites /\ r.thresholds \in Thresholds \cup {Malformed}

(* The job of an evaluation is there for as long as the suite of both is.   *)
EvaluationStands(e) ==
  /\ EvaluationFits(e)
  /\ e.job \in EvalJobs /\ jobs[e.job] # NotCreated
  /\ e.suite \in Suites /\ suites[e.suite] # NotCreated
  /\ e.suite \in Rows(suites) => e.job \in CompletedJobs(e.version, e.suite)

SuitesInv ==
  /\ suites \in [Suites -> SuiteRow \cup {NotCreated, Deleted}]
  /\ DOMAIN jobs = EvalJobs /\ DOMAIN suiteRequest = EvalJobs
  /\ \A j \in EvalJobs : suiteRequest[j] # NoRequest =>
       RequestFits(suiteRequest[j]) /\ jobs[j] = NotCreated
  /\ \A j \in Rows(jobs) : JobFits(jobs[j]) /\ jobs[j].suite \in Rows(suites)
  /\ \A e \in evaluations : EvaluationStands(e)
  /\ \A e, f \in evaluations : e.job = f.job => e = f

LEMMA InitSuites == SuitesInit => SuitesInv
  BY SuitesAssumption DEF SuitesInit, SuitesInv, Rows

LEMMA NextSuites == SuitesInv /\ [SuitesNext]_suiteVars => SuitesInv'
<1> SUFFICES ASSUME SuitesInv, [SuitesNext]_suiteVars PROVE SuitesInv'
  OBVIOUS
<1>a. \A x : x \in SuiteRow \cup JobRow => x # NotCreated /\ x # Deleted
  BY SuitesAssumption
<1>1. ASSUME NEW s \in Suites, NEW entry \in SuiteRow, suites[s] # Deleted,
             suites' = [suites EXCEPT ![s] = entry], UNCHANGED <<jobs, suiteRequest, evaluations>>
      PROVE  SuitesInv'
  <2>1. Rows(suites)' = Rows(suites) \cup {s} /\ Rows(jobs)' = Rows(jobs)
    BY <1>1, <1>a DEF SuitesInv, Rows
  <2>2. \A v, t : CompletedJobs(v, t)' = CompletedJobs(v, t)
    BY <1>1 DEF CompletedJobs, Rows
  <2>3. \A e \in evaluations : EvaluationStands(e)'
    BY <1>1, <1>a, <2>1, <2>2 DEF SuitesInv, EvaluationStands, EvaluationFits, Rows
  <2> QED
    BY <1>1, <2>1, <2>3 DEF SuitesInv
<1>2. ASSUME NEW role \in UserRole, NEW s \in Suites, NEW t \in Thresholds \cup {Malformed},
             PostSuite(role, s, t)
      PROVE  SuitesInv'
  <2>1. [status |-> "draft", thresholds |-> t] \in SuiteRow
    BY DEF SuiteRow, EvaluationSuiteStatus
  <2> QED
    BY <1>1, <1>2, <2>1, SuitesAssumption DEF PostSuite, CreateEvaluationSuite
<1>3. ASSUME NEW role \in UserRole, NEW s \in Suites, NEW t \in Thresholds \cup {Malformed},
             NEW next \in EvaluationSuiteStatus, PutSuite(role, s, next, t)
      PROVE  SuitesInv'
  <2>1. [status |-> next, thresholds |-> t] \in SuiteRow
    BY DEF SuiteRow
  <2> QED
    BY <1>1, <1>3, <2>1 DEF PutSuite, UpdateEvaluationSuite, Rows
<1>4. ASSUME NEW role \in UserRole, NEW s \in Suites, DeleteSuite(role, s) PROVE SuitesInv'
  <2>1. /\ suites' = [suites EXCEPT ![s] = Deleted]
        /\ jobs' = [j \in EvalJobs |->
                     IF j \in Rows(jobs) /\ jobs[j].suite = s THEN Deleted ELSE jobs[j]]
        /\ UNCHANGED <<suiteRequest, evaluations>> /\ s \in Rows(suites)
    BY <1>4 DEF DeleteSuite, DeleteEvaluationSuite
  <2>2. Rows(suites)' = Rows(suites) \ {s}
    BY <2>1 DEF SuitesInv, Rows
  <2>3. /\ Rows(jobs)' = {j \in Rows(jobs) : jobs[j].suite # s}
        /\ \A j \in Rows(jobs)' : jobs'[j] = jobs[j]
    BY <2>1 DEF SuitesInv, Rows
  <2>4. suites' \in [Suites -> SuiteRow \cup {NotCreated, Deleted}]
    BY <2>1 DEF SuitesInv
  <2>5. \A j \in EvalJobs : jobs[j] = NotCreated <=> jobs'[j] = NotCreated
    BY <2>1, SuitesAssumption DEF SuitesInv, Rows
  <2>6. \A v, t : t # s => CompletedJobs(v, t)' = CompletedJobs(v, t)
    BY <2>3 DEF CompletedJobs
  <2>7. \A t \in Suites : suites[t] # NotCreated => suites'[t] # NotCreated
    BY <2>1, SuitesAssumption DEF SuitesInv
  <2>8. \A e \in evaluations : EvaluationStands(e)'
    BY <2>2, <2>5, <2>6, <2>7 DEF SuitesInv, EvaluationStands, EvaluationFits
  <2> QED
    BY <2>1, <2>2, <2>3, <2>4, <2>5, <2>8 DEF SuitesInv, RequestFits
<1>5. ASSUME NEW role \in UserRole, NEW j \in EvalJobs, NEW v \in Evaluated, NEW s \in Suites,
             PostJob(role, j, v, s)
      PROVE  SuitesInv'
  <2> DEFINE asked == [version |-> v, suite |-> s, thresholds |-> suites[s].thresholds]
  <2>1. /\ suiteRequest' = [suiteRequest EXCEPT ![j] = asked] /\ jobs[j] = NotCreated
        /\ UNCHANGED <<suites, jobs, evaluations>> /\ s \in Rows(suites)
    BY <1>5 DEF PostJob
  <2>2. suites[s] \in SuiteRow
    BY <2>1 DEF SuitesInv, Rows
  <2>3. RequestFits(asked)
    BY <2>2 DEF RequestFits, SuiteRow
  <2> HIDE DEF asked
  <2>4. \A e : EvaluationStands(e) => EvaluationStands(e)'
    BY <2>1 DEF EvaluationStands, EvaluationFits, Rows, CompletedJobs
  <2> QED
    BY <2>1, <2>3, <2>4 DEF SuitesInv, Rows
<1>6. ASSUME NEW j \in EvalJobs, InsertJob(j) PROVE SuitesInv'
  <2> DEFINE r == suiteRequest[j]
             entry == [version |-> r.version, suite |-> r.suite, thresholds |-> r.thresholds,
                     status |-> "queued", results |-> Unmeasured, passed |-> FALSE]
  <2>1. /\ suiteRequest' = [suiteRequest EXCEPT ![j] = NoRequest] /\ UNCHANGED <<suites, evaluations>>
        /\ jobs' = IF r.suite \in Rows(suites) THEN [jobs EXCEPT ![j] = entry] ELSE jobs
        /\ RequestFits(r) /\ jobs[j] = NotCreated
    BY <1>6 DEF InsertJob, SuitesInv
  <2>2. entry \in JobRow /\ entry.suite = r.suite /\ entry.status = "queued"
    BY <2>1 DEF JobRow, RequestFits
  <2> HIDE DEF entry, r
  <2>3. DOMAIN jobs' = EvalJobs /\ \A i \in EvalJobs \ {j} : jobs'[i] = jobs[i]
    BY <2>1 DEF SuitesInv
  <2>4. \A i \in EvalJobs : suiteRequest'[i] # NoRequest =>
          i # j /\ suiteRequest'[i] = suiteRequest[i]
    BY <2>1 DEF SuitesInv
  <2>5. \A i \in Rows(jobs)' : \/ i \in Rows(jobs) /\ jobs'[i] = jobs[i]
                               \/ i = j /\ jobs'[j] = entry /\ entry.suite \in Rows(suites)
    BY <2>1, <2>2, <2>3 DEF SuitesInv, Rows
  <2>6. \A i \in Rows(jobs)' : JobFits(jobs'[i]) /\ jobs'[i].suite \in Rows(suites)
    BY <2>2, <2>5 DEF SuitesInv, JobFits
  <2>7. \A e \in evaluations : EvaluationStands(e)'
    BY <2>1, <2>3 DEF SuitesInv, EvaluationStands, EvaluationFits, Rows, CompletedJobs
  <2> QED
    BY <2>1, <2>3, <2>4, <2>6, <2>7 DEF SuitesInv, RequestFits, Rows, JobFits
<1>7. ASSUME NEW j \in EvalJobs, NEW measures \in Measured, CompleteJob(j, measures) PROVE SuitesInv'
  <2>1. /\ j \in Rows(jobs) /\ jobs[j].status = "queued"
        /\ UNCHANGED <<suites, suiteRequest, evaluations>>
    BY <1>7 DEF CompleteJob
  <2>2. jobs[j] \in JobRow /\ jobs[j].suite \in Rows(suites)
    BY <2>1 DEF SuitesInv, JobFits
  <2>3. PICK entry : /\ jobs' = [jobs EXCEPT ![j] = entry] /\ JobFits(entry)
                   /\ entry.suite = jobs[j].suite
    <3>1. CASE jobs[j].thresholds = Malformed
      <4>1. jobs' = [jobs EXCEPT ![j] = [jobs[j] EXCEPT !.status = "failed"]]
        BY <1>7, <3>1 DEF CompleteJob
      <4>2. /\ [jobs[j] EXCEPT !.status = "failed"] \in JobRow
            /\ [jobs[j] EXCEPT !.status = "failed"].suite = jobs[j].suite
            /\ [jobs[j] EXCEPT !.status = "failed"].status = "failed"
        BY <2>2 DEF JobRow
      <4> QED
        BY <4>1, <4>2 DEF JobFits
    <3>2. CASE jobs[j].thresholds # Malformed
      <4> DEFINE verdict == CompareWithThresholds(measures, jobs[j].thresholds)
                 entry == [jobs[j] EXCEPT !.status = "completed", !.results = measures, !.passed = verdict]
      <4>1. jobs' = [jobs EXCEPT ![j] = entry]
        BY <1>7, <3>2 DEF CompleteJob
      <4>2. verdict \in BOOLEAN
        BY DEF CompareWithThresholds
      <4> HIDE DEF verdict
      <4>3. /\ entry \in JobRow /\ entry.suite = jobs[j].suite
            /\ entry.thresholds = jobs[j].thresholds /\ entry.thresholds \in Thresholds
            /\ entry.results = measures /\ entry.passed = verdict
        BY <2>2, <3>2, <4>2 DEF JobRow
      <4>4. entry.passed = CompareWithThresholds(entry.results, entry.thresholds)
        BY <4>3 DEF verdict
      <4> HIDE DEF entry
      <4> QED
        BY <4>1, <4>3, <4>4 DEF JobFits
    <3> QED
      BY <3>1, <3>2
  <2>4. entry \in JobRow
    BY <2>3 DEF JobFits
  <2>5. /\ DOMAIN jobs' = EvalJobs /\ jobs'[j] = entry
        /\ \A i \in EvalJobs \ {j} : jobs'[i] = jobs[i]
    BY <2>1, <2>3 DEF SuitesInv, Rows
  <2>6. Rows(jobs)' = Rows(jobs) /\ Rows(suites)' = Rows(suites)
    BY <1>a, <2>1, <2>4, <2>5 DEF SuitesInv, Rows
  <2>7. \A e \in evaluations : EvaluationStands(e)'
    BY <1>a, <2>1, <2>4, <2>5, <2>6 DEF SuitesInv, EvaluationStands, EvaluationFits, CompletedJobs
  <2>8. \A i \in Rows(jobs) : JobFits(jobs'[i]) /\ jobs'[i].suite \in Rows(suites)
    BY <2>2, <2>3, <2>5 DEF SuitesInv, Rows
  <2>9. \A i \in EvalJobs : suiteRequest'[i] # NoRequest =>
          RequestFits(suiteRequest'[i]) /\ jobs'[i] = NotCreated
    BY <2>1, <2>5 DEF SuitesInv, Rows
  <2> QED
    BY <2>1, <2>5, <2>6, <2>7, <2>8, <2>9 DEF SuitesInv
<1>8. ASSUME NEW j \in EvalJobs, RecordEvaluation(j) PROVE SuitesInv'
  <2> DEFINE new == [job |-> j, version |-> jobs[j].version, suite |-> jobs[j].suite,
                     results |-> jobs[j].results, thresholds |-> jobs[j].thresholds,
                     passed |-> jobs[j].passed]
  <2>1. /\ j \in Rows(jobs) /\ jobs[j].status = "completed" /\ \A e \in evaluations : e.job # j
        /\ evaluations' = evaluations \cup {new} /\ UNCHANGED <<suites, jobs, suiteRequest>>
    BY <1>8 DEF RecordEvaluation
  <2>2. JobFits(jobs[j]) /\ jobs[j].suite \in Rows(suites)
    BY <2>1 DEF SuitesInv
  <2>3. EvaluationStands(new)
    BY <2>1, <2>2 DEF EvaluationStands, EvaluationFits, JobFits, CompletedJobs, Rows, SuitesInv
  <2>4. new.job = j
    OBVIOUS
  <2> HIDE DEF new
  <2>5. \A e : EvaluationStands(e) => EvaluationStands(e)'
    BY <2>1 DEF EvaluationStands, EvaluationFits, Rows, CompletedJobs
  <2> QED
    BY <2>1, <2>3, <2>4, <2>5 DEF SuitesInv, Rows
<1>9. CASE UNCHANGED suiteVars
  <2>1. \A e : EvaluationStands(e) => EvaluationStands(e)'
    BY <1>9 DEF suiteVars, EvaluationStands, EvaluationFits, Rows, CompletedJobs
  <2> QED
    BY <1>9, <2>1 DEF suiteVars, SuitesInv, Rows
<1> QED
  BY <1>2, <1>3, <1>4, <1>5, <1>6, <1>7, <1>8, <1>9 DEF SuitesNext

(* A pair evaluated once is joined to one row. *)
LEMMA OneEvaluationJoined ==
  ASSUME SuitesInv, NEW e \in evaluations, CompletedJobs(e.version, e.suite) = {e.job}
  PROVE  /\ EvaluationsOf(e.version, e.suite) = {e}
         /\ Joined(e.version, e.suite) = {<<e.job, e>>}
<1>1. e.suite \in Rows(suites)
  BY DEF CompletedJobs, SuitesInv
<1>2. ASSUME NEW f \in EvaluationsOf(e.version, e.suite) PROVE f = e
  <2>1. f \in evaluations /\ f.version = e.version /\ f.suite = e.suite
    BY DEF EvaluationsOf
  <2>2. EvaluationStands(f)
    BY <2>1 DEF SuitesInv
  <2>3. f.job \in CompletedJobs(e.version, e.suite)
    BY <1>1, <2>1, <2>2 DEF EvaluationStands
  <2> QED
    BY <2>1, <2>3 DEF SuitesInv
<1>3. EvaluationsOf(e.version, e.suite) = {e}
  BY <1>2 DEF EvaluationsOf
<1> QED
  BY <1>3 DEF Joined

(* An evaluation that passed makes the cast of every joined row of its     *)
(* pair refused.                                                           *)
LEMMA PassedIsRefused ==
  ASSUME NEW e \in evaluations, e.passed, CompletedJobs(e.version, e.suite) # {}
  PROVE  /\ GetEvaluationTrends(e.version, e.suite) = Refused
         /\ GetEvaluationSummary(e.version, e.suite) = Refused
<1>1. PICK j : j \in CompletedJobs(e.version, e.suite)
  OBVIOUS
<1>2. e \in EvaluationsOf(e.version, e.suite)
  BY DEF EvaluationsOf
<1>3. PICK p : p = <<j, e>>
  OBVIOUS
<1>4. p \in Joined(e.version, e.suite) /\ p[2].passed
  BY <1>1, <1>2, <1>3 DEF Joined
<1>5. GetEvaluationTrends(e.version, e.suite) = Refused
  BY <1>4 DEF GetEvaluationTrends
<1>6. Refused.refused = TRUE
  BY DEF Refused
<1> QED
  BY <1>5, <1>6 DEF GetEvaluationSummary

LEMMA SuitesReport == SuitesInv => ReportsAgree
<1> SUFFICES ASSUME SuitesInv, NEW e \in evaluations
             PROVE  /\ e.passed = CompareWithThresholds(e.results, e.thresholds)
                    /\ e.passed /\ CompletedJobs(e.version, e.suite) # {} =>
                         /\ GetEvaluationTrends(e.version, e.suite) = Refused
                         /\ GetEvaluationSummary(e.version, e.suite) = Refused
                    /\ CompletedJobs(e.version, e.suite) = {e.job} =>
                         /\ ~e.passed =>
                              /\ GetEvaluationTrends(e.version, e.suite) =
                                   [refused |-> FALSE, jobCount |-> 1, passes |-> 0]
                              /\ GetEvaluationSummary(e.version, e.suite) =
                                   [refused |-> FALSE, completedJobs |-> 1, passes |-> 0]
                         /\ \A p \in GetMetricTrends(e.version, e.suite) :
                              p.job = e.job /\ p.passed = e.passed
                         /\ e.passed => GetTopFailingMetrics(e.version, e.suite) = {}
                         /\ ~e.passed /\ (\A m \in Metrics : e.results[m] # Unmeasured)
                              => GetTopFailingMetrics(e.version, e.suite) # {}
  BY DEF ReportsAgree
<1>1. EvaluationFits(e)
  BY DEF SuitesInv, EvaluationStands
<1>2. /\ e.results \in [Metrics -> Nat \cup {Unmeasured}]
      /\ e.thresholds \in [Metrics -> Nat \cup {Unmeasured}]
  BY <1>1, SuitesAssumption DEF EvaluationFits
<1>3. ASSUME CompletedJobs(e.version, e.suite) = {e.job}
      PROVE  /\ ~e.passed =>
                  /\ GetEvaluationTrends(e.version, e.suite) =
                       [refused |-> FALSE, jobCount |-> 1, passes |-> 0]
                  /\ GetEvaluationSummary(e.version, e.suite) =
                       [refused |-> FALSE, completedJobs |-> 1, passes |-> 0]
             /\ \A p \in GetMetricTrends(e.version, e.suite) : p.job = e.job /\ p.passed = e.passed
             /\ e.passed => GetTopFailingMetrics(e.version, e.suite) = {}
             /\ ~e.passed /\ (\A m \in Metrics : e.results[m] # Unmeasured)
                  => GetTopFailingMetrics(e.version, e.suite) # {}
  <2> DEFINE v == e.version
             s == e.suite
             pair == <<e.job, e>>
             joinedPasses == {p \in Joined(v, s) : p[2].passed}
             summaryPasses == {j \in CompletedJobs(v, s) : \E f \in EvaluationsOf(v, s) : f.passed}
  <2>1. EvaluationsOf(v, s) = {e} /\ Joined(v, s) = {pair}
    BY <1>3, OneEvaluationJoined
  <2>2. pair[2] = e /\ pair[1] = e.job
    OBVIOUS
  <2> HIDE DEF pair
  <2>3. ASSUME ~e.passed
        PROVE  /\ GetEvaluationTrends(v, s) = [refused |-> FALSE, jobCount |-> 1, passes |-> 0]
               /\ GetEvaluationSummary(v, s) =
                    [refused |-> FALSE, completedJobs |-> 1, passes |-> 0]
    <3>1. joinedPasses = {} /\ summaryPasses = {}
      BY <2>1, <2>2, <2>3
    <3>2. Cardinality(joinedPasses) = 0 /\ Cardinality(summaryPasses) = 0
      BY <3>1, FS_EmptySet
    <3>3. Cardinality(Joined(v, s)) = 1 /\ Cardinality(CompletedJobs(v, s)) = 1
      BY <1>3, <2>1, FS_Singleton
    <3>4. ~\E p \in Joined(v, s) : p[2].passed
      BY <2>1, <2>2, <2>3
    <3>5. GetEvaluationTrends(v, s) = [refused |-> FALSE, jobCount |-> 1, passes |-> 0]
      BY <3>2, <3>3, <3>4 DEF GetEvaluationTrends
    <3>6. GetEvaluationTrends(v, s).refused = FALSE
      BY <3>5
    <3> QED
      BY <3>2, <3>3, <3>5, <3>6 DEF GetEvaluationSummary
  <2>6. \A p \in GetMetricTrends(v, s) : p.job = e.job /\ p.passed = e.passed
    BY <2>1, <2>2 DEF GetMetricTrends
  <2>7. \A m \in Metrics :
          m \in GetTopFailingMetrics(v, s) <=>
            e.results[m] # Unmeasured /\ e.thresholds[m] # Unmeasured /\ e.results[m] < e.thresholds[m]
    BY <2>1, <2>2 DEF GetTopFailingMetrics
  <2>8. e.passed = CompareWithThresholds(e.results, e.thresholds)
    BY <1>1 DEF EvaluationFits
  <2>9. ASSUME e.passed PROVE GetTopFailingMetrics(v, s) = {}
    <3>1. \A m \in Metrics :
            ~(e.results[m] # Unmeasured /\ e.thresholds[m] # Unmeasured /\ e.results[m] < e.thresholds[m])
      <4>1. CompareWithThresholds(e.results, e.thresholds)
        BY <2>8, <2>9
      <4>2. \A m \in Metrics : e.thresholds[m] # Unmeasured =>
              e.results[m] # Unmeasured /\ e.results[m] >= e.thresholds[m]
        BY <4>1 DEF CompareWithThresholds
      <4> QED
        BY <1>2, <4>2
    <3> QED
      BY <2>7, <3>1 DEF GetTopFailingMetrics
  <2>10. ASSUME ~e.passed, \A m \in Metrics : e.results[m] # Unmeasured
         PROVE  GetTopFailingMetrics(v, s) # {}
    <3>a. ~CompareWithThresholds(e.results, e.thresholds)
      BY <2>8, <2>10
    <3>1. PICK m \in Metrics : e.thresholds[m] # Unmeasured /\ ~(e.results[m] >= e.thresholds[m])
      BY <2>10, <3>a DEF CompareWithThresholds
    <3>2. e.results[m] < e.thresholds[m]
      BY <1>2, <2>10, <3>1
    <3> QED
      BY <2>7, <2>10, <3>1, <3>2
  <2> QED
    BY <2>3, <2>6, <2>9, <2>10
<1> QED
  BY <1>1, <1>3, PassedIsRefused DEF EvaluationFits

(* For any suites, jobs and metrics, whatever is edited or deleted while a  *)
(* job waits: the verdict that is recorded is that of the row's own         *)
(* thresholds; trends and summary throw once an evaluation passed; and over *)
(* a pair evaluated once the reports that answer agree with the verdict.    *)
THEOREM VerdictsAndReportsAgree == SuitesSpec => []ReportsAgree
  BY InitSuites, NextSuites, SuitesReport, PTL DEF SuitesSpec

-----------------------------------------------------------------------------
(* Bundles of evidence.                                                    *)

Unverified == {"idle", "load", "open", "start", "list", "verify"}

(* A row is ready exactly when it names its file, and its generation has    *)
(* then ended with a whole file, which only the clean-up takes away.        *)
RowFits(f) ==
  /\ status[f] = "none" => making[f] = "idle"
  /\ status[f] = "ready" <=> path[f]
  /\ path[f] => making[f] = "done" /\ file[f] # "part"
  /\ making[f] = "store" => file[f] = "whole"
  /\ ~unmarked /\ path[f] => file[f] = "whole" \/ f \in sweeping

(* What a file lists was there before its verification.                     *)
ContentFits(f) ==
  /\ lists[f] \in 0..logs
  /\ making[f] \in Unverified => covers[f] = {}
  /\ \A n \in covers[f] : n \in Nat /\ lists[f] <= n

BundlesInv ==
  /\ logs \in Nat
  /\ DOMAIN status = Files /\ DOMAIN making = Files /\ DOMAIN file = Files
  /\ DOMAIN lists = Files /\ DOMAIN covers = Files
  /\ path \in [Files -> BOOLEAN]
  /\ unmarked \in BOOLEAN
  /\ sweeping \subseteq Bundles
  /\ sweep \subseteq Bundles \X BOOLEAN
  /\ \A s \in sweep : s[2] => making[s[1]] = "done"
  /\ \A f \in Files : RowFits(f) /\ ContentFits(f)

LEMMA InitBundles == BundlesInit => BundlesInv
<1> SUFFICES ASSUME BundlesInit PROVE BundlesInv
  OBVIOUS
<1>1. path \in [Files -> BOOLEAN] /\ \A f \in Files : ~path[f]
  BY DEF BundlesInit
<1>2. \A f \in Files : RowFits(f) /\ ContentFits(f)
  BY <1>1 DEF BundlesInit, RowFits, ContentFits
<1> QED
  BY <1>1, <1>2 DEF BundlesInit, BundlesInv

(* The generation of f moves on, and nothing but its row, its file and what *)
(* it lists and verifies.                                                   *)
LEMMA StepKeeps ==
  ASSUME BundlesInv, NEW f \in Files, NEW place, Step(f, place),
         making[f] # "done" \/ place = "done",
         UNCHANGED <<logs, sweep, sweeping>>, unmarked' \in BOOLEAN, unmarked => unmarked',
         DOMAIN status' = Files, DOMAIN file' = Files, DOMAIN lists' = Files, DOMAIN covers' = Files,
         path' \in [Files -> BOOLEAN],
         \A g \in Files \ {f} : /\ status'[g] = status[g] /\ path'[g] = path[g] /\ file'[g] = file[g]
                                /\ lists'[g] = lists[g] /\ covers'[g] = covers[g],
         RowFits(f)', ContentFits(f)'
  PROVE  BundlesInv'
<1>1. making'[f] = place /\ DOMAIN making' = Files /\ \A g \in Files \ {f} : making'[g] = making[g]
  BY DEF BundlesInv, Step
<1>2. \A g \in Files : RowFits(g)' /\ ContentFits(g)'
  BY <1>1 DEF BundlesInv, RowFits, ContentFits
<1>3. \A s \in sweep' : s[2] => making'[s[1]] = "done"
  BY <1>1 DEF BundlesInv, Files
<1> QED
  BY <1>1, <1>2, <1>3 DEF BundlesInv

LEMMA NextBundles == BundlesInv /\ [BundlesNext]_bundleVars => BundlesInv'
<1> SUFFICES ASSUME BundlesInv, [BundlesNext]_bundleVars PROVE BundlesInv'
  OBVIOUS
<1>1. ASSUME NEW f \in Files, NEW s, s \in {"generating", "draft"}, status[f] = "none",
             status' = [status EXCEPT ![f] = s], Step(f, "load"),
             UNCHANGED <<path, file, due, contentVars, sweepVars, unmarked>>
      PROVE  BundlesInv'
  <2>1. status'[f] = s /\ making[f] = "idle" /\ making'[f] = "load" /\ ~path[f]
    BY <1>1 DEF BundlesInv, RowFits, Step
  <2>2. RowFits(f)' /\ ContentFits(f)'
    BY <1>1, <2>1 DEF BundlesInv, RowFits, ContentFits, contentVars, sweepVars, Unverified
  <2> QED
    BY <1>1, <2>1, <2>2, StepKeeps DEF BundlesInv, contentVars, sweepVars
<1>2. ASSUME NEW f \in Files, NEW place, Step(f, place), making[f] \notin {"done", "idle"},
             place # "store", place \in Unverified => making[f] \in Unverified,
             UNCHANGED <<file, due, contentVars, sweepVars>>, unmarked' \in BOOLEAN, unmarked => unmarked',
             \/ UNCHANGED <<status, path>>
             \/ \E to \in {"generating", "error", "archived"} :
                  /\ status' = [status EXCEPT ![f] = to]
                  /\ path' = [path EXCEPT ![f] = FALSE]
      PROVE  BundlesInv'
  <2>1. making'[f] = place /\ ~path[f] /\ status[f] \notin {"none", "ready"}
    BY <1>2 DEF BundlesInv, RowFits, Step
  <2>2. /\ path' \in [Files -> BOOLEAN] /\ ~path'[f] /\ status'[f] \notin {"none", "ready"}
        /\ DOMAIN status' = Files
        /\ \A g \in Files \ {f} : status'[g] = status[g] /\ path'[g] = path[g]
    BY <1>2, <2>1 DEF BundlesInv
  <2>3. RowFits(f)' /\ ContentFits(f)'
    BY <1>2, <2>1, <2>2 DEF BundlesInv, RowFits, ContentFits, contentVars, sweepVars
  <2> QED
    BY <1>2, <2>2, <2>3, StepKeeps DEF BundlesInv, contentVars, sweepVars
<1>3. ASSUME NEW f \in Files, LoadRow(f) PROVE BundlesInv'
  <2>1. PICK place \in {"outer", "open", "start"} : Step(f, place)
    BY <1>3 DEF LoadRow
  <2> QED
    BY <1>2, <1>3, <2>1 DEF LoadRow, BundlesInv, Unverified
<1>4. ASSUME NEW f \in Reports, StartReport(f) PROVE BundlesInv'
  <2>1. PICK place \in {"list", "inner"} : Step(f, place)
    BY <1>4 DEF StartReport
  <2>2. f \in Files
    BY DEF Files
  <2> QED
    BY <1>2, <1>4, <2>1, <2>2 DEF StartReport, WriteRow, BundlesInv, Unverified
<1>5. ASSUME NEW f \in Files, CatchInside(f) \/ CatchOutside(f) PROVE BundlesInv'
  <2>1. /\ making[f] \in {"inner", "outer"} /\ UNCHANGED <<file, due, contentVars, sweepVars, unmarked>>
        /\ \/ UNCHANGED <<status, path>>
           \/ \E to \in {"generating", "error", "archived"} :
                /\ status' = [status EXCEPT ![f] = to]
                /\ path' = [path EXCEPT ![f] = path[f]]
    BY <1>5 DEF CatchInside, CatchOutside, WriteRow
  <2>2. path[f] = FALSE
    BY <2>1 DEF BundlesInv, RowFits
  <2>3. PICK place \in {"outer", "done"} : Step(f, place)
    BY <1>5 DEF CatchInside, CatchOutside
  <2> QED
    BY <1>2, <2>1, <2>2, <2>3 DEF BundlesInv, Unverified
<1>6. ASSUME NEW f \in Bundles, OpenArchive(f) PROVE BundlesInv'
  <2>1. PICK place \in {"list", "inner"} : Step(f, place)
    BY <1>6 DEF OpenArchive
  <2>2. f \in Files /\ making[f] = "open" /\ making'[f] = place
    BY <1>6, <2>1 DEF Files, OpenArchive, BundlesInv, Step
  <2>3. ~path[f]
    BY <2>2 DEF BundlesInv, RowFits
  <2>4. RowFits(f)' /\ ContentFits(f)'
    BY <1>6, <2>1, <2>2, <2>3 DEF BundlesInv, RowFits, ContentFits, OpenArchive, contentVars, sweepVars,
       Unverified
  <2> QED
    BY <1>6, <2>1, <2>2, <2>4, StepKeeps DEF BundlesInv, OpenArchive, contentVars, sweepVars
<1>7. ASSUME NEW f \in Files, ListLogs(f) PROVE BundlesInv'
  <2>1. PICK place \in {"write", "verify", "inner"} : Step(f, place)
    BY <1>7 DEF ListLogs
  <2>2. making[f] = "list" /\ making'[f] = place /\ covers[f] = {} /\ logs \in Nat
    BY <1>7, <2>1 DEF ListLogs, BundlesInv, Step, ContentFits, Unverified
  <2>3. DOMAIN lists' = Files /\ \A g \in Files \ {f} : lists'[g] = lists[g]
    BY <1>7 DEF ListLogs, SelectLogs, BundlesInv
  <2>4. lists'[f] \in 0..logs
    BY <1>7, <2>2 DEF ListLogs, SelectLogs, BundlesInv, ContentFits
  <2>5. ~path[f]
    BY <2>2 DEF BundlesInv, RowFits
  <2>6. RowFits(f)' /\ ContentFits(f)'
    BY <1>7, <2>1, <2>2, <2>4, <2>5 DEF BundlesInv, RowFits, ContentFits, ListLogs, sweepVars, Unverified
  <2> QED
    BY <1>7, <2>1, <2>2, <2>3, <2>6, StepKeeps DEF BundlesInv, ListLogs, sweepVars
<1>8. ASSUME NEW f \in Bundles, VerifyLogs(f) PROVE BundlesInv'
  <2>1. PICK place \in {"write", "inner"} : Step(f, place)
    BY <1>8 DEF VerifyLogs
  <2>2. f \in Files /\ making[f] = "verify" /\ making'[f] = place /\ logs \in Nat
    BY <1>8, <2>1 DEF Files, VerifyLogs, BundlesInv, Step
  <2>3. /\ DOMAIN covers' = Files /\ \A g \in Files \ {f} : covers'[g] = covers[g]
        /\ covers'[f] = {logs} \/ covers'[f] = {}
    BY <1>8, <2>2 DEF VerifyLogs, BundlesInv, ContentFits, Unverified
  <2>4. ~path[f]
    BY <2>2 DEF BundlesInv, RowFits
  <2>5. RowFits(f)' /\ ContentFits(f)'
    BY <1>8, <2>1, <2>2, <2>3, <2>4 DEF BundlesInv, RowFits, ContentFits, VerifyLogs, sweepVars, Unverified
  <2> QED
    BY <1>8, <2>1, <2>2, <2>3, <2>5, StepKeeps DEF BundlesInv, VerifyLogs, sweepVars
<1>9. ASSUME NEW f \in Files, WriteFile(f) PROVE BundlesInv'
  <2>1. PICK place \in {"store", "inner"} : Step(f, place) /\ (place = "store" => file'[f] = "whole")
    BY <1>9 DEF WriteFile, BundlesInv
  <2>2. making[f] = "write" /\ making'[f] = place
    BY <1>9, <2>1 DEF WriteFile, BundlesInv, Step
  <2>3. ~path[f]
    BY <2>2 DEF BundlesInv, RowFits
  <2>4. RowFits(f)' /\ ContentFits(f)'
    BY <1>9, <2>1, <2>2, <2>3 DEF BundlesInv, RowFits, ContentFits, WriteFile, contentVars, sweepVars,
       Unverified
  <2> QED
    BY <1>9, <2>1, <2>2, <2>4, StepKeeps DEF BundlesInv, WriteFile, contentVars, sweepVars
<1>10. ASSUME NEW f \in Files, StoreReady(f) PROVE BundlesInv'
  <2>1. /\ making[f] = "store" /\ UNCHANGED <<file, due, contentVars, sweepVars, unmarked>>
        /\ unmarked' \in BOOLEAN
    BY <1>10 DEF StoreReady, BundlesInv
  <2>2. ~path[f] /\ status[f] \notin {"none", "ready"} /\ file[f] = "whole"
    BY <2>1 DEF BundlesInv, RowFits
  <2>3. CASE status' = [status EXCEPT ![f] = "ready"] /\ path' = [path EXCEPT ![f] = TRUE]
    <3>1. status'[f] = "ready" /\ path'[f]
      BY <2>3 DEF BundlesInv
    <3>2. Step(f, "done") /\ making'[f] = "done"
      BY <1>10, <3>1 DEF StoreReady, Step, BundlesInv
    <3>3. RowFits(f)' /\ ContentFits(f)'
      BY <2>1, <2>2, <3>1, <3>2 DEF BundlesInv, RowFits, ContentFits, contentVars, sweepVars, Unverified
    <3> QED
      BY <2>1, <2>3, <3>2, <3>3, StepKeeps DEF BundlesInv, contentVars, sweepVars
  <2>4. CASE UNCHANGED <<status, path>>
    <3>1. Step(f, "inner")
      BY <1>10, <2>2, <2>4 DEF StoreReady
    <3> QED
      BY <1>2, <2>1, <2>4, <3>1 DEF Unverified
  <2> QED
    BY <1>10, <2>3, <2>4 DEF StoreReady, WriteRow
<1>11. CASE AppendLog
  <2>1. logs' \in Nat /\ \A n \in 0..logs : n \in 0..logs'
    BY <1>11 DEF AppendLog, BundlesInv
  <2>2. \A f \in Files : RowFits(f)' /\ ContentFits(f)'
    BY <1>11, <2>1 DEF AppendLog, BundlesInv, RowFits, ContentFits, sweepVars
  <2> QED
    BY <1>11, <2>1, <2>2 DEF AppendLog, BundlesInv, sweepVars
<1>12. ASSUME NEW b \in Bundles, Expire(b) PROVE BundlesInv'
  BY <1>12 DEF Expire, BundlesInv, RowFits, ContentFits, contentVars, sweepVars
<1>13. CASE SelectExpired
  <2>1. sweep' \subseteq Bundles \X BOOLEAN /\ \A s \in sweep' : s[2] => making[s[1]] = "done"
    BY <1>13 DEF SelectExpired, BundlesInv, RowFits, Files
  <2> QED
    BY <1>13, <2>1 DEF SelectExpired, BundlesInv, RowFits, ContentFits, contentVars
<1>14. CASE UnlinkBundle
  <2>1. PICK s \in sweep :
          /\ sweep' = sweep \ {s} /\ sweeping' = {s[1]} /\ sweeping = {}
          /\ \/ s[2] /\ file' = [file EXCEPT ![s[1]] = "none"]
             \/ UNCHANGED file
          /\ UNCHANGED <<status, path, due, making, contentVars, unmarked>>
    BY <1>14 DEF UnlinkBundle, BundlesInv
  <2>2. s[1] \in Bundles /\ (s[2] => making[s[1]] = "done")
    BY DEF BundlesInv
  <2>3. DOMAIN file' = Files /\ \A f \in Files :
          \/ file'[f] = file[f]
          \/ f = s[1] /\ making[f] = "done" /\ file'[f] = "none"
    BY <2>1, <2>2 DEF BundlesInv, Files
  <2>4. unmarked' \in BOOLEAN /\ (unmarked => unmarked')
    BY <2>1 DEF BundlesInv
  <2>5. \A f \in Files : RowFits(f)' /\ ContentFits(f)'
    BY <2>1, <2>3, <2>4 DEF BundlesInv, RowFits, ContentFits, contentVars
  <2> QED
    BY <2>1, <2>2, <2>3, <2>4, <2>5 DEF BundlesInv, contentVars
<1>15. CASE MarkExpired
  <2>1. /\ UNCHANGED <<file, due, making, contentVars, sweep>> /\ sweeping' = {}
        /\ unmarked' \in BOOLEAN /\ (unmarked => unmarked')
    <3>1. UNCHANGED <<file, due, making, contentVars, sweep>> /\ sweeping' = {}
      BY <1>15 DEF MarkExpired
    <3>2. unmarked' = unmarked \/ unmarked' = TRUE
      BY <1>15 DEF MarkExpired
    <3> QED
      BY <3>1, <3>2 DEF BundlesInv
  <2>2. CASE /\ status' = [b \in Files |-> IF b \in sweeping THEN "expired" ELSE status[b]]
             /\ path' = [b \in Files |-> path[b] /\ b \notin sweeping]
    <3>1. path' \in [Files -> BOOLEAN] /\ DOMAIN status' = Files
      BY <2>2 DEF BundlesInv
    <3>2. \A f \in Files : /\ f \in sweeping => status'[f] = "expired" /\ ~path'[f]
                           /\ f \notin sweeping => status'[f] = status[f] /\ path'[f] = path[f]
      BY <2>2 DEF BundlesInv
    <3>3. \A f \in Files : RowFits(f)' /\ ContentFits(f)'
      BY <2>1, <3>2 DEF BundlesInv, RowFits, ContentFits, contentVars
    <3> QED
      BY <2>1, <3>1, <3>3 DEF BundlesInv, contentVars
  <2>3. CASE unmarked' = TRUE /\ UNCHANGED <<status, path>>
    BY <2>1, <2>3 DEF BundlesInv, RowFits, ContentFits, contentVars
  <2> QED
    BY <1>15, <2>2, <2>3 DEF MarkExpired
<1>16. CASE UNCHANGED bundleVars
  BY <1>16 DEF bundleVars, BundlesInv, RowFits, ContentFits, contentVars, sweepVars
<1>17. ASSUME NEW b \in Bundles, PostBundle(b) PROVE BundlesInv'
  BY <1>1, <1>17 DEF PostBundle, CreateEvidenceBundle, Files
<1>18. ASSUME NEW r \in Reports, PostReport(r) PROVE BundlesInv'
  BY <1>1, <1>18 DEF PostReport, CreateComplianceReport, Files
<1> QED
  BY <1>3, <1>4, <1>5, <1>6, <1>7, <1>8, <1>9, <1>10, <1>11, <1>12, <1>13, <1>14, <1>15, <1>16, <1>17,
     <1>18 DEF BundlesNext, Generate

(* For any bundles, reports and logs: a row is ready exactly when it names  *)
(* its file, which happens once its generation closed it, so that only the  *)
(* clean-up can come in between.                                            *)
THEOREM ReadyFilesAreWhole == BundlesSpec => []BundleFilesAgree
<1>1. BundlesInv => BundleFilesAgree
  <2> SUFFICES ASSUME BundlesInv PROVE BundleFilesAgree
    OBVIOUS
  <2>1. \A b \in Bundles : b \in Files
    BY DEF Files
  <2>2. \A b \in Bundles : DownloadEvidenceBundle(b) # "part"
    BY <2>1 DEF BundlesInv, RowFits, DownloadEvidenceBundle, GetEvidenceBundle
  <2>3. \A f \in Files : /\ path[f] <=> status[f] = "ready"
                         /\ ~unmarked /\ path[f] => file[f] = "whole" \/ f \in sweeping
    BY DEF BundlesInv, RowFits
  <2>4. \A f \in Files :
          LET entry == IF f \in Bundles THEN GetEvidenceBundle(f) ELSE GetComplianceReport(f)
          IN  entry.status = status[f] /\ entry.path = path[f]
    BY DEF GetEvidenceBundle, GetComplianceReport
  <2>5. \A b \in Bundles : \A n \in covers[b] : lists[b] <= n
    BY <2>1 DEF BundlesInv, ContentFits
  <2> QED
    BY <2>2, <2>3, <2>4, <2>5 DEF BundleFilesAgree
<1> QED
  BY <1>1, InitBundles, NextBundles, PTL DEF BundlesSpec

-----------------------------------------------------------------------------
(* Requests of data subjects.                                              *)

Work ==
  [at : {"idle", "inventory", "search", "delete", "update"}, request : Requests \cup {NoWork.request},
   kind : Types \cup {"none", "inquiry"}, to : RequestStatuses, left : SUBSET Columns,
   seen : SUBSET Columns, gone : SUBSET Columns, sure : SUBSET Columns, aborted : BOOLEAN]

Erases(w) == w.kind = "deletion" /\ w.to = "completed"
Extracts(w) == w.kind \in {"access", "portability"} /\ w.to = "completed"

(* What a call is sure of is still to be searched, or found and, in a      *)
(* deletion, still to be deleted or deleted.                                *)
WorkFits(w) ==
  /\ w.gone # {} => Erases(w)
  /\ w.at \in {"inventory", "search", "delete"} => w.kind = "inquiry" \/ w.to = "completed"
  /\ w.to = "completed" => w.request \in Requests
  /\ w.at \in {"idle", "inventory"} => w.sure = {} /\ w.seen = {}
  /\ w.at = "search" => w.sure \subseteq w.left \cup w.seen
  /\ w.at = "delete" => Erases(w) /\ (~w.aborted => w.sure \subseteq w.seen \cup w.gone)
  /\ w.at = "update" /\ Erases(w) /\ ~w.aborted => w.sure \subseteq w.gone
  /\ w.at = "update" /\ Extracts(w) => w.sure \subseteq w.seen

GdprInv ==
  /\ DOMAIN value = Columns
  /\ listed \subseteq Columns
  /\ request \in [Requests -> [type : Types, status : RequestStatuses \cup {"none"},
                               found : SUBSET Columns]]
  /\ work \in [Officers -> Work]
  /\ \A c \in Officers : WorkFits(work[c]) /\ \A k \in work[c].sure : value[k] = "plain"

LEMMA NothingFits == NoWork \in Work /\ WorkFits(NoWork) /\ NoWork.sure = {}
  BY DEF NoWork, Work, WorkFits, Types, RequestStatuses, Erases, Extracts

(* A nonempty set of numbers has a least one.                               *)
LEMMA WellFoundedHasLeast ==
  ASSUME NEW R, IsWellFoundedOn(R, Nat), \A x \in Nat, y \in Nat : x < y => <<x, y>> \in R,
         NEW S \in SUBSET Nat, S # {}
  PROVE  First(S) \in S
<1>1. \A T : T \subseteq Nat /\ T # {} => \E x \in T : \A y \in T : ~(<<y, x>> \in R)
  BY ONLY IsWellFoundedOn(R, Nat), WFMin
<1>2. PICK x \in S : \A y \in S : ~(<<y, x>> \in R)
  BY <1>1
<1>3. ASSUME NEW y \in S PROVE x <= y
  <2>1. x \in Nat /\ y \in Nat /\ ~(y < x)
    BY <1>2
  <2> QED
    BY <2>1
<1> QED
  BY <1>3 DEF First

LEMMA LeastIsThere == ASSUME NEW S \in SUBSET Columns, S # {} PROVE First(S) \in S
<1> DEFINE R == OpToRel(<, Nat)
<1>1. IsWellFoundedOn(R, Nat)
  BY NatLessThanWellFounded
<1>2. \A x \in Nat, y \in Nat : x < y => <<x, y>> \in R
  BY DEF OpToRel
<1>3. S \in SUBSET Nat
  BY GdprAssumption
<1> HIDE DEF R
<1> QED
  BY <1>1, <1>2, <1>3, WellFoundedHasLeast

LEMMA InitGdpr == GdprInit => GdprInv
<1> SUFFICES ASSUME GdprInit PROVE GdprInv
  OBVIOUS
<1> QED
  BY NothingFits DEF GdprInit, GdprInv, Types

(* A call may be sure of fewer columns, and stays right.                    *)
LEMMA LessSure ==
  ASSUME NEW w \in Work, WorkFits(w), NEW S
  PROVE  /\ [w EXCEPT !.sure = @ \ S] \in Work /\ WorkFits([w EXCEPT !.sure = @ \ S])
         /\ [w EXCEPT !.sure = @ \ S].sure = w.sure \ S
<1>1. w.sure \ S \subseteq w.sure
  OBVIOUS
<1> QED
  BY <1>1 DEF Work, WorkFits, Erases, Extracts

(* One call moves on, and the values stay.                                  *)
LEMMA CallKeeps ==
  ASSUME GdprInv, NEW c \in Officers, NEW w \in Work, WorkFits(w),
         \A k \in w.sure : value[k] = "plain",
         work' = [work EXCEPT ![c] = w], UNCHANGED <<value, listed, request>>
  PROVE  GdprInv'
  BY DEF GdprInv

LEMMA NextGdpr == GdprInv /\ [GdprNext]_gdprVars => GdprInv'
<1> SUFFICES ASSUME GdprInv, [GdprNext]_gdprVars PROVE GdprInv'
  OBVIOUS
<1>1. ASSUME NEW r \in Requests, NEW type \in Types, PostRequest(r, type) PROVE GdprInv'
  BY <1>1 DEF PostRequest, CreateDataSubjectRequest, GdprInv, RequestStatuses
<1>2. ASSUME NEW k \in Columns, ListColumn(k) \/ StoreValue(k) PROVE GdprInv'
  <2>1. UNCHANGED <<request, work>> /\ listed' \subseteq Columns
    BY <1>2 DEF ListColumn, StoreValue, GdprInv
  <2>2. DOMAIN value' = Columns /\ \A j \in Columns : value[j] = "plain" => value'[j] = "plain"
    BY <1>2 DEF ListColumn, StoreValue, GdprInv
  <2>3. \A c \in Officers : work[c].sure \subseteq Columns
    BY DEF GdprInv, Work
  <2> QED
    BY <2>1, <2>2, <2>3 DEF GdprInv
<1>3. ASSUME NEW k \in Columns, Pseudonymize(k) PROVE GdprInv'
  <2>1. work' = [c \in Officers |-> [work[c] EXCEPT !.sure = @ \ {k}]]
    BY <1>3 DEF Pseudonymize, Unsure
  <2>2. \A c \in Officers : /\ work'[c] \in Work /\ WorkFits(work'[c])
                            /\ work'[c].sure = work[c].sure \ {k}
    BY <2>1, LessSure DEF GdprInv
  <2>3. DOMAIN value' = Columns /\ \A j \in Columns \ {k} : value'[j] = value[j]
    BY <1>3 DEF Pseudonymize, GdprInv
  <2>4. \A c \in Officers : work[c].sure \subseteq Columns
    BY DEF GdprInv, Work
  <2>5. work' \in [Officers -> Work] /\ UNCHANGED <<listed, request>>
    BY <1>3, <2>1, <2>2 DEF Pseudonymize
  <2>6. \A c \in Officers : \A j \in work'[c].sure : value'[j] = "plain"
    BY <2>2, <2>3, <2>4 DEF GdprInv
  <2> QED
    BY <2>2, <2>3, <2>5, <2>6 DEF GdprInv
<1>4. ASSUME NEW c \in Officers, NEW r \in Requests, NEW to \in RequestStatuses, PutProcess(c, r, to)
      PROVE  GdprInv'
  <2> DEFINE does == to = "completed" /\ request[r].type # "rectification"
             w == [NoWork EXCEPT !.request = r, !.to = to, !.kind = request[r].type,
                     !.at = IF does THEN "inventory" ELSE "update"]
  <2>1. work' = [work EXCEPT ![c] = w] /\ UNCHANGED <<value, listed, request>>
    BY <1>4 DEF PutProcess, BeginProcess
  <2>2. request[r].type \in Types
    BY DEF GdprInv
  <2>3. /\ w \in Work /\ w.sure = {} /\ w.seen = {} /\ w.gone = {} /\ w.request = r /\ w.to = to
        /\ w.kind = request[r].type /\ w.at = IF does THEN "inventory" ELSE "update"
    BY <2>2 DEF NoWork, Work
  <2> HIDE DEF w
  <2>4. WorkFits(w)
    BY <2>3 DEF WorkFits, Erases, Extracts
  <2> QED
    BY <2>1, <2>3, <2>4, CallKeeps
<1>5. ASSUME NEW c \in Officers, GetPersonalData(c) PROVE GdprInv'
  <2> DEFINE w == [NoWork EXCEPT !.kind = "inquiry", !.at = "inventory"]
  <2>1. work' = [work EXCEPT ![c] = w] /\ UNCHANGED <<value, listed, request>>
    BY <1>5 DEF GetPersonalData
  <2>2. w \in Work /\ WorkFits(w) /\ w.sure = {}
    BY DEF NoWork, Work, WorkFits, Types, RequestStatuses, Erases, Extracts
  <2> HIDE DEF w
  <2> QED
    BY <2>1, <2>2, CallKeeps
<1>6. ASSUME NEW c \in Officers, ReadInventory(c) PROVE GdprInv'
  <2> DEFINE sure == {k \in listed : value[k] = "plain"}
             w == [work[c] EXCEPT !.at = "search", !.left = listed, !.sure = sure]
  <2>1. work' = [work EXCEPT ![c] = w] /\ UNCHANGED <<value, listed, request>>
    BY <1>6 DEF ReadInventory, GetPersonalDataInventory
  <2>2. work[c] \in Work /\ WorkFits(work[c]) /\ work[c].at = "inventory" /\ listed \subseteq Columns
    BY <1>6 DEF ReadInventory, At, GdprInv
  <2>3. /\ w \in Work /\ w.at = "search" /\ w.left = listed /\ w.sure = sure /\ w.gone = work[c].gone
        /\ w.kind = work[c].kind /\ w.to = work[c].to /\ w.request = work[c].request
    BY <2>2 DEF Work
  <2> HIDE DEF w
  <2>4. WorkFits(w)
    BY <2>2, <2>3 DEF WorkFits, Erases
  <2> QED
    BY <2>1, <2>3, <2>4, CallKeeps
<1>7. ASSUME NEW c \in Officers, SearchColumn(c) PROVE GdprInv'
  <2> DEFINE w == work[c]
             k == First(w.left)
             after == IF w.kind = "deletion" THEN "delete" ELSE "update"
             next == [w EXCEPT !.left = @ \ {k}, !.at = IF w.left = {k} THEN after ELSE "search"]
  <2>1. w \in Work /\ WorkFits(w) /\ w.at = "search" /\ \A j \in w.sure : value[j] = "plain"
    BY <1>7 DEF SearchColumn, At, GdprInv
  <2>2. UNCHANGED <<value, listed, request>>
    BY <1>7 DEF SearchColumn
  <2>3. CASE w.left = {} /\ work' = [work EXCEPT ![c].at = after]
    <3> DEFINE x == [w EXCEPT !.at = after]
    <3>1. work' = [work EXCEPT ![c] = x]
      BY <2>3
    <3>2. /\ x \in Work /\ x.at = after /\ x.left = {} /\ x.sure = w.sure /\ x.seen = w.seen
          /\ x.gone = w.gone /\ x.kind = w.kind /\ x.to = w.to /\ x.request = w.request
      BY <2>1, <2>3 DEF Work
    <3> HIDE DEF x
    <3>3. WorkFits(x)
      BY <2>1, <2>3, <3>2 DEF WorkFits, Erases, Extracts
    <3> QED
      BY <2>1, <2>2, <3>1, <3>2, <3>3, CallKeeps
  <2>4. CASE w.left # {} /\ value[k] = "plain" /\ work' = [work EXCEPT ![c] = [next EXCEPT !.seen = @ \cup {k}]]
    <3> DEFINE x == [next EXCEPT !.seen = @ \cup {k}]
    <3>a. k \in w.left
      BY <2>1, <2>4, LeastIsThere DEF Work
    <3>1. /\ x \in Work /\ x.at = (IF w.left = {k} THEN after ELSE "search") /\ x.left = w.left \ {k}
          /\ x.sure = w.sure /\ x.seen = w.seen \cup {k} /\ x.gone = w.gone /\ x.kind = w.kind
          /\ x.to = w.to /\ x.request = w.request
      BY <2>1, <3>a DEF Work
    <3> HIDE DEF x, k
    <3>2. WorkFits(x)
      BY <2>1, <3>1 DEF WorkFits, Erases, Extracts
    <3> QED
      BY <2>1, <2>2, <2>4, <3>1, <3>2, CallKeeps DEF x
  <2>5. CASE w.left # {} /\ work' = [work EXCEPT ![c] = [next EXCEPT !.sure = @ \ {k}]]
    <3> DEFINE x == [next EXCEPT !.sure = @ \ {k}]
    <3>1. /\ x \in Work /\ x.at = (IF w.left = {k} THEN after ELSE "search") /\ x.left = w.left \ {k}
          /\ x.sure = w.sure \ {k} /\ x.seen = w.seen /\ x.gone = w.gone /\ x.kind = w.kind
          /\ x.to = w.to /\ x.request = w.request
      BY <2>1 DEF Work
    <3> HIDE DEF x, k
    <3>2. WorkFits(x)
      BY <2>1, <3>1 DEF WorkFits, Erases, Extracts
    <3> QED
      BY <2>1, <2>2, <2>5, <3>1, <3>2, CallKeeps DEF x
  <2> QED
    BY <1>7, <2>3, <2>4, <2>5 DEF SearchColumn
<1>8. ASSUME NEW c \in Officers, DeleteColumn(c) PROVE GdprInv'
  <2> DEFINE w == work[c]
             k == First(w.seen)
  <2>1. w \in Work /\ WorkFits(w) /\ w.at = "delete" /\ \A j \in w.sure : value[j] = "plain"
    BY <1>8 DEF DeleteColumn, At, GdprInv
  <2>2. UNCHANGED <<value, listed, request>>
    BY <1>8 DEF DeleteColumn
  <2>3. CASE w.seen = {} /\ work' = [work EXCEPT ![c].at = "update"]
    <3> DEFINE x == [w EXCEPT !.at = "update"]
    <3>1. work' = [work EXCEPT ![c] = x]
      BY <2>3
    <3>2. /\ x \in Work /\ x.at = "update" /\ x.sure = w.sure /\ x.seen = w.seen /\ x.gone = w.gone
          /\ x.kind = w.kind /\ x.to = w.to /\ x.request = w.request /\ x.aborted = w.aborted
      BY <2>1 DEF Work
    <3> HIDE DEF x
    <3>3. WorkFits(x)
      BY <2>1, <2>3, <3>2 DEF WorkFits, Erases, Extracts
    <3> QED
      BY <2>1, <2>2, <3>1, <3>2, <3>3, CallKeeps
  <2>4. CASE /\ w.seen # {} /\ ~w.aborted
             /\ work' = [work EXCEPT ![c].seen = @ \ {k},
                          ![c].gone = IF value[k] = "plain" THEN @ \cup {k} ELSE @]
    <3> DEFINE gone == IF value[k] = "plain" THEN w.gone \cup {k} ELSE w.gone
               x == [w EXCEPT !.seen = @ \ {k}, !.gone = gone]
    <3>1. work' = [work EXCEPT ![c] = x]
      BY <2>4 DEF GdprInv
    <3>2. k \in w.seen
      BY <2>1, <2>4, LeastIsThere DEF Work
    <3>3. gone \subseteq Columns /\ (value[k] = "plain" => gone = w.gone \cup {k}) /\ w.gone \subseteq gone
      BY <2>1, <3>2 DEF Work
    <3> HIDE DEF gone, k
    <3>4. /\ x \in Work /\ x.at = "delete" /\ x.sure = w.sure /\ x.seen = w.seen \ {k} /\ x.gone = gone
          /\ x.kind = w.kind /\ x.to = w.to /\ x.request = w.request /\ x.aborted = w.aborted
      BY <2>1, <3>3 DEF Work
    <3> HIDE DEF x
    <3>5. WorkFits(x)
      BY <2>1, <2>4, <3>3, <3>4 DEF WorkFits, Erases
    <3> QED
      BY <2>1, <2>2, <3>1, <3>4, <3>5, CallKeeps
  <2>5. CASE \/ work' = [work EXCEPT ![c].seen = @ \ {k}, ![c].aborted = TRUE]
             \/ w.aborted /\ work' = [work EXCEPT ![c].seen = @ \ {k}]
    <3> HIDE DEF k
    <3>a. PICK x : /\ work' = [work EXCEPT ![c] = x]
                   /\ \/ x = [w EXCEPT !.seen = @ \ {k}, !.aborted = TRUE]
                      \/ w.aborted /\ x = [w EXCEPT !.seen = @ \ {k}]
      <4>1. CASE work' = [work EXCEPT ![c].seen = @ \ {k}, ![c].aborted = TRUE]
        BY <4>1 DEF GdprInv
      <4>2. CASE w.aborted /\ work' = [work EXCEPT ![c].seen = @ \ {k}]
        BY <4>2
      <4> QED
        BY <2>5, <4>1, <4>2
    <3>1. /\ x \in Work /\ x.aborted /\ x.at = "delete" /\ x.sure = w.sure /\ x.gone = w.gone
          /\ x.kind = w.kind /\ x.to = w.to /\ x.request = w.request
      <4>a. w.seen \ {k} \in SUBSET Columns
        BY <2>1 DEF Work
      <4>1. CASE x = [w EXCEPT !.seen = @ \ {k}, !.aborted = TRUE]
        BY <2>1, <4>a, <4>1 DEF Work
      <4>2. CASE w.aborted /\ x = [w EXCEPT !.seen = @ \ {k}]
        <5>1. x.aborted = w.aborted
          BY <2>1, <4>2 DEF Work
        <5> QED
          BY <2>1, <4>a, <4>2, <5>1 DEF Work
      <4> QED
        BY <3>a, <4>1, <4>2
    <3>2. WorkFits(x)
      BY <2>1, <3>1 DEF WorkFits, Erases
    <3> QED
      BY <2>1, <2>2, <3>a, <3>1, <3>2, CallKeeps
  <2> QED
    BY <1>8, <2>3, <2>4, <2>5 DEF DeleteColumn
<1>9. ASSUME NEW c \in Officers, FinishProcess(c) PROVE GdprInv'
  <2> DEFINE gone == work[c].gone
  <2>1. /\ work' = [Unsure(gone) EXCEPT ![c] = NoWork] /\ UNCHANGED listed
        /\ value' = [k \in Columns |-> IF k \in gone THEN "none" ELSE value[k]]
    BY <1>9 DEF FinishProcess
  <2>2. DOMAIN Unsure(gone) = Officers /\ \A d \in Officers : Unsure(gone)[d] = [work[d] EXCEPT !.sure = @ \ gone]
    BY DEF Unsure
  <2>3. \A d \in Officers : /\ work'[d] \in Work /\ WorkFits(work'[d])
                            /\ work'[d].sure \subseteq work[d].sure \ gone
    <3> SUFFICES ASSUME NEW d \in Officers
                 PROVE  /\ work'[d] \in Work /\ WorkFits(work'[d])
                        /\ work'[d].sure \subseteq work[d].sure \ gone
      OBVIOUS
    <3>1. work[d] \in Work /\ WorkFits(work[d])
      BY DEF GdprInv
    <3>2. CASE d = c
      <4>1. work'[d] = NoWork
        BY <2>1, <2>2, <3>2
      <4> QED
        BY <4>1, NothingFits
    <3>3. CASE d # c
      <4>1. work'[d] = [work[d] EXCEPT !.sure = @ \ gone]
        BY <2>1, <2>2, <3>3
      <4> QED
        BY <3>1, <4>1, LessSure
    <3> QED
      BY <3>2, <3>3
  <2>4. work' \in [Officers -> Work]
    BY <2>1, <2>2, <2>3
  <2>5. \A d \in Officers : \A k \in work'[d].sure : value'[k] = "plain"
    BY <2>1, <2>3 DEF GdprInv, Work
  <2>6. request' \in [Requests -> [type : Types, status : RequestStatuses \cup {"none"},
                                   found : SUBSET Columns]]
    <3>1. Reported(work[c]) \subseteq Columns /\ work[c].to \in RequestStatuses
      BY DEF GdprInv, Work, Reported, ProcessAccessRequest, ProcessPortabilityRequest,
         ProcessRectificationRequest
    <3> DEFINE r == work[c].request
               entry == [request[r] EXCEPT !.status = work[c].to, !.found = Reported(work[c])]
    <3>2. request' = [request EXCEPT ![r] = entry]
      BY <1>9 DEF FinishProcess, GdprInv
    <3>3. r \in Requests => entry \in [type : Types, status : RequestStatuses \cup {"none"},
                                    found : SUBSET Columns]
      BY <3>1 DEF GdprInv
    <3> HIDE DEF entry, r
    <3> QED
      BY <3>2, <3>3 DEF GdprInv
  <2> QED
    BY <2>1, <2>3, <2>4, <2>5, <2>6 DEF GdprInv
<1>10. ASSUME NEW c \in Officers, RollbackProcess(c) PROVE GdprInv'
  BY <1>10, NothingFits, CallKeeps DEF RollbackProcess
<1>11. CASE UNCHANGED gdprVars
  BY <1>11 DEF gdprVars, GdprInv
<1> QED
  BY <1>1, <1>2, <1>3, <1>4, <1>5, <1>6, <1>7, <1>8, <1>9, <1>10, <1>11 DEF GdprNext

-----------------------------------------------------------------------------
LEMMA OnlyFinishErases ==
  ASSUME GdprInv, [GdprNext]_gdprVars, NEW k \in Columns, value[k] = "plain", value'[k] = "none"
  PROVE  \E c \in Officers : FinishProcess(c) /\ k \in work[c].gone
<1>1. CASE \E c \in Officers : FinishProcess(c)
  BY <1>1 DEF FinishProcess
<1>2. CASE ~\E c \in Officers : FinishProcess(c)
  <2>1. \/ UNCHANGED value
        \/ \E j \in Columns : value' = [value EXCEPT ![j] = "plain"] \/ value' = [value EXCEPT ![j] = "masked"]
    BY <1>2 DEF GdprNext, gdprVars, PostRequest, CreateDataSubjectRequest, ListColumn, StoreValue,
       Pseudonymize, PutProcess, GetPersonalData, ReadInventory, SearchColumn, DeleteColumn,
       RollbackProcess
  <2> QED
    BY <2>1 DEF GdprInv
<1> QED
  BY <1>1, <1>2

(* For any columns, requests and overlapping calls: data leave only with    *)
(* the commit of a completed deletion, which takes every column the call is *)
(* sure of, and a completed report names every such column.                 *)
THEOREM RequestsStayWhole == GdprSpec => RequestsAreWhole
<1> DEFINE Completes(c, kinds) ==
             FinishProcess(c) /\ work[c].to = "completed" /\ work[c].kind \in kinds
           Whole ==
             /\ \A k \in Columns :
                  value[k] = "plain" /\ value'[k] = "none" =>
                    \E c \in Officers : Completes(c, {"deletion"})
             /\ \A c \in Officers :
                  /\ Completes(c, {"deletion"}) => \A k \in work[c].sure : value'[k] = "none"
                  /\ Completes(c, {"access", "portability"}) =>
                       work[c].sure \subseteq request'[work[c].request].found
<1>1. GdprInv /\ [GdprNext]_gdprVars => Whole
  <2> SUFFICES ASSUME GdprInv, [GdprNext]_gdprVars PROVE Whole
    OBVIOUS
  <2>1. ASSUME NEW k \in Columns, value[k] = "plain", value'[k] = "none"
        PROVE  \E c \in Officers : Completes(c, {"deletion"})
    <3>1. PICK c \in Officers : FinishProcess(c) /\ k \in work[c].gone
      BY <2>1, OnlyFinishErases
    <3>2. WorkFits(work[c])
      BY DEF GdprInv
    <3>3. work[c].kind = "deletion" /\ work[c].to = "completed"
      BY <3>1, <3>2 DEF WorkFits, Erases
    <3> QED
      BY <3>1, <3>3
  <2>2. ASSUME NEW c \in Officers, Completes(c, {"deletion"}), NEW k \in work[c].sure
        PROVE  value'[k] = "none"
    <3>1. k \in work[c].gone /\ k \in Columns
      BY <2>2 DEF FinishProcess, At, GdprInv, Work, WorkFits, Erases
    <3> QED
      BY <2>2, <3>1 DEF FinishProcess
  <2>3. ASSUME NEW c \in Officers, Completes(c, {"access", "portability"})
        PROVE  work[c].sure \subseteq request'[work[c].request].found
    <3>1. WorkFits(work[c]) /\ work[c].at = "update"
      BY <2>3 DEF FinishProcess, At, GdprInv
    <3>2. work[c].sure \subseteq work[c].seen /\ work[c].request \in Requests
      BY <2>3, <3>1 DEF WorkFits, Extracts
    <3>3. Reported(work[c]) = work[c].seen
      BY <2>3 DEF Reported, ProcessAccessRequest, ProcessPortabilityRequest
    <3>4. request'[work[c].request].found = Reported(work[c])
      BY <2>3, <3>2 DEF FinishProcess, GdprInv
    <3> QED
      BY <3>2, <3>3, <3>4
  <2> QED
    BY <2>1, <2>2, <2>3
<1> QED
  BY <1>1, InitGdpr, NextGdpr, PTL DEF GdprSpec, RequestsAreWhole

-----------------------------------------------------------------------------
(* Migrations.  A copy's list of what is left to apply begins with the     *)
(* first of its files that has no row, and holds every file of the copy    *)
(* without a row: what came before has taken effect.  A copy whose row is  *)
(* inserted stands at a migration without a committed one, and the primary *)
(* key lets one copy at most stand there.                                  *)

Places == {"idle", "initialize", "verify", "list", "connect", "sql", "record", "commit",
           "rollback", "done", "failed"}
Applying == {"connect", "sql", "record", "commit", "rollback"}
Effect == [migration : Nat, edition : Editions, by : Tools]
ToolRecord == [at : Places, pending : SUBSET Nat, ending : BOOLEAN]

MigratorTypeOK ==
  /\ recorded \in [Migrations -> Editions \cup {Unapplied}]
  /\ effects \in Seq(Effect)
  /\ tool \in [Tools -> ToolRecord]

(* the rows are those of what took effect *)
EffectsAreRows ==
  \A i \in 1..Len(effects) :
    /\ effects[i].migration \in Migrations
    /\ recorded[effects[i].migration] = effects[i].edition
RowsAreEffects ==
  \A m \in Migrations : recorded[m] # Unapplied =>
    \E i \in 1..Len(effects) : effects[i].migration = m

EffectsAreOnce ==
  \A i, j \in 1..Len(effects) : effects[i].migration = effects[j].migration => i = j

EffectsInOrder ==
  \A i \in 1..Len(effects) : \A m \in MigrationFiles(effects[i].by) :
    m < effects[i].migration => \E j \in 1..(i - 1) : effects[j].migration = m

(* the list of a copy holds what it has to apply; t is the copy's record *)
HoldsTheRest(p, t) ==
  /\ t.pending # {} /\ t.pending \subseteq MigrationFiles(p)
  /\ \A m \in MigrationFiles(p) : recorded[m] = Unapplied => m \in t.pending
PendingIsRest == \A p \in Tools : tool[p].at \in Applying => HoldsTheRest(p, tool[p])

CommitIsFree == \A p \in Tools : tool[p].at = "commit" => recorded[NextPending(p)] = Unapplied

OneCommits ==
  \A p, q \in Tools :
    /\ tool[p].at = "commit" /\ tool[q].at = "commit"
    /\ NextPending(p) = NextPending(q)
    => p = q

DoneIsComplete ==
  \A p \in Tools : tool[p].at = "done" =>
    \A m \in MigrationFiles(p) : recorded[m] # Unapplied

MigratorInv ==
  /\ MigratorTypeOK /\ EffectsAreRows /\ RowsAreEffects /\ EffectsAreOnce /\ EffectsInOrder
  /\ PendingIsRest /\ CommitIsFree /\ OneCommits /\ DoneIsComplete

-----------------------------------------------------------------------------
(* The files of a copy are numbers and have editions.                      *)
LEMMA FilesOf ==
  ASSUME NEW p \in Tools
  PROVE  /\ MigrationFiles(p) \subseteq Nat
         /\ MigrationFiles(p) \subseteq Migrations
         /\ \A m \in MigrationFiles(p) : Release[p][m] \in Editions
BY MigratorAssumption DEF MigrationFiles, Migrations

(* The next migration of a list is its first.                              *)
LEMMA NextIsFirst ==
  ASSUME NEW p \in Tools, HoldsTheRest(p, tool[p])
  PROVE  /\ NextPending(p) \in tool[p].pending
         /\ \A n \in tool[p].pending : NextPending(p) <= n
         /\ NextPending(p) \in MigrationFiles(p) /\ NextPending(p) \in Nat
<1>1. PICK S : S = tool[p].pending
  OBVIOUS
<1>2. S \in SUBSET Nat /\ S # {} /\ S \subseteq MigrationFiles(p)
  BY <1>1, FilesOf DEF HoldsTheRest
<1>3. \E m \in S : \A n \in S : m <= n
  BY <1>2, SetHasLeast
<1>4. NextPending(p) \in S /\ \A n \in S : NextPending(p) <= n
  BY <1>1, <1>3 DEF NextPending
<1> QED BY <1>1, <1>2, <1>4

(* What a copy whose row is inserted stands at is one of its files; it has *)
(* no committed row, and every earlier file of the copy has one.           *)
LEMMA CommitIsNext ==
  ASSUME MigratorInv, NEW p \in Tools, tool[p].at = "commit"
  PROVE  /\ HoldsTheRest(p, tool[p])
         /\ NextPending(p) \in MigrationFiles(p)
         /\ NextPending(p) \in Migrations /\ NextPending(p) \in Nat
         /\ recorded[NextPending(p)] = Unapplied
         /\ \A m \in MigrationFiles(p) : m < NextPending(p) => recorded[m] # Unapplied
<1>1. HoldsTheRest(p, tool[p])
  BY DEF MigratorInv, PendingIsRest, Applying
<1>2. /\ NextPending(p) \in tool[p].pending
      /\ \A n \in tool[p].pending : NextPending(p) <= n
      /\ NextPending(p) \in MigrationFiles(p) /\ NextPending(p) \in Nat
  BY <1>1, NextIsFirst
<1>3. recorded[NextPending(p)] = Unapplied
  BY DEF MigratorInv, CommitIsFree
<1>4. ASSUME NEW m \in MigrationFiles(p), m < NextPending(p)
      PROVE  recorded[m] # Unapplied
  <2>1. m \in Nat
    BY FilesOf
  <2>2. ~(NextPending(p) <= m)
    BY <1>2, <1>4, <2>1
  <2> QED BY <1>1, <1>2, <2>2 DEF HoldsTheRest
<1> QED BY <1>1, <1>2, <1>3, <1>4, FilesOf

-----------------------------------------------------------------------------
(* The invariant holds at first.                                           *)
LEMMA MigratorInitInv == MigratorInit => MigratorInv
<1>1. SUFFICES ASSUME MigratorInit PROVE MigratorInv
  OBVIOUS
<1>2. effects = <<>> /\ 1..Len(effects) = {}
  BY <1>1 DEF MigratorInit
<1>3. \A p \in Tools : tool[p].at = "idle"
  BY <1>1 DEF MigratorInit, NotStarted
<1>4. MigratorTypeOK
  BY <1>1 DEF MigratorInit, MigratorTypeOK, ToolRecord, NotStarted, Places
<1>5. EffectsAreRows /\ EffectsAreOnce /\ EffectsInOrder
  BY <1>2 DEF EffectsAreRows, EffectsAreOnce, EffectsInOrder
<1>6. RowsAreEffects
  BY <1>1 DEF MigratorInit, RowsAreEffects
<1> QED BY <1>3, <1>4, <1>5, <1>6 DEF MigratorInv, PendingIsRest, CommitIsFree, OneCommits,
                                      DoneIsComplete, Applying

(* A step that records nothing and takes one copy to a place before the    *)
(* insert of its row, where what is claimed of it still holds.             *)
LEMMA MigratorQuietStep ==
  ASSUME MigratorInv, NEW p \in Tools, NEW t \in ToolRecord,
         tool' = [tool EXCEPT ![p] = t], UNCHANGED <<recorded, effects>>,
         t.at # "commit",
         t.at \in Applying => HoldsTheRest(p, t),
         t.at = "done" => \A m \in MigrationFiles(p) : recorded[m] # Unapplied
  PROVE  MigratorInv'
<1>1. \A q \in Tools : tool'[q] = IF q = p THEN t ELSE tool[q]
  BY DEF MigratorInv, MigratorTypeOK
<1>2. MigratorTypeOK'
  BY DEF MigratorInv, MigratorTypeOK, Migrations, MigrationFiles
<1>3. EffectsAreRows' /\ RowsAreEffects' /\ EffectsAreOnce' /\ EffectsInOrder'
  BY DEF MigratorInv, EffectsAreRows, RowsAreEffects, EffectsAreOnce, EffectsInOrder,
         Migrations, MigrationFiles
<1>4. PendingIsRest'
  BY <1>1 DEF MigratorInv, PendingIsRest, HoldsTheRest, MigrationFiles
<1>5. CommitIsFree' /\ OneCommits'
  <2>1. ASSUME NEW q \in Tools, tool'[q].at = "commit"
        PROVE  tool[q].at = "commit" /\ NextPending(q)' = NextPending(q)
    BY <1>1, <2>1 DEF NextPending
  <2> QED BY <2>1 DEF MigratorInv, CommitIsFree, OneCommits
<1>6. DoneIsComplete'
  BY <1>1 DEF MigratorInv, DoneIsComplete, MigrationFiles
<1> QED BY <1>2, <1>3, <1>4, <1>5, <1>6 DEF MigratorInv

(* The step that inserts the row: the migration has no committed one, and  *)
(* no other copy stands at it.                                             *)
LEMMA InsertStep ==
  ASSUME MigratorInv, NEW p \in Tools, RecordMigration(p), ToolGo(p, "commit"),
         recorded[NextPending(p)] = Unapplied
  PROVE  MigratorInv'
<1> DEFINE t == [tool[p] EXCEPT !.at = "commit"]
<1>0. tool[p] \in ToolRecord /\ tool[p].at = "record" /\ UNCHANGED <<recorded, effects>>
  BY DEF MigratorInv, MigratorTypeOK, RecordMigration, ToolAt
<1>1. t \in ToolRecord /\ t.at = "commit" /\ t.pending = tool[p].pending
  BY <1>0 DEF ToolRecord, Places
<1>2. \A q \in Tools : tool'[q] = IF q = p THEN t ELSE tool[q]
  BY DEF ToolGo, MigratorInv, MigratorTypeOK
<1> HIDE DEF t
<1>3. MigratorTypeOK'
  BY <1>0, <1>1 DEF ToolGo, t, MigratorInv, MigratorTypeOK, Migrations, MigrationFiles
<1>4. EffectsAreRows' /\ RowsAreEffects' /\ EffectsAreOnce' /\ EffectsInOrder'
  BY <1>0 DEF MigratorInv, EffectsAreRows, RowsAreEffects, EffectsAreOnce, EffectsInOrder,
              Migrations, MigrationFiles
<1>5. HoldsTheRest(p, tool[p])
  BY <1>0 DEF MigratorInv, PendingIsRest, Applying
<1>6. PendingIsRest'
  BY <1>0, <1>1, <1>2, <1>5 DEF MigratorInv, PendingIsRest, HoldsTheRest, MigrationFiles
<1>7. \A q \in Tools : NextPending(q)' = NextPending(q)
  BY <1>1, <1>2 DEF NextPending
<1>8. CommitIsFree'
  BY <1>0, <1>2, <1>7 DEF MigratorInv, CommitIsFree
<1>9. \A q \in Tools : ~(tool[q].at = "commit" /\ NextPending(q) = NextPending(p))
  BY DEF RecordMigration, InsertPending, ToolAt
<1>10. OneCommits'
  BY <1>2, <1>7, <1>9 DEF MigratorInv, OneCommits
<1>11. DoneIsComplete'
  BY <1>0, <1>1, <1>2 DEF MigratorInv, DoneIsComplete, MigrationFiles
<1> QED BY <1>3, <1>4, <1>6, <1>8, <1>10, <1>11 DEF MigratorInv

(* The one step that records: the migration becomes the last effect, and   *)
(* no other copy stands at it.                                             *)
LEMMA CommitStep ==
  ASSUME MigratorInv, NEW p \in Tools, Commit(p)
  PROVE  MigratorInv'
<1> DEFINE n == Len(effects)
           m == NextPending(p)
<1>1. /\ tool[p].at = "commit"
      /\ n \in Nat /\ effects \in Seq(Effect)
      /\ tool[p] \in ToolRecord
      /\ recorded \in [Migrations -> Editions \cup {Unapplied}]
  BY DEF Commit, ToolAt, MigratorInv, MigratorTypeOK
<1>2. /\ HoldsTheRest(p, tool[p])
      /\ m \in MigrationFiles(p) /\ m \in Migrations /\ m \in Nat
      /\ recorded[m] = Unapplied
      /\ \A f \in MigrationFiles(p) : f < m => recorded[f] # Unapplied
  BY <1>1, CommitIsNext
<1>3. CASE ToolGo(p, "rollback") /\ UNCHANGED <<recorded, effects>>
  <2> DEFINE t == [tool[p] EXCEPT !.at = "rollback"]
  <2>1. /\ t \in ToolRecord
        /\ t.at = "rollback" /\ t.pending = tool[p].pending
        /\ tool' = [tool EXCEPT ![p] = t]
    BY <1>1, <1>3 DEF ToolGo, Places, ToolRecord
  <2>2. HoldsTheRest(p, t)
    BY <1>2, <2>1 DEF HoldsTheRest
  <2> HIDE DEF t
  <2> QED BY <1>3, <2>1, <2>2, MigratorQuietStep
<1>4. CASE /\ Lasting(p)
           /\ Onward(p) \/ ToolGo(p, "rollback")
  <2>1. PICK e : e = [migration |-> m, edition |-> Release[p][m], by |-> p]
    OBVIOUS
  <2>2. /\ recorded' = [recorded EXCEPT ![m] = Release[p][m]]
        /\ effects' = Append(effects, e)
    BY <1>4, <2>1 DEF Lasting, CalculateChecksum
  <2>3. Release[p][m] \in Editions /\ Release[p][m] # Unapplied
    BY <1>2, FilesOf, MigratorAssumption
  <2>4. e \in Effect /\ e.migration = m /\ e.edition = Release[p][m] /\ e.by = p
    BY <1>2, <2>1, <2>3 DEF Effect
  <2>5. /\ effects' \in Seq(Effect)
        /\ Len(effects') = n + 1
        /\ effects'[n + 1] = e
        /\ \A i \in 1..n : effects'[i] = effects[i]
        /\ \A i \in 1..(n + 1) : i \in 1..n \/ i = n + 1
    BY <1>1, <2>2, <2>4
  <2>6. /\ recorded'[m] = Release[p][m]
        /\ \A f \in Migrations \ {m} : recorded'[f] = recorded[f]
        /\ \A f \in Migrations : recorded[f] # Unapplied => recorded'[f] # Unapplied
    BY <1>1, <1>2, <2>2, <2>3
  (* what took effect before was not this migration *)
  <2>7. \A i \in 1..n : effects[i] \in Effect /\ effects[i].migration # m
    <3>1. ASSUME NEW i \in 1..n PROVE effects[i] \in Effect /\ effects[i].migration # m
      <4>1. effects[i] \in Effect
        BY <1>1
      <4>2. recorded[effects[i].migration] = effects[i].edition
        BY DEF MigratorInv, EffectsAreRows
      <4>3. effects[i].edition \in Editions
        BY <4>1 DEF Effect
      <4> QED BY <1>2, <4>1, <4>2, <4>3, MigratorAssumption
    <3> QED BY <3>1
  <2>8. EffectsAreRows'
    <3>1. ASSUME NEW i \in 1..(n + 1)
          PROVE  /\ effects'[i].migration \in Migrations
                 /\ recorded'[effects'[i].migration] = effects'[i].edition
      <4>1. CASE i = n + 1
        BY <1>2, <2>4, <2>5, <2>6, <4>1
      <4>2. CASE i \in 1..n
        <5>1. effects[i].migration \in Migrations /\ recorded[effects[i].migration] = effects[i].edition
          BY <4>2 DEF MigratorInv, EffectsAreRows
        <5> QED BY <2>5, <2>6, <2>7, <4>2, <5>1
      <4> QED BY <2>5, <4>1, <4>2
    <3> QED BY <2>5, <3>1 DEF EffectsAreRows, Migrations, MigrationFiles
  <2>9. RowsAreEffects'
    <3>1. ASSUME NEW f \in Migrations, recorded'[f] # Unapplied
          PROVE  \E i \in 1..(n + 1) : effects'[i].migration = f
      <4>1. CASE f = m
        BY <1>1, <2>4, <2>5, <4>1
      <4>2. CASE f # m
        <5>1. PICK i \in 1..n : effects[i].migration = f
          BY <2>6, <3>1, <4>2 DEF MigratorInv, RowsAreEffects
        <5>2. i \in 1..(n + 1)
          BY <1>1
        <5> QED BY <2>5, <5>1, <5>2
      <4> QED BY <4>1, <4>2
    <3> QED BY <2>5, <3>1 DEF RowsAreEffects, Migrations, MigrationFiles
  <2>10. EffectsAreOnce'
    <3>1. ASSUME NEW i \in 1..(n + 1), NEW j \in 1..(n + 1),
                 effects'[i].migration = effects'[j].migration
          PROVE  i = j
      <4>1. CASE i \in 1..n /\ j \in 1..n
        BY <2>5, <3>1, <4>1 DEF MigratorInv, EffectsAreOnce
      <4>2. CASE i = n + 1 /\ j \in 1..n
        BY <2>4, <2>5, <2>7, <3>1, <4>2
      <4>3. CASE i \in 1..n /\ j = n + 1
        BY <2>4, <2>5, <2>7, <3>1, <4>3
      <4> QED BY <2>5, <4>1, <4>2, <4>3
    <3> QED BY <2>5, <3>1 DEF EffectsAreOnce
  <2>11. EffectsInOrder'
    <3>1. ASSUME NEW i \in 1..(n + 1), NEW f \in MigrationFiles(effects'[i].by),
                 f < effects'[i].migration
          PROVE  \E j \in 1..(i - 1) : effects'[j].migration = f
      <4>1. CASE i \in 1..n
        <5>1. PICK j \in 1..(i - 1) : effects[j].migration = f
          BY <2>5, <3>1, <4>1 DEF MigratorInv, EffectsInOrder
        <5>2. j \in 1..n
          BY <1>1, <4>1
        <5> QED BY <2>5, <5>1, <5>2
      <4>2. CASE i = n + 1
        <5>1. f \in MigrationFiles(p) /\ f < m
          BY <2>4, <2>5, <3>1, <4>2
        <5>2. f \in Migrations /\ recorded[f] # Unapplied
          BY <1>2, <5>1, FilesOf
        <5>3. PICK j \in 1..n : effects[j].migration = f
          BY <5>2 DEF MigratorInv, RowsAreEffects
        <5>4. j \in 1..(i - 1)
          BY <1>1, <4>2
        <5> QED BY <2>5, <5>3, <5>4
      <4> QED BY <2>5, <4>1, <4>2
    <3> QED BY <2>5, <3>1 DEF EffectsInOrder, MigrationFiles
  <2>12. PICK t : /\ tool' = [tool EXCEPT ![p] = t]
                  /\ t \in ToolRecord
                  /\ \/ t.at = "rollback" /\ t.pending = tool[p].pending
                     \/ t.at = "connect" /\ t.pending = tool[p].pending \ {m} /\ t.pending # {}
                     \/ t.at = "done" /\ tool[p].pending \ {m} = {}
    <3>1. CASE ToolGo(p, "rollback")
      <4> DEFINE u == [tool[p] EXCEPT !.at = "rollback"]
      <4>1. tool' = [tool EXCEPT ![p] = u]
        BY <3>1 DEF ToolGo
      <4>2. u \in ToolRecord /\ u.at = "rollback" /\ u.pending = tool[p].pending
        BY <1>1 DEF Places, ToolRecord
      <4> QED BY <4>1, <4>2
    <3>2. CASE Onward(p)
      <4> DEFINE rest == tool[p].pending \ {m}
                 u == [tool[p] EXCEPT !.at = IF rest = {} THEN "done" ELSE "connect",
                                      !.pending = rest]
      <4>1. tool' = [tool EXCEPT ![p] = u]
        BY <3>2 DEF Onward
      <4>2. rest \in SUBSET Nat
        BY <1>1 DEF ToolRecord
      <4>3. u \in ToolRecord
        BY <1>1, <4>2 DEF Places, ToolRecord
      <4>4. u.at = (IF rest = {} THEN "done" ELSE "connect") /\ u.pending = rest
        BY <1>1 DEF ToolRecord
      <4> QED BY <4>1, <4>3, <4>4
    <3> QED BY <1>4, <3>1, <3>2
  <2>13. \A q \in Tools : tool'[q] = IF q = p THEN t ELSE tool[q]
    BY <2>12 DEF MigratorInv, MigratorTypeOK
  <2>14. MigratorTypeOK'
    <3>1. recorded' \in [Migrations -> Editions \cup {Unapplied}]
      BY <1>1, <2>2, <2>3
    <3>2. tool' \in [Tools -> ToolRecord]
      BY <2>12 DEF MigratorInv, MigratorTypeOK
    <3> QED BY <2>5, <3>1, <3>2 DEF MigratorTypeOK, Migrations, MigrationFiles
  <2>15. ASSUME NEW q \in Tools, tool'[q].at \in Applying
         PROVE  HoldsTheRest(q, tool[q])'
    <3>1. CASE q = p
      <4>1. tool'[p] = t /\ t.at \in Applying
        BY <2>13, <2>15, <3>1
      <4>2. t.pending # {} /\ t.pending \subseteq MigrationFiles(p)
        BY <1>2, <2>12, <4>1 DEF HoldsTheRest, Applying
      <4>3. \A f \in MigrationFiles(p) : recorded'[f] = Unapplied => f \in t.pending
        BY <1>2, <2>3, <2>6, <2>12, <4>1, FilesOf DEF HoldsTheRest, Applying
      <4> QED BY <3>1, <4>1, <4>2, <4>3 DEF HoldsTheRest, MigrationFiles
    <3>2. CASE q # p
      <4>1. tool'[q] = tool[q] /\ HoldsTheRest(q, tool[q])
        BY <2>13, <2>15, <3>2 DEF MigratorInv, PendingIsRest
      <4>2. \A f \in MigrationFiles(q) : recorded'[f] = Unapplied => recorded[f] = Unapplied
        BY <2>6, FilesOf
      <4> QED BY <4>1, <4>2 DEF HoldsTheRest, MigrationFiles
    <3> QED BY <3>1, <3>2
  <2>16. PendingIsRest'
    BY <2>15 DEF PendingIsRest
  <2>17. ASSUME NEW q \in Tools, tool'[q].at = "commit"
         PROVE  q # p /\ tool[q].at = "commit" /\ NextPending(q)' = NextPending(q)
    <3>1. t.at # "commit"
      BY <2>12
    <3> QED BY <2>13, <2>17, <3>1 DEF NextPending
  <2>18. CommitIsFree'
    <3>1. ASSUME NEW q \in Tools, tool'[q].at = "commit"
          PROVE  recorded'[NextPending(q)'] = Unapplied
      <4>1. q # p /\ tool[q].at = "commit" /\ NextPending(q)' = NextPending(q)
        BY <2>17, <3>1
      <4>2. NextPending(q) # m
        BY <1>1, <4>1 DEF MigratorInv, OneCommits
      <4>3. NextPending(q) \in Migrations /\ recorded[NextPending(q)] = Unapplied
        BY <4>1, CommitIsNext
      <4>4. PICK k : k = NextPending(q)
        OBVIOUS
      <4>5. k \in Migrations \ {m} /\ recorded[k] = Unapplied
        BY <4>2, <4>3, <4>4
      <4>6. recorded'[k] = Unapplied
        BY <2>6, <4>5
      <4> QED BY <4>1, <4>4, <4>6
    <3> QED BY <3>1 DEF CommitIsFree
  <2>19. OneCommits'
    BY <2>17 DEF MigratorInv, OneCommits
  <2>20. DoneIsComplete'
    <3>1. ASSUME NEW q \in Tools, tool'[q].at = "done", NEW f \in MigrationFiles(q)
          PROVE  recorded'[f] # Unapplied
      <4>1. f \in Migrations
        BY FilesOf
      <4>2. CASE q = p
        <5>1. tool[p].pending \ {m} = {}
          BY <2>12, <2>13, <3>1, <4>2
        <5>2. f = m \/ recorded[f] # Unapplied
          BY <1>2, <3>1, <4>2, <5>1 DEF HoldsTheRest
        <5> QED BY <2>3, <2>6, <4>1, <5>2
      <4>3. CASE q # p
        BY <2>6, <2>13, <3>1, <4>1, <4>3 DEF MigratorInv, DoneIsComplete
      <4> QED BY <4>2, <4>3
    <3> QED BY <3>1 DEF DoneIsComplete, MigrationFiles
  <2> QED BY <2>8, <2>9, <2>10, <2>11, <2>14, <2>16, <2>18, <2>19, <2>20 DEF MigratorInv
<1> QED BY <1>3, <1>4 DEF Commit

(* Every step of a copy preserves the invariant.                           *)
LEMMA MigratorNextInv == MigratorInv /\ [MigratorNext]_migratorVars => MigratorInv'
<1> SUFFICES ASSUME MigratorInv, [MigratorNext]_migratorVars PROVE MigratorInv'
  OBVIOUS
<1>0. \A p \in Tools : tool[p] \in ToolRecord
  BY DEF MigratorInv, MigratorTypeOK
(* a copy that keeps its list at a place before the insert of the row *)
<1>k. ASSUME NEW p \in Tools, NEW a \in Places, ToolGo(p, a), UNCHANGED <<recorded, effects>>,
             a \notin {"commit", "done"}, a \in Applying => tool[p].at \in Applying
      PROVE  MigratorInv'
  <2> DEFINE t == [tool[p] EXCEPT !.at = a]
  <2>1. /\ t \in ToolRecord /\ t.at = a /\ t.pending = tool[p].pending
        /\ tool' = [tool EXCEPT ![p] = t]
    BY <1>0, <1>k DEF ToolGo, ToolRecord
  <2> HIDE DEF t
  <2>2. t.at \in Applying => HoldsTheRest(p, t)
    BY <1>k, <2>1 DEF MigratorInv, PendingIsRest, HoldsTheRest
  <2> QED BY <1>k, <2>1, <2>2, MigratorQuietStep
(* a copy that starts again *)
<1>s. ASSUME NEW p \in Tools, NEW a \in {"initialize", "failed"}, UNCHANGED <<recorded, effects>>,
             tool' = [tool EXCEPT ![p] = [NotStarted EXCEPT !.at = a]]
      PROVE  MigratorInv'
  <2> DEFINE t == [NotStarted EXCEPT !.at = a]
  <2>1. t \in ToolRecord /\ t.at = a
    BY DEF NotStarted, Places, ToolRecord
  <2>2. t.at \notin Applying /\ t.at \notin {"commit", "done"}
    BY <2>1 DEF Applying
  <2>3. tool' = [tool EXCEPT ![p] = t]
    BY <1>s
  <2> HIDE DEF t
  <2> QED BY <1>s, <2>1, <2>2, <2>3, MigratorQuietStep
<1>1. ASSUME NEW p \in Tools, StartTool(p) PROVE MigratorInv'
  BY <1>1, <1>s DEF StartTool
<1>2. ASSUME NEW p \in Tools, InitializeMigrationsTable(p) PROVE MigratorInv'
  <2>1. ToolGo(p, "verify") \/ ToolGo(p, "failed")
    BY <1>2 DEF InitializeMigrationsTable, PoolQuery, Refuse
  <2> QED BY <1>2, <1>k, <2>1 DEF InitializeMigrationsTable, Places, Applying
<1>3. ASSUME NEW p \in Tools, Verify(p) PROVE MigratorInv'
  <2>1. ToolGo(p, "list") \/ ToolGo(p, "failed")
    BY <1>3 DEF Verify, PoolQuery, Refuse
  <2> QED BY <1>3, <1>k, <2>1 DEF Verify, Places, Applying
<1>4. ASSUME NEW p \in Tools, ListPending(p) PROVE MigratorInv'
  <2>1. CASE Refuse(p)
    BY <1>4, <1>k, <2>1 DEF Refuse, ListPending, Places, Applying
  <2>2. CASE ~Refuse(p)
    <3> DEFINE a == IF PendingOf(p) = {} THEN "done" ELSE "connect"
               t == [tool[p] EXCEPT !.at = a, !.pending = PendingOf(p)]
    <3>1. tool' = [tool EXCEPT ![p] = t] /\ UNCHANGED <<recorded, effects>>
      BY <1>4, <2>2 DEF ListPending
    <3>2. /\ PendingOf(p) \subseteq MigrationFiles(p) /\ PendingOf(p) \in SUBSET Nat
          /\ \A m \in MigrationFiles(p) : recorded[m] = Unapplied <=> m \in PendingOf(p)
      BY FilesOf DEF PendingOf, GetAppliedMigrations
    <3>3. t \in ToolRecord /\ t.at = a /\ t.pending = PendingOf(p)
      <4>1. a \in Places
        BY DEF Places
      <4> HIDE DEF a
      <4> QED BY <1>0, <3>2, <4>1 DEF ToolRecord
    <3> HIDE DEF t
    <3>4. t.at \in Applying => HoldsTheRest(p, t)
      BY <3>2, <3>3 DEF Applying, HoldsTheRest
    <3>5. t.at = "done" => \A m \in MigrationFiles(p) : recorded[m] # Unapplied
      BY <3>2, <3>3
    <3>6. t.at # "commit"
      BY <3>3
    <3> QED BY <3>1, <3>3, <3>4, <3>5, <3>6, MigratorQuietStep
  <2> QED BY <2>1, <2>2
<1>5. ASSUME NEW p \in Tools, ApplyMigration(p) PROVE MigratorInv'
  <2>1. CASE ConnectTool(p)
    <3>1. ToolGo(p, "sql") \/ ToolGo(p, "failed")
      BY <2>1 DEF ConnectTool, PoolQuery, Refuse
    <3> QED BY <1>k, <2>1, <3>1 DEF ConnectTool, ToolAt, Places, Applying
  <2>2. CASE RunSql(p)
    BY <1>k, <2>2 DEF RunSql, ToolAt, Places, Applying
  <2>3. CASE RecordMigration(p)
    <3>1. tool[p].at = "record" /\ UNCHANGED <<recorded, effects>>
      BY <2>3 DEF RecordMigration, ToolAt
    <3>2. CASE ToolGo(p, "rollback")
      BY <1>k, <3>1, <3>2 DEF Places, Applying
    <3>3. CASE ToolGo(p, "commit") /\ recorded[NextPending(p)] = Unapplied
      BY <2>3, <3>3, InsertStep
    <3> QED BY <2>3, <3>2, <3>3 DEF RecordMigration
  <2>4. CASE Commit(p)
    BY <2>4, CommitStep
  <2>5. CASE Rollback(p)
    BY <1>k, <2>5 DEF Rollback, Places, Applying
  <2> QED BY <1>5, <2>1, <2>2, <2>3, <2>4, <2>5 DEF ApplyMigration
<1>6. ASSUME NEW p \in Tools, Terminate(p) PROVE MigratorInv'
  <2> DEFINE t == [tool[p] EXCEPT !.ending = TRUE]
  <2>1. t \in ToolRecord /\ t.at = tool[p].at /\ t.pending = tool[p].pending
    BY <1>0 DEF ToolRecord
  <2>2. tool' = [tool EXCEPT ![p] = t] /\ UNCHANGED <<recorded, effects>>
    BY <1>6 DEF Terminate
  <2>3. \A q \in Tools : tool'[q].at = tool[q].at /\ tool'[q].pending = tool[q].pending
    BY <2>1, <2>2 DEF MigratorInv, MigratorTypeOK
  <2>4. MigratorTypeOK'
    BY <2>1, <2>2 DEF MigratorInv, MigratorTypeOK, Migrations, MigrationFiles
  <2>5. EffectsAreRows' /\ RowsAreEffects' /\ EffectsAreOnce' /\ EffectsInOrder'
    BY <2>2 DEF MigratorInv, EffectsAreRows, RowsAreEffects, EffectsAreOnce, EffectsInOrder,
                Migrations, MigrationFiles
  <2>6. PendingIsRest' /\ DoneIsComplete'
    BY <2>2, <2>3 DEF MigratorInv, PendingIsRest, DoneIsComplete, HoldsTheRest, MigrationFiles
  <2>7. \A q \in Tools : NextPending(q)' = NextPending(q)
    BY <2>3 DEF NextPending
  <2>8. CommitIsFree' /\ OneCommits'
    BY <2>2, <2>3, <2>7 DEF MigratorInv, CommitIsFree, OneCommits
  <2> QED BY <2>4, <2>5, <2>6, <2>8 DEF MigratorInv
<1>7. ASSUME NEW p \in Tools, KillTool(p) PROVE MigratorInv'
  BY <1>7, <1>s DEF KillTool
<1>8. ASSUME NEW p \in Tools, Reset(p) PROVE MigratorInv'
  BY <1>8, <1>s DEF Reset
<1>9. CASE UNCHANGED migratorVars
  <2>1. UNCHANGED <<recorded, effects, tool>>
    BY <1>9 DEF migratorVars
  <2>2. MigratorTypeOK'
    BY <2>1 DEF MigratorInv, MigratorTypeOK, Migrations, MigrationFiles
  <2>3. EffectsAreRows' /\ RowsAreEffects' /\ EffectsAreOnce' /\ EffectsInOrder'
    BY <2>1 DEF MigratorInv, EffectsAreRows, RowsAreEffects, EffectsAreOnce, EffectsInOrder,
                Migrations, MigrationFiles
  <2>4. PendingIsRest' /\ DoneIsComplete'
    BY <2>1 DEF MigratorInv, PendingIsRest, DoneIsComplete, HoldsTheRest, MigrationFiles
  <2>5. \A q \in Tools : NextPending(q)' = NextPending(q)
    BY <2>1 DEF NextPending
  <2>6. CommitIsFree' /\ OneCommits'
    BY <2>1, <2>5 DEF MigratorInv, CommitIsFree, OneCommits
  <2> QED BY <2>2, <2>3, <2>4, <2>6 DEF MigratorInv
<1> QED BY <1>1, <1>2, <1>3, <1>4, <1>5, <1>6, <1>7, <1>8, <1>9 DEF MigratorNext

(* The invariant implies what the run checks.                              *)
LEMMA MigratorInvImplies == MigratorInv => MigratedInOrder
<1> SUFFICES ASSUME MigratorInv PROVE MigratedInOrder
  OBVIOUS
<1>1. ASSUME NEW p \in Tools, ToolAt(p, "done") PROVE PendingOf(p) = {}
  BY <1>1, FilesOf DEF MigratorInv, DoneIsComplete, ToolAt, PendingOf, GetAppliedMigrations
<1>2. ASSUME NEW m \in Migrations, NEW e \in Editions
      PROVE  recorded[m] = e <=>
               \E i \in 1..Len(effects) : effects[i].migration = m /\ effects[i].edition = e
  <2>1. e # Unapplied
    BY MigratorAssumption
  <2> QED BY <2>1 DEF MigratorInv, EffectsAreRows, RowsAreEffects
<1> QED BY <1>1, <1>2 DEF MigratorInv, EffectsAreOnce, EffectsInOrder, MigratedInOrder

(* MigrationsAreInOrder: however many copies of however many releases run, *)
(* are interrupted or killed, and whichever files a release has or lacks,  *)
(* every migration takes effect at most once, recorded as it ran and after *)
(* the earlier files of the release that brought it, and a copy that       *)
(* reports success has nothing left to apply (applyMigration, migrate).    *)
THEOREM MigrationsAreInOrder == MigratorSpec => []MigratedInOrder
BY MigratorInitInv, MigratorNextInv, MigratorInvImplies, PTL DEF MigratorSpec

-----------------------------------------------------------------------------
(* Lineage: the cycle check and the ways along edges.                       *)

EdgeJoins(L, x, y) == \E e \in L : e[1] = x /\ e[2] = y
WaysOf(L, N, n) == {w \in [0..n -> N] : \A i \in 1..n : EdgeJoins(L, w[i - 1], w[i])}
IsWay(L, N, n, x, y) == \E w \in WaysOf(L, N, n) : w[0] = x /\ w[n] = y
NoWay(L, N, m, x, y) == \A n \in Nat : n < m => ~IsWay(L, N, n, x, y)
NoRound(L, N, m) == \A n \in 1..m : \A w \in WaysOf(L, N, n) : w[0] # w[n]

(* The recursion of lineage_path has a solution.                            *)
IsPath(f, target, depth) ==
  f = [d \in 1..depth |-> IF d = 1 THEN {target} ELSE After(f[d - 1])]

PathLevel(f, target, d) == IF d = 1 THEN {target} ELSE After(f[d - 1])

(* What it finds at one depth.                                              *)
LEMMA PathStep ==
  ASSUME NEW target, NEW depth \in Nat, NEW f
  PROVE  IsPath(f, target, depth) => \A d \in 1..depth : f[d] = PathLevel(f, target, d)
<1> SUFFICES ASSUME IsPath(f, target, depth), NEW d \in 1..depth
             PROVE  f[d] = PathLevel(f, target, d)
  OBVIOUS
<1> DEFINE g == [k \in 1..depth |-> IF k = 1 THEN {target} ELSE After(f[k - 1])]
<1>1. f = g
  BY DEF IsPath
<1>2. g[d] = PathLevel(f, target, d)
  BY DEF PathLevel
<1> HIDE DEF g
<1> QED
  BY ONLY <1>1, <1>2

(* There are such levels for each depth.                                    *)
LEMMA PathExists == ASSUME NEW target, NEW depth \in Nat PROVE \E f : IsPath(f, target, depth)
<1> DEFINE S == {n \in Nat : \E f : IsPath(f, target, n)}
<1>1. 0 \in S
  <2>1. IsPath([d \in 1..0 |-> {}], target, 0)
    BY DEF IsPath
  <2> QED
    BY <2>1
<1>2. ASSUME NEW n \in Nat, n \in S PROVE n + 1 \in S
  <2>1. PICK f : IsPath(f, target, n)
    BY <1>2
  <2> DEFINE g == [d \in 1..(n + 1) |-> IF d = 1 THEN {target} ELSE After(f[d - 1])]
  <2>2. ASSUME NEW d \in 1..n PROVE g[d] = f[d]
    <3>1. d \in 1..(n + 1)
      OBVIOUS
    <3>2. g[d] = PathLevel(f, target, d)
      BY <3>1 DEF PathLevel
    <3> HIDE DEF g
    <3>3. f[d] = PathLevel(f, target, d)
      BY <2>1, PathStep
    <3> QED
      BY ONLY <3>2, <3>3
  <2>3. \A d \in 1..(n + 1) : d # 1 => d - 1 \in 1..n
    OBVIOUS
  <2>4. \A d \in 1..(n + 1) : g[d] = IF d = 1 THEN {target} ELSE After(g[d - 1])
    BY <2>2, <2>3
  <2>5. IsPath(g, target, n + 1)
    BY <2>4 DEF IsPath
  <2> QED
    BY <2>5
<1> HIDE DEF S
<1>3. Nat \subseteq S
  BY <1>1, <1>2, SetInduction
<1> QED
  BY <1>3 DEF S

(* What a way of fewer edges than the depth leads to is found.              *)
LEMMA WaysAreFollowed ==
  ASSUME NEW target, NEW depth \in Nat, NEW n \in Nat, n < depth,
         NEW w \in WaysOf(links, nodes, n), w[0] = target
  PROVE  w[n] \in Followed(target, depth)
<1>1. PICK f : /\ IsPath(f, target, depth)
               /\ Followed(target, depth) = UNION {f[d] : d \in 1..depth}
  <2> DEFINE h == CHOOSE f : IsPath(f, target, depth)
  <2>1. IsPath(h, target, depth)
    BY PathExists
  <2>2. Followed(target, depth) = UNION {h[d] : d \in 1..depth}
    BY DEF Followed, IsPath
  <2> QED
    BY <2>1, <2>2
<1> DEFINE S == {k \in Nat : k <= n => w[k] \in f[k + 1]}
<1>2. f[1] = {target} /\ \A d \in 2..depth : f[d] = After(f[d - 1])
  <2>1. 1 \in 1..depth /\ \A d \in 2..depth : d \in 1..depth /\ d # 1
    OBVIOUS
  <2>2. \A d \in 1..depth : f[d] = PathLevel(f, target, d)
    BY <1>1, PathStep
  <2> QED
    BY <2>1, <2>2 DEF PathLevel
<1>3. 0 \in S
  BY <1>2
<1>4. ASSUME NEW k \in Nat, k \in S PROVE k + 1 \in S
  <2>1. SUFFICES ASSUME k + 1 <= n PROVE w[k + 1] \in f[k + 2]
    OBVIOUS
  <2>2. k + 1 \in 1..n /\ (k + 1) - 1 = k /\ k + 2 \in 2..depth /\ (k + 2) - 1 = k + 1
    BY <2>1
  <2>3. EdgeJoins(links, w[k], w[k + 1])
    BY <2>2 DEF WaysOf
  <2>4. w[k] \in f[k + 1]
    BY <1>4, <2>1
  <2>5. f[k + 2] = After(f[k + 1])
    BY <1>2, <2>2
  <2> QED
    BY <2>3, <2>4, <2>5 DEF EdgeJoins, After
<1> HIDE DEF S
<1>5. n \in S
  BY <1>3, <1>4, SetInduction
<1>6. w[n] \in f[n + 1] /\ n + 1 \in 1..depth
  BY <1>5 DEF S
<1> QED
  BY <1>1, <1>6

(* A round over one more edge that uses it: between the last time and the   *)
(* first it goes from the end of the edge to its beginning over the others. *)
LEMMA RoundHasWay ==
  ASSUME NEW L, NEW N, NEW e, NEW n \in Nat, n > 0,
         NEW w \in WaysOf(L \cup {e}, N, n), w[0] = w[n],
         NEW k \in 1..n, ~EdgeJoins(L, w[k - 1], w[k])
  PROVE  \E m \in Nat : m < n /\ IsWay(L, N, m, e[2], e[1])
<1> DEFINE New(i) == ~EdgeJoins(L, w[i - 1], w[i])
           P == {i \in 1..n : New(i)}
           Q == {n - i : i \in P}
<1>1. PICK i \in P : \A q \in P : i <= q
  <2>1. P \in SUBSET Nat /\ k \in P
    <3>1. 1..n \subseteq Nat
      OBVIOUS
    <3> QED
      BY <3>1
  <2> HIDE DEF P
  <2> QED
    BY <2>1, SetHasLeast
<1>2. PICK j \in P : \A q \in P : q <= j
  <2>1. Q \in SUBSET Nat /\ Q # {}
    OBVIOUS
  <2>2. PICK x \in Q : \A y \in Q : x <= y
    <3> HIDE DEF Q
    <3> QED
      BY <2>1, SetHasLeast
  <2>3. PICK j \in P : x = n - j
    OBVIOUS
  <2>4. ASSUME NEW q \in P PROVE q <= j
    <3>1. n - q \in Q /\ q \in Nat /\ j \in Nat
      OBVIOUS
    <3>2. n - j <= n - q
      BY <2>2, <2>3, <3>1
    <3> QED
      BY <3>1, <3>2
  <2> QED
    BY <2>4
<1>3. i \in 1..n /\ j \in 1..n /\ i <= j /\ New(i) /\ New(j)
  BY <1>1, <1>2
<1>4. \A q \in 1..n : q < i \/ j < q => EdgeJoins(L, w[q - 1], w[q])
  <2>1. \A q \in 1..n : New(q) => i <= q /\ q <= j
    BY <1>1, <1>2
  <2> QED
    BY <1>3, <2>1
<1>5. w[i - 1] = e[1] /\ w[j] = e[2]
  BY <1>3 DEF WaysOf, EdgeJoins
<1> HIDE DEF P, Q, New
<1>6. PICK m \in Nat : m = (n - j) + (i - 1)
  BY <1>3
<1>7. PICK a \in Nat : a = n - j
  BY <1>3
<1> DEFINE v == [q \in 0..m |-> IF q <= a THEN w[j + q] ELSE w[q - a]]
<1>8. v \in [0..m -> N]
  <2>1. w \in [0..n -> N]
    BY DEF WaysOf
  <2>2. \A q \in 0..m : (q <= a => j + q \in 0..n) /\ (~(q <= a) => q - a \in 0..n)
    BY <1>3, <1>6, <1>7
  <2> QED
    BY <2>1, <2>2
<1>9. ASSUME NEW q \in 1..m PROVE EdgeJoins(L, v[q - 1], v[q])
  <2>1. q \in 0..m /\ q - 1 \in 0..m
    OBVIOUS
  <2>2. CASE q <= a
    <3>1. v[q] = w[j + q] /\ v[q - 1] = w[(j + q) - 1]
      <4>1. q - 1 <= a /\ j + (q - 1) = (j + q) - 1
        BY <1>3, <2>2
      <4> QED
        BY <2>1, <2>2, <4>1
    <3>2. j + q \in 1..n /\ j < j + q
      BY <1>3, <1>7, <2>2
    <3> HIDE DEF v
    <3> QED
      BY <1>4, <3>1, <3>2
  <2>3. CASE q = a + 1
    <3>1. v[q] = w[1] /\ v[q - 1] = w[n]
      <4>1. q - 1 <= a /\ ~(q <= a) /\ q - a = 1 /\ j + (q - 1) = n
        BY <1>3, <1>7, <2>3
      <4> QED
        BY <2>1, <4>1
    <3>2. 1 \in 1..n /\ 1 < i /\ 1 - 1 = 0
      BY <1>3, <1>6, <1>7, <2>3
    <3> HIDE DEF v
    <3> QED
      BY <1>4, <3>1, <3>2
  <2>4. CASE q > a + 1
    <3>1. v[q] = w[q - a] /\ v[q - 1] = w[(q - a) - 1]
      <4>1. ~(q - 1 <= a) /\ ~(q <= a) /\ (q - 1) - a = (q - a) - 1
        BY <2>4
      <4> QED
        BY <2>1, <4>1
    <3>2. q - a \in 1..n /\ q - a < i
      BY <1>3, <1>6, <1>7, <2>4
    <3> HIDE DEF v
    <3> QED
      BY <1>4, <3>1, <3>2
  <2> QED
    BY <2>2, <2>3, <2>4
<1>10. v[0] = e[2]
  BY <1>3, <1>5
<1>11. v[m] = e[1]
  <2>1. CASE i = 1
    <3>1. m = a /\ j + m = n
      BY <1>3, <1>6, <1>7, <2>1
    <3>2. w[n] = e[1]
      BY <1>5, <2>1
    <3> QED
      BY <3>1, <3>2
  <2>2. CASE i > 1
    <3>1. ~(m <= a) /\ m - a = i - 1
      BY <1>3, <1>6, <1>7, <2>2
    <3> QED
      BY <1>5, <3>1
  <2> QED
    BY <1>3, <2>1, <2>2
<1> HIDE DEF v
<1>12. v \in WaysOf(L, N, m)
  BY <1>8, <1>9 DEF WaysOf
<1>13. m < n
  BY <1>3, <1>6
<1> QED
  BY <1>10, <1>11, <1>12, <1>13 DEF IsWay

(* An edge that closes no short round leaves none.                          *)
LEMMA EdgeKeepsRoundsLong ==
  ASSUME NEW L, NEW N, NEW e, NEW m \in Nat, NoRound(L, N, m), NoWay(L, N, m, e[2], e[1])
  PROVE  NoRound(L \cup {e}, N, m)
<1>1. SUFFICES ASSUME NEW n \in 1..m, NEW w \in WaysOf(L \cup {e}, N, n), w[0] = w[n]
               PROVE  FALSE
  BY DEF NoRound
<1>2. CASE \A k \in 1..n : EdgeJoins(L, w[k - 1], w[k])
  <2>1. w \in WaysOf(L, N, n)
    BY <1>2 DEF WaysOf
  <2> QED
    BY <1>1, <2>1 DEF NoRound
<1>3. CASE \E k \in 1..n : ~EdgeJoins(L, w[k - 1], w[k])
  <2>1. PICK l \in Nat : l < n /\ IsWay(L, N, l, e[2], e[1])
    <3>1. PICK k \in 1..n : ~EdgeJoins(L, w[k - 1], w[k])
      BY <1>3
    <3>2. n \in Nat /\ n > 0
      OBVIOUS
    <3> QED
      BY <1>1, <3>1, <3>2, RoundHasWay
  <2>2. l < m
    BY <2>1
  <2> QED
    BY <2>1, <2>2 DEF NoWay
<1> QED
  BY <1>2, <1>3

(* A way with a place among the nodes, or with an edge, stays among them.   *)
LEMMA WaysStay ==
  ASSUME NEW L, NEW N, \A e \in L : e[1] \in N /\ e[2] \in N, NEW M, N \subseteq M,
         NEW n \in Nat, NEW w \in WaysOf(L, M, n), w[0] \in N \/ n > 0
  PROVE  w \in WaysOf(L, N, n)
<1>1. w \in [0..n -> M] /\ \A i \in 1..n : EdgeJoins(L, w[i - 1], w[i])
  BY DEF WaysOf
<1>2. ASSUME NEW i \in 0..n PROVE w[i] \in N
  <2>1. CASE i = 0 /\ n > 0
    <3>1. 1 \in 1..n /\ 1 - 1 = 0
      BY <2>1
    <3>2. EdgeJoins(L, w[0], w[1])
      BY <1>1, <3>1
    <3> QED
      BY <2>1, <3>2 DEF EdgeJoins
  <2>2. CASE i > 0
    <3>1. i \in 1..n
      BY <2>2
    <3> QED
      BY <1>1, <3>1 DEF EdgeJoins
  <2> QED
    BY <2>1, <2>2
<1> QED
  BY <1>1, <1>2 DEF WaysOf

(* More nodes make no new ways between those that were there.               *)
LEMMA NodesKeepRounds ==
  ASSUME NEW L, NEW N, \A e \in L : e[1] \in N /\ e[2] \in N, NEW M, N \subseteq M, NEW m \in Nat
  PROVE  /\ NoRound(L, N, m) => NoRound(L, M, m)
         /\ \A x \in N, y \in N : NoWay(L, N, m, x, y) => NoWay(L, M, m, x, y)
<1>1. ASSUME NoRound(L, N, m), NEW n \in 1..m, NEW w \in WaysOf(L, M, n) PROVE w[0] # w[n]
  <2>1. n \in Nat /\ n > 0
    OBVIOUS
  <2>2. w \in WaysOf(L, N, n)
    BY <2>1, WaysStay
  <2> QED
    BY <1>1, <2>2 DEF NoRound
<1>2. ASSUME NEW x \in N, NEW y \in N, NoWay(L, N, m, x, y), NEW n \in Nat, n < m,
             IsWay(L, M, n, x, y)
      PROVE  FALSE
  <2>1. PICK w \in WaysOf(L, M, n) : w[0] = x /\ w[n] = y
    BY <1>2 DEF IsWay
  <2>2. w \in WaysOf(L, N, n)
    BY <2>1, WaysStay
  <2> QED
    BY <1>2, <2>1, <2>2 DEF NoWay, IsWay
<1> QED
  BY <1>1, <1>2 DEF NoRound, NoWay

-----------------------------------------------------------------------------

TrackThings == Things \cup {CHOOSE x \in Subjects : TRUE}
TrackRows == TrackThings \X Nat
TrackPlaces == {"idle", "find_subject", "create_subject", "find_version", "find_graph", "insert_node",
           "check_edge", "insert_edge"}
TrackCall == [at : TrackPlaces, rel : Relationships, from : TrackRows, to : TrackRows]

LineageType ==
  /\ nodes \subseteq TrackRows /\ IsFiniteSet(nodes)
  /\ task \in [Tracks -> TrackCall]
  /\ overlapped \in BOOLEAN

AboutToInsert(t) == t.at = "insert_edge"
EndsAreNodes ==
  /\ \A e \in links : e[1] \in nodes /\ e[2] \in nodes
  /\ \A c \in Tracks : AboutToInsert(task[c]) => task[c].from \in nodes /\ task[c].to \in nodes

(* What is to be inserted closes no short round of what is there, and what  *)
(* is there has none, until two inserts overlap.                            *)
RoundsAreLong ==
  ~overlapped => /\ NoRound(links, nodes, Reach)
                 /\ \A c \in Tracks : AboutToInsert(task[c]) =>
                      NoWay(links, nodes, Reach, task[c].to, task[c].from)

LineageInv == LineageType /\ EndsAreNodes /\ RoundsAreLong

(* A call goes on to another place.                                         *)
LEMMA CallGoes ==
  ASSUME NEW t \in TrackCall, NEW p \in TrackPlaces, NEW u, u = [t EXCEPT !.at = p]
  PROVE  u \in TrackCall /\ u.at = p /\ u.from = t.from /\ u.to = t.to
BY DEF TrackCall

(* A call that has been answered.                                           *)
LEMMA FreshIsCall == Fresh \in TrackCall /\ Fresh.at = "idle"
<1>1. <<CHOOSE x \in Subjects : TRUE, 0>> \in TrackRows
  BY DEF TrackRows, TrackThings
<1> QED
  BY <1>1 DEF Fresh, TrackCall, Relationships, TrackPlaces

(* Calls that are about no edge to be inserted: nodes may come.             *)
LEMMA CallsMove ==
  ASSUME LineageInv, NEW c \in Tracks, NEW t \in TrackCall, ~AboutToInsert(t),
         task' = [task EXCEPT ![c] = t], UNCHANGED <<links, overlapped>>,
         nodes \subseteq nodes', nodes' \subseteq TrackRows, IsFiniteSet(nodes')
  PROVE  LineageInv'
<1>1. LineageType'
  BY DEF LineageInv, LineageType
<1>2. \A d \in Tracks : task'[d] = IF d = c THEN t ELSE task[d]
  BY DEF LineageInv, LineageType
<1>3. links' = links /\ overlapped' = overlapped
  OBVIOUS
<1>4. \A d \in Tracks : AboutToInsert(task'[d]) => task'[d] = task[d]
  BY <1>2
<1>5. EndsAreNodes'
  BY <1>3, <1>4 DEF LineageInv, EndsAreNodes
<1>6. ASSUME ~overlapped
      PROVE  /\ NoRound(links, nodes', Reach)
             /\ \A d \in Tracks : AboutToInsert(task'[d]) =>
                  NoWay(links, nodes', Reach, task[d].to, task[d].from)
  <2>1. \A e \in links : e[1] \in nodes /\ e[2] \in nodes
    BY DEF LineageInv, EndsAreNodes
  <2>2. /\ NoRound(links, nodes, Reach) => NoRound(links, nodes', Reach)
        /\ \A x \in nodes, y \in nodes :
             NoWay(links, nodes, Reach, x, y) => NoWay(links, nodes', Reach, x, y)
    BY <2>1, LineageAssumption, NodesKeepRounds
  <2>3. \A d \in Tracks : AboutToInsert(task'[d]) =>
          AboutToInsert(task[d]) /\ task[d].to \in nodes /\ task[d].from \in nodes
    BY <1>4 DEF LineageInv, EndsAreNodes
  <2> QED
    BY <1>6, <2>2, <2>3 DEF LineageInv, RoundsAreLong
<1>7. RoundsAreLong'
  <2>1. SUFFICES ASSUME ~overlapped
                 PROVE  /\ NoRound(links, nodes', Reach)
                        /\ \A d \in Tracks : AboutToInsert(task'[d]) =>
                             NoWay(links, nodes', Reach, task'[d].to, task'[d].from)
    BY <1>3 DEF RoundsAreLong
  <2> QED
    BY <1>4, <1>6, <2>1
<1> QED
  BY <1>1, <1>5, <1>7 DEF LineageInv

(* A node is inserted.                                                      *)
LEMMA NodeComes ==
  ASSUME LineageType, NEW x \in TrackThings, InsertNode(x)
  PROVE  /\ nodes \subseteq nodes' /\ nodes' \subseteq TrackRows /\ IsFiniteSet(nodes')
         /\ <<x, Cardinality(RowsOf(x)) + 1>> \in TrackRows
<1>1. RowsOf(x) \in SUBSET nodes /\ IsFiniteSet(nodes)
  BY DEF RowsOf, LineageType
<1>2. Cardinality(RowsOf(x)) \in Nat
  BY <1>1, FS_Subset, FS_CardinalityType
<1>3. <<x, Cardinality(RowsOf(x)) + 1>> \in TrackRows
  BY <1>2 DEF TrackRows
<1>4. IsFiniteSet(nodes \cup {<<x, Cardinality(RowsOf(x)) + 1>>})
  BY <1>1, FS_AddElement
<1> QED
  BY <1>3, <1>4 DEF InsertNode, LineageType

(* A request changes only its call.                                         *)
LEMMA RequestKeeps ==
  ASSUME LineageInv, NEW c \in Tracks, LineageRequest(c)
  PROVE  LineageInv'
<1>1. ASSUME NEW p \in TrackPlaces, p # "insert_edge", NEW rel \in Relationships,
             NEW x \in TrackRows, NEW y \in TrackRows, Start(c, p, rel, x, y)
      PROVE  LineageInv'
  <2>1. Fresh \in TrackCall
    BY FreshIsCall
  <2>2. PICK t : t = [Fresh EXCEPT !.at = p, !.rel = rel, !.from = x, !.to = y]
    OBVIOUS
  <2>3. t \in TrackCall /\ t.at = p
    BY <2>1, <2>2 DEF TrackCall
  <2>4. task' = [task EXCEPT ![c] = t] /\ UNCHANGED <<nodes, links, overlapped>>
    BY <1>1, <2>2 DEF Start
  <2> QED
    BY <1>1, <2>3, <2>4, CallsMove DEF LineageInv, LineageType, AboutToInsert
<1>2. \A x \in Things : <<x, 0>> \in TrackRows
  BY DEF TrackRows, TrackThings
<1>3. nodes \subseteq TrackRows
  BY DEF LineageInv, LineageType
<1>4. "find_subject" \in TrackPlaces /\ "insert_node" \in TrackPlaces /\ "check_edge" \in TrackPlaces
      /\ "find_graph" \in TrackPlaces
  BY DEF TrackPlaces
<1>5. CASE \E v \in Versions, s \in Subjects :
             TrackDataset(c, v, s) \/ TrackCommit(c, v, s) \/ TrackTrainingRun(c, v, s)
  BY <1>1, <1>2, <1>4, <1>5 DEF TrackDataset, TrackCommit, TrackTrainingRun, Things, Relationships
<1>6. CASE \E x \in Things : AddNode(c, x)
  BY <1>1, <1>2, <1>4, <1>6 DEF AddNode, Relationships
<1>7. CASE \E source, target \in nodes, rel \in Relationships : AddEdge(c, source, target, rel)
  BY <1>1, <1>3, <1>4, <1>7 DEF AddEdge
<1>8. CASE \E v \in Versions : RequestGraph(c, v)
  BY <1>1, <1>2, <1>4, <1>8 DEF RequestGraph, Things, Relationships
<1> QED
  BY <1>5, <1>6, <1>7, <1>8 DEF LineageRequest

(* What a call does before its edge is checked.                             *)
LEMMA LookKeeps ==
  ASSUME LineageInv, NEW c \in Tracks,
         FindSubject(c) \/ CreateSubject(c) \/ FindVersion(c) \/ AddedNode(c) \/ FindGraph(c)
  PROVE  LineageInv'
<1>1. /\ LineageType /\ task[c] \in TrackCall /\ task \in [Tracks -> TrackCall]
      /\ nodes \subseteq TrackRows /\ IsFiniteSet(nodes)
  BY DEF LineageInv, LineageType
<1>2. task[c].from \in TrackRows /\ task[c].from[1] \in TrackThings
  BY <1>1 DEF TrackCall, TrackRows
<1>3. ASSUME Answered(c), UNCHANGED <<links, overlapped>>,
             UNCHANGED nodes \/ \E x \in TrackThings : InsertNode(x)
      PROVE  LineageInv'
  <2>1. nodes \subseteq nodes' /\ nodes' \subseteq TrackRows /\ IsFiniteSet(nodes')
    BY <1>1, <1>3, NodeComes
  <2> QED
    BY <1>3, <2>1, FreshIsCall, CallsMove DEF Answered, AboutToInsert
<1>4. ASSUME NEW p \in {"create_subject", "find_version", "check_edge"}, NEW t \in TrackCall, t.at = p,
             task' = [task EXCEPT ![c] = t], UNCHANGED <<links, overlapped>>,
             UNCHANGED nodes \/ \E x \in TrackThings : InsertNode(x)
      PROVE  LineageInv'
  <2>1. nodes \subseteq nodes' /\ nodes' \subseteq TrackRows /\ IsFiniteSet(nodes')
    BY <1>1, <1>4, NodeComes
  <2>2. ~AboutToInsert(t)
    BY <1>4 DEF AboutToInsert
  <2> QED
    BY <1>4, <2>1, <2>2, CallsMove
<1>5. CASE FindGraph(c)
  BY <1>3, <1>5 DEF FindGraph
<1>6. CASE AddedNode(c)
  BY <1>2, <1>3, <1>6 DEF AddedNode
<1>7. CASE FindSubject(c)
  <2>1. CASE Goto(c, "create_subject")
    <3>1. PICK u : u = [task[c] EXCEPT !.at = "create_subject"]
      OBVIOUS
    <3>2. task' = [task EXCEPT ![c] = u] /\ "create_subject" \in TrackPlaces
      BY <1>1, <2>1, <3>1 DEF Goto, TrackPlaces
    <3>3. u \in TrackCall /\ u.at = "create_subject"
      BY <1>1, <3>1, <3>2, CallGoes
    <3> QED
      BY <1>4, <1>7, <3>2, <3>3 DEF FindSubject
  <2>2. CASE \E r \in RowsOf(task[c].from[1]) :
               task' = [task EXCEPT ![c].from = r, ![c].at = "find_version"]
    <3>1. PICK r \in nodes : task' = [task EXCEPT ![c].from = r, ![c].at = "find_version"]
      BY <2>2 DEF RowsOf
    <3>2. PICK u : u = [task[c] EXCEPT !.from = r, !.at = "find_version"]
      OBVIOUS
    <3>3. task' = [task EXCEPT ![c] = u] /\ "find_version" \in TrackPlaces /\ r \in TrackRows
      BY <1>1, <3>1, <3>2 DEF TrackPlaces
    <3>4. u \in TrackCall /\ u.at = "find_version"
      BY <1>1, <3>2, <3>3 DEF TrackCall
    <3> QED
      BY <1>4, <1>7, <3>3, <3>4 DEF FindSubject
  <2> QED
    BY <1>7, <2>1, <2>2 DEF FindSubject
<1>8. CASE FindVersion(c)
  <2>1. CASE Answered(c)
    BY <1>3, <1>8, <2>1 DEF FindVersion
  <2>2. CASE \E r \in RowsOf(task[c].to[1]) :
               task' = [task EXCEPT ![c].to = r, ![c].at = "check_edge"]
    <3>1. PICK r \in nodes : task' = [task EXCEPT ![c].to = r, ![c].at = "check_edge"]
      BY <2>2 DEF RowsOf
    <3>2. PICK u : u = [task[c] EXCEPT !.to = r, !.at = "check_edge"]
      OBVIOUS
    <3>3. task' = [task EXCEPT ![c] = u] /\ "check_edge" \in TrackPlaces /\ r \in TrackRows
      BY <1>1, <3>1, <3>2 DEF TrackPlaces
    <3>4. u \in TrackCall /\ u.at = "check_edge"
      BY <1>1, <3>2, <3>3 DEF TrackCall
    <3> QED
      BY <1>4, <1>8, <3>3, <3>4 DEF FindVersion
  <2> QED
    BY <1>8, <2>1, <2>2 DEF FindVersion
<1>9. CASE CreateSubject(c)
  <2>1. PICK s \in TrackThings : s = task[c].from[1]
    BY <1>2
  <2>2. CASE Answered(c) /\ UNCHANGED nodes
    BY <1>3, <1>9, <2>2 DEF CreateSubject
  <2>3. CASE /\ InsertNode(s)
             /\ task' = [task EXCEPT ![c].from = <<s, Cardinality(RowsOf(s)) + 1>>,
                                     ![c].at = "find_version"]
    <3>1. PICK r \in TrackRows : r = <<s, Cardinality(RowsOf(s)) + 1>>
      BY <1>1, <2>3, NodeComes
    <3>2. PICK u : u = [task[c] EXCEPT !.from = r, !.at = "find_version"]
      OBVIOUS
    <3>3. task' = [task EXCEPT ![c] = u] /\ "find_version" \in TrackPlaces
      BY <1>1, <2>3, <3>1, <3>2 DEF TrackPlaces
    <3>4. u \in TrackCall /\ u.at = "find_version"
      BY <1>1, <3>2, <3>3 DEF TrackCall
    <3> QED
      BY <1>4, <1>9, <2>3, <3>3, <3>4 DEF CreateSubject
  <2> QED
    BY <1>9, <2>1, <2>2, <2>3 DEF CreateSubject
<1> QED
  BY <1>5, <1>6, <1>7, <1>8, <1>9

(* The triggers see the committed edges, and follow each way of them.       *)
LEMMA CheckKeeps ==
  ASSUME LineageInv, NEW c \in Tracks, CheckEdge(c)
  PROVE  LineageInv'
<1>1. LineageType /\ task[c] \in TrackCall /\ task \in [Tracks -> TrackCall]
  BY DEF LineageInv, LineageType
<1>2. CASE Answered(c)
  BY <1>1, <1>2, FreshIsCall, CallsMove DEF CheckEdge, Answered, AboutToInsert, LineageType
<1>3. CASE /\ task[c].from \in nodes /\ task[c].to \in nodes
           /\ task[c].from \notin Followed(task[c].to, Reach)
           /\ Goto(c, "insert_edge")
  <2>1. \A d \in Tracks : /\ task'[d].from = task[d].from /\ task'[d].to = task[d].to
                          /\ AboutToInsert(task'[d]) => d = c \/ AboutToInsert(task[d])
    BY <1>1, <1>3 DEF Goto, AboutToInsert, TrackCall
  <2>2. UNCHANGED <<nodes, links, overlapped>>
    BY DEF CheckEdge
  <2>3. LineageType'
    <3>1. PICK u : u = [task[c] EXCEPT !.at = "insert_edge"]
      OBVIOUS
    <3>2. task' = [task EXCEPT ![c] = u] /\ "insert_edge" \in TrackPlaces
      BY <1>1, <1>3, <3>1 DEF Goto, TrackPlaces
    <3>3. u \in TrackCall
      BY <1>1, <3>1, <3>2, CallGoes
    <3> QED
      BY <1>1, <2>2, <3>2, <3>3 DEF LineageType
  <2>4. EndsAreNodes'
    BY <1>3, <2>1, <2>2 DEF LineageInv, EndsAreNodes
  <2>5. NoWay(links, nodes, Reach, task[c].to, task[c].from)
    <3>1. ASSUME NEW n \in Nat, n < Reach, IsWay(links, nodes, n, task[c].to, task[c].from)
          PROVE  FALSE
      <4>1. PICK w \in WaysOf(links, nodes, n) : w[0] = task[c].to /\ w[n] = task[c].from
        BY <3>1 DEF IsWay
      <4>2. w[n] \in Followed(task[c].to, Reach)
        BY <3>1, <4>1, LineageAssumption, WaysAreFollowed
      <4> QED
        BY <1>3, <4>1, <4>2
    <3> QED
      BY <3>1 DEF NoWay
  <2>6. RoundsAreLong'
    <3>1. links' = links /\ nodes' = nodes /\ overlapped' = overlapped
      BY <2>2
    <3>2. SUFFICES ASSUME ~overlapped
                   PROVE  /\ NoRound(links, nodes, Reach)
                          /\ \A d \in Tracks : AboutToInsert(task'[d]) =>
                               NoWay(links, nodes, Reach, task'[d].to, task'[d].from)
      BY <3>1 DEF RoundsAreLong
    <3> QED
      BY <2>1, <2>5, <3>2 DEF LineageInv, RoundsAreLong
  <2> QED
    BY <2>3, <2>4, <2>6 DEF LineageInv
<1> QED
  BY <1>2, <1>3 DEF CheckEdge

(* The commit: if no other insert is under way, the check still holds.      *)
LEMMA CommitKeepsRounds ==
  ASSUME LineageInv, NEW c \in Tracks, CommitEdge(c)
  PROVE  LineageInv'
<1>1. LineageType /\ task[c] \in TrackCall /\ task \in [Tracks -> TrackCall]
  BY DEF LineageInv, LineageType
<1>2. PICK edge : edge = <<task[c].from, task[c].to, task[c].rel>>
  OBVIOUS
<1>3. CASE edge \in links
  BY <1>1, <1>2, <1>3, FreshIsCall, CallsMove DEF CommitEdge, Answered, AboutToInsert, LineageType
<1>4. CASE edge \notin links
  <2>1. /\ links' = links \cup {edge} /\ Answered(c) /\ nodes' = nodes
        /\ overlapped' = (overlapped \/ \E d \in Tracks \ {c} : task[d].at = "insert_edge")
        /\ AboutToInsert(task[c])
    BY <1>2, <1>4 DEF CommitEdge, AboutToInsert
  <2>2. \A d \in Tracks : AboutToInsert(task'[d]) => d # c /\ task'[d] = task[d]
    BY <1>1, <2>1, FreshIsCall DEF Answered, AboutToInsert
  <2>3. LineageType'
    BY <1>1, <2>1, FreshIsCall DEF LineageType, Answered
  <2>4. edge[1] = task[c].from /\ edge[2] = task[c].to
    BY <1>2
  <2>5. EndsAreNodes'
    BY <2>1, <2>2, <2>4 DEF LineageInv, EndsAreNodes
  <2>6. ASSUME ~overlapped' PROVE NoRound(links', nodes, Reach) /\ \A d \in Tracks : ~AboutToInsert(task'[d])
    <3>1. ~overlapped /\ \A d \in Tracks : d # c => ~AboutToInsert(task[d])
      BY <2>1, <2>6 DEF AboutToInsert
    <3>2. NoRound(links, nodes, Reach) /\ NoWay(links, nodes, Reach, edge[2], edge[1])
      BY <2>1, <2>4, <3>1 DEF LineageInv, RoundsAreLong
    <3>3. NoRound(links \cup {edge}, nodes, Reach)
      BY <3>2, LineageAssumption, EdgeKeepsRoundsLong
    <3> QED
      BY <2>1, <2>2, <3>1, <3>3
  <2>7. RoundsAreLong'
    BY <2>1, <2>6 DEF RoundsAreLong
  <2> QED
    BY <2>3, <2>5, <2>7 DEF LineageInv
<1> QED
  BY <1>3, <1>4

(* There are no edges at first.                                             *)
LEMMA LineageBegins == ASSUME LineageInit PROVE LineageInv
<1>1. LineageType
  <2>1. IsFiniteSet({})
    BY FS_EmptySet
  <2> QED
    BY <2>1, FreshIsCall DEF LineageInit, LineageType
<1>2. EndsAreNodes
  BY FreshIsCall DEF LineageInit, EndsAreNodes, AboutToInsert
<1>3. NoRound({}, {}, Reach)
  <2>1. ASSUME NEW n \in 1..Reach, NEW w \in WaysOf({}, {}, n) PROVE FALSE
    <3>1. 1 \in 1..n
      BY LineageAssumption
    <3> QED
      BY <3>1 DEF WaysOf, EdgeJoins
  <2> QED
    BY <2>1 DEF NoRound
<1>4. RoundsAreLong
  BY <1>3, FreshIsCall DEF LineageInit, RoundsAreLong, AboutToInsert
<1> QED
  BY <1>1, <1>2, <1>4 DEF LineageInv

(* RoundsStayLong: while no two inserts of edges overlap, each cycle of the *)
(* lineage graph is longer than prevent_lineage_cycles looks, for any depth *)
(* and any graph.                                                           *)
THEOREM RoundsStayLong == LineageSpec => []CyclesAreLong
<1>1. LineageInit => LineageInv
  BY LineageBegins
<1>2. LineageInv /\ [LineageNext]_lineageVars => LineageInv'
  <2>1. ASSUME LineageInv, NEW c \in Tracks, LineageRequest(c) \/ TrackStep(c) PROVE LineageInv'
    BY <2>1, RequestKeeps, LookKeeps, CheckKeeps, CommitKeepsRounds DEF TrackStep
  <2>2. ASSUME LineageInv, UNCHANGED lineageVars PROVE LineageInv'
    BY <2>2 DEF lineageVars, LineageInv, LineageType, EndsAreNodes, RoundsAreLong, AboutToInsert
  <2> QED
    BY <2>1, <2>2 DEF LineageNext
<1>3. LineageInv => CyclesAreLong
  <2>1. \A n : Ways(n) = WaysOf(links, nodes, n)
    BY DEF Ways, WaysOf, EdgeJoins
  <2> QED
    BY <2>1 DEF LineageInv, RoundsAreLong, NoRound, CyclesAreLong
<1> QED
  BY <1>1, <1>2, <1>3, PTL DEF LineageSpec

-----------------------------------------------------------------------------
(* The listings: rows in an order, and a walk through their pages.          *)

(* Rows have one order: no two are of one moment, or the ids tell.          *)
OneOrderOnly == listing = "logs" \/ \A r, q \in Ids : moment[r] = moment[q] => r = q

ComesBefore(r, q) == r # q /\ Precedes(r, q)
RowsAhead(r) == {q \in rows : ComesBefore(q, r)}
Rank(r) == Cardinality(RowsAhead(r))

WalkRecord == [at : {"idle", "count", "select", "counts", "answer", "enforce", "enforceFirst", "done"},
         limit : Nat \ {0}, offset : Nat, total : Nat, page : Seq(Ids), missing : SUBSET Ids,
         upset : BOOLEAN]

ListingsType ==
  /\ listing \in Listings
  /\ moment \in [Ids -> Nat]
  /\ rows \subseteq Ids
  /\ walk \in WalkRecord

(* Where a row is that the walk w has still to show: not yet on a page, and *)
(* then at least as many rows come before it as the walk has been offered.  *)
PagesFit(w) == \A r \in w.missing : Rank(r) >= w.offset
ShownBy(w) == {w.page[i] : i \in DOMAIN w.page}
PageFits(w) == \A r \in w.missing \ ShownBy(w) : Rank(r) >= w.offset + Len(w.page)
GoesOn(w) == IF listing = "deployments" THEN Len(w.page) = w.limit
                                      ELSE HasMore(w.offset, w.page, w.total)

WalkFits(w) ==
  /\ w.at \in {"count", "select", "counts", "answer"} => w.missing \subseteq rows
  /\ w.at \in {"count", "select"} => PagesFit(w)
  /\ w.at = "select" => w.total = Cardinality(rows) /\ listing # "deployments"
  /\ w.at \in {"counts", "answer"} => PageFits(w)
  /\ w.at = "counts" => listing = "policies"
  /\ w.at = "answer" => w.missing \subseteq ShownBy(w) \/ GoesOn(w)
  /\ w.at = "enforce" => w.missing \subseteq ShownBy(w)
  /\ w.at = "done" => w.missing = {}

ListingsInv == ListingsType /\ (OneOrderOnly /\ ~walk.upset => WalkFits(walk))

(* Two rows do not each come before the other.                              *)
LEMMA OneOrder ==
  ASSUME ListingsType, OneOrderOnly, NEW r \in Ids, NEW q \in Ids, ComesBefore(r, q)
  PROVE  ~ComesBefore(q, r)
<1>1. moment[r] \in Nat /\ moment[q] \in Nat /\ r \in Int /\ q \in Int
  BY ListingsAssumption DEF ListingsType, Ids
<1>2. r # q
  BY DEF ComesBefore
<1> QED
  BY <1>1, <1>2 DEF ComesBefore, Precedes, OneOrderOnly

(* There are only so many rows.                                             *)
LEMMA RowsAreFinite ==
  ASSUME ListingsType
  PROVE  IsFiniteSet(rows) /\ Cardinality(rows) \in Nat
<1>1. IsFiniteSet(Ids)
  BY ListingsAssumption, FS_Interval DEF Ids
<1> QED
  BY <1>1, FS_Subset, FS_CardinalityType DEF ListingsType

(* Fewer rows come before a row than there are.                             *)
LEMMA RankIsLess ==
  ASSUME ListingsType, NEW r \in rows
  PROVE  Rank(r) \in Nat /\ Rank(r) < Cardinality(rows)
<1>1. RowsAhead(r) \in SUBSET rows /\ r \notin RowsAhead(r)
  BY DEF RowsAhead, ComesBefore
<1>2. IsFiniteSet(rows) /\ Cardinality(rows) \in Nat
  BY RowsAreFinite
<1>3. /\ IsFiniteSet(RowsAhead(r)) /\ Cardinality(RowsAhead(r)) <= Cardinality(rows)
      /\ (Cardinality(rows) = Cardinality(RowsAhead(r)) => rows = RowsAhead(r))
  BY <1>1, <1>2, FS_Subset
<1>4. Cardinality(RowsAhead(r)) \in Nat
  BY <1>3, FS_CardinalityType
<1> QED
  BY <1>1, <1>2, <1>3, <1>4 DEF Rank

(* As rows arrive, no fewer come before a row.                              *)
LEMMA RankGrows ==
  ASSUME ListingsType, rows \subseteq rows', rows' \subseteq Ids, UNCHANGED <<listing, moment>>,
         NEW r \in rows
  PROVE  Rank(r)' \in Nat /\ Rank(r)' >= Rank(r)
<1>1. IsFiniteSet(rows')
  <2>1. IsFiniteSet(Ids) /\ rows' \in SUBSET Ids
    BY ListingsAssumption, FS_Interval DEF Ids
  <2> QED
    BY <2>1, FS_Subset
<1>2. RowsAhead(r) \subseteq RowsAhead(r)' /\ RowsAhead(r)' \in SUBSET (rows')
  BY DEF RowsAhead, ComesBefore, Precedes
<1>3. IsFiniteSet(RowsAhead(r)')
  BY <1>1, <1>2, FS_Subset
<1>4. Cardinality(RowsAhead(r)) <= Cardinality(RowsAhead(r)')
  BY <1>2, <1>3, FS_Subset
<1>5. Cardinality(RowsAhead(r)') \in Nat /\ Cardinality(RowsAhead(r)) \in Nat
  BY <1>2, <1>3, FS_Subset, FS_CardinalityType
<1> QED
  BY <1>4, <1>5 DEF Rank

(* A page of an ordered listing: a row that comes after all that have been  *)
(* offered is on it, or comes after it as well, and then the page is full.  *)
LEMMA PageOrBeyond ==
  ASSUME ListingsType, OneOrderOnly, NEW s \in Ordered, NEW r \in rows,
         NEW o \in Nat, NEW l \in Nat \ {0}, Rank(r) >= o
  PROVE  LET page == Slice(s, o, l)
         IN  /\ page \in Seq(Ids)
             /\ \/ \E i \in DOMAIN page : page[i] = r
                \/ Len(page) = l /\ Rank(r) >= o + Len(page)
<1>1. IsFiniteSet(rows) /\ rows \subseteq Ids
  BY RowsAreFinite DEF ListingsType
<1>2. PICK n \in Nat : n = Cardinality(rows)
  BY RowsAreFinite
<1>3. s \in [1..n -> rows] /\ \A i, j \in 1..n : i < j => s[i] # s[j] /\ ComesBefore(s[i], s[j])
  BY <1>2 DEF Ordered, ComesBefore
<1>4. PICK R : \A x, y \in rows : <<x, y>> \in R <=> ComesBefore(x, y)
  <2> DEFINE T == {p \in rows \X rows : ComesBefore(p[1], p[2])}
  <2>1. \A x, y \in rows : <<x, y>> \in T <=> ComesBefore(x, y)
    OBVIOUS
  <2> QED
    BY <2>1
<1>5. OneWay(R, rows)
  BY <1>1, <1>4, OneOrder DEF OneWay
<1>6. Follows(s, R)
  BY <1>3, <1>4 DEF Follows
<1>7. Len(s) = n /\ \A x \in rows : \E i \in 1..n : s[i] = x
  <2>1. Len(s) = n /\ IsInjective(s)
    BY <1>3, <1>6, FollowsOnce
  <2> QED
    BY <1>1, <1>2, <1>3, <2>1, InjectiveIsOnto
<1>8. PICK k \in 1..n : s[k] = r
  BY <1>7
<1>9. Rank(r) = k - 1
  <2>1. RowsAhead(r) = {x \in rows : <<x, s[k]>> \in R}
    BY <1>4, <1>8 DEF RowsAhead
  <2> QED
    BY <1>1, <1>2, <1>3, <1>5, <1>6, <2>1, SortedByRank DEF Rank
<1>a. PICK hi \in Nat : hi = IF o + l < n THEN o + l ELSE n
  OBVIOUS
<1>b. PICK page : page = SubSeq(s, o + 1, hi)
  OBVIOUS
<1>10. /\ page \in Seq(Ids) /\ Len(page) = IF o + 1 <= hi THEN hi - o ELSE 0
       /\ \A i \in 1..(hi - o) : page[i] = s[o + i]
  <2>1. \A i \in (o + 1)..hi : s[i] \in Ids
    BY <1>1, <1>3, <1>a
  <2>2. o + 1 \in Int /\ hi \in Int
    OBVIOUS
  <2>3. /\ page \in Seq(Ids) /\ Len(page) = IF o + 1 <= hi THEN hi - (o + 1) + 1 ELSE 0
        /\ \A i \in 1..(hi - (o + 1) + 1) : page[i] = s[(o + 1) + i - 1]
    BY <1>b, <2>1, <2>2, SubSeqProperties
  <2>4. hi - (o + 1) + 1 = hi - o /\ \A i \in 1..(hi - o) : (o + 1) + i - 1 = o + i
    BY <2>2
  <2> QED
    BY <2>3, <2>4
<1>11. Slice(s, o, l) = page
  BY <1>7, <1>a, <1>b DEF Slice
<1>12. k >= o + 1
  BY <1>9
<1>13. CASE k <= hi
  <2>1. k - o \in 1..(hi - o) /\ o + 1 <= hi /\ o + (k - o) = k
    BY <1>12, <1>13
  <2>2. page[k - o] = r /\ k - o \in DOMAIN page
    BY <1>8, <1>10, <2>1
  <2> QED
    BY <1>10, <1>11, <2>2
<1>14. CASE k > hi
  <2>1. hi = o + l /\ o + 1 <= hi
    BY <1>a, <1>14
  <2>2. Len(page) = l
    BY <1>10, <2>1
  <2>3. Rank(r) >= o + Len(page)
    BY <1>9, <1>14, <2>1, <2>2
  <2> QED
    BY <1>10, <1>11, <2>2, <2>3
<1> QED
  BY <1>13, <1>14

(* A page is a sequence of rows.                                            *)
LEMMA SliceType ==
  ASSUME ListingsType, NEW s \in Ordered, NEW o \in Nat, NEW l \in Nat
  PROVE  Slice(s, o, l) \in Seq(Ids)
<1>1. PICK n \in Nat : n = Cardinality(rows)
  BY RowsAreFinite
<1>2. s \in [1..n -> Ids] /\ Len(s) = n
  BY <1>1 DEF Ordered, ListingsType
<1>3. PICK hi \in Nat : hi <= n /\ Slice(s, o, l) = SubSeq(s, o + 1, hi)
  BY <1>2 DEF Slice
<1>4. \A i \in (o + 1)..hi : s[i] \in Ids
  BY <1>2, <1>3
<1>5. o + 1 \in Int /\ hi \in Int
  OBVIOUS
<1> QED
  BY <1>3, <1>4, <1>5, SubSeqProperties

(* A page of policies begins no later than the offset asked for.            *)
LEMMA PageBegins ==
  ASSUME NEW k \in Nat, NEW l \in Nat \ {0}
  PROVE  (k \div l) * l \in Nat /\ (k \div l) * l <= k
OBVIOUS

(* The walk moves and the rows stay.                                        *)
LEMMA WalkMoves ==
  ASSUME ListingsInv, NEW w \in WalkRecord, walk' = w, UNCHANGED <<listing, moment, rows>>,
         OneOrderOnly /\ ~w.upset => WalkFits(w)
  PROVE  ListingsInv'
<1>1. listing' = listing /\ moment' = moment /\ rows' = rows
  OBVIOUS
<1>2. \A r : RowsAhead(r)' = RowsAhead(r)
  BY <1>1 DEF RowsAhead, ComesBefore, Precedes
<1>3. \A r : Rank(r)' = Rank(r)
  BY <1>2 DEF Rank
<1>4. OneOrderOnly' = OneOrderOnly
  BY <1>1 DEF OneOrderOnly
<1>5. WalkFits(w) => WalkFits(w)'
  BY <1>1, <1>3 DEF WalkFits, PagesFit, PageFits, ShownBy, GoesOn, HasMore
<1>6. ListingsType'
  BY <1>1 DEF ListingsInv, ListingsType
<1>7. WalkFits(walk)' <=> WalkFits(w)'
  BY DEF WalkFits, PagesFit, PageFits, ShownBy, GoesOn, HasMore
<1> QED
  BY <1>4, <1>5, <1>6, <1>7 DEF ListingsInv

(* A row arrives: none comes before fewer, so the walk stays right, if it   *)
(* was not between its two statements.                                      *)
LEMMA RowsGrow ==
  ASSUME ListingsInv, NEW r \in Ids, RowArrives(r)
  PROVE  ListingsInv'
<1>1. /\ rows \subseteq rows' /\ rows' \subseteq Ids
      /\ UNCHANGED <<listing, moment>>
      /\ walk' = [walk EXCEPT !.upset = walk.upset \/ Between]
  BY DEF RowArrives, ListingsInv, ListingsType
<1>2. walk \in WalkRecord /\ ListingsType
  BY DEF ListingsInv, ListingsType
<1>3. PICK u \in BOOLEAN : u = (walk.upset \/ Between)
  OBVIOUS
<1>4. walk' = [walk EXCEPT !.upset = u]
  BY <1>1, <1>3
<1>5. /\ walk' \in WalkRecord /\ walk'.upset = u
      /\ walk'.at = walk.at /\ walk'.limit = walk.limit /\ walk'.offset = walk.offset
      /\ walk'.total = walk.total /\ walk'.page = walk.page /\ walk'.missing = walk.missing
  BY <1>2, <1>4 DEF WalkRecord
<1>6. ListingsType'
  BY <1>1, <1>2, <1>5 DEF ListingsType
<1>7. ASSUME OneOrderOnly', ~u PROVE WalkFits(walk)'
  <2>1. OneOrderOnly /\ ~walk.upset /\ walk.at # "select"
    BY <1>1, <1>3, <1>7 DEF OneOrderOnly, Between
  <2>2. WalkFits(walk)
    BY <2>1 DEF ListingsInv
  <2>3. \A q \in rows : Rank(q)' \in Nat /\ Rank(q)' >= Rank(q)
    BY <1>1, <1>2, RankGrows
  <2>4. \A q \in rows : Rank(q) \in Nat
    BY <1>2, RankIsLess
  <2>5. walk.offset \in Nat /\ Len(walk.page) \in Nat
    BY <1>2 DEF WalkRecord
  <2>6. ShownBy(walk)' = ShownBy(walk)
    BY <1>5 DEF ShownBy
  <2>7. GoesOn(walk)' = GoesOn(walk)
    BY <1>1, <1>5 DEF GoesOn, HasMore
  <2>8. walk.missing \subseteq rows /\ PagesFit(walk) => PagesFit(walk)'
    BY <1>5, <2>3, <2>4, <2>5 DEF PagesFit
  <2>9. walk.missing \subseteq rows /\ PageFits(walk) => PageFits(walk)'
    BY <1>5, <2>3, <2>4, <2>5, <2>6 DEF PageFits
  <2> QED
    BY <1>1, <1>5, <2>1, <2>2, <2>6, <2>7, <2>8, <2>9 DEF WalkFits
<1> QED
  BY <1>5, <1>6, <1>7 DEF ListingsInv

(* The page a SELECT answers.                                               *)
LEMMA PageSelected ==
  ASSUME ListingsInv, NEW from, NEW to, SelectRows(from, to),
         \/ from = "select" /\ to = "answer"
         \/ from = "count" /\ to = "counts" /\ listing = "policies"
         \/ from = "count" /\ to = "answer" /\ listing = "deployments"
  PROVE  ListingsInv'
<1>1. walk \in WalkRecord /\ ListingsType /\ rows \subseteq Ids
  BY DEF ListingsInv, ListingsType
<1>2. PICK s \in Ordered : walk' = [walk EXCEPT !.at = to,
                                      !.page = Slice(s, walk.offset, walk.limit)]
  BY DEF SelectRows
<1>3. walk.offset \in Nat /\ walk.limit \in Nat \ {0} /\ walk.missing \subseteq Ids
  BY <1>1 DEF WalkRecord
<1>4. PICK page : page = Slice(s, walk.offset, walk.limit)
  OBVIOUS
<1>5. page \in Seq(Ids)
  BY <1>1, <1>2, <1>3, <1>4, SliceType
<1>6. PICK w \in WalkRecord :
        /\ w = walk' /\ w.at = to /\ w.page = page /\ w.limit = walk.limit
        /\ w.offset = walk.offset /\ w.total = walk.total /\ w.missing = walk.missing
        /\ w.upset = walk.upset
  <2> DEFINE v == [walk EXCEPT !.at = to, !.page = page]
  <2>1. v \in WalkRecord
    BY <1>1, <1>5 DEF WalkRecord
  <2>2. /\ v.at = to /\ v.page = page /\ v.limit = walk.limit
        /\ v.offset = walk.offset /\ v.total = walk.total /\ v.missing = walk.missing
        /\ v.upset = walk.upset
    BY <1>1 DEF WalkRecord
  <2> QED
    BY <1>2, <1>4, <2>1, <2>2
<1>7. ASSUME OneOrderOnly, ~w.upset PROVE WalkFits(w)
  <2>1. WalkFits(walk)
    BY <1>6, <1>7 DEF ListingsInv
  <2>2. walk.at = from /\ w.missing \subseteq rows /\ PagesFit(walk)
    BY <1>6, <2>1 DEF SelectRows, WalkFits
  <2>3. ASSUME NEW r \in w.missing \ ShownBy(w)
        PROVE  Len(page) = w.limit /\ Rank(r) >= w.offset + Len(page)
    <3>1. r \in rows /\ Rank(r) >= walk.offset
      BY <1>6, <2>2 DEF PagesFit
    <3>2. ~(\E i \in DOMAIN page : page[i] = r)
      BY <1>6 DEF ShownBy
    <3> QED
      BY <1>1, <1>2, <1>3, <1>4, <1>6, <1>7, <3>1, <3>2, PageOrBeyond
  <2>4. PageFits(w)
    BY <1>6, <2>3 DEF PageFits
  <2>5. w.at = "answer" => w.missing \subseteq ShownBy(w) \/ GoesOn(w)
    <3>1. SUFFICES ASSUME w.at = "answer", NEW r \in w.missing \ ShownBy(w) PROVE GoesOn(w)
      OBVIOUS
    <3>2. Len(page) = w.limit /\ Rank(r) >= w.offset + Len(page) /\ r \in rows
      BY <2>2, <2>3
    <3>3. CASE listing = "deployments"
      BY <1>6, <3>2, <3>3 DEF GoesOn
    <3>4. CASE listing # "deployments"
      <4>1. w.total = Cardinality(rows)
        BY <1>6, <2>1, <2>2, <3>1, <3>4 DEF WalkFits
      <4>2. Rank(r) \in Nat /\ Rank(r) < Cardinality(rows) /\ Cardinality(rows) \in Nat
        BY <1>1, <3>2, RankIsLess, RowsAreFinite
      <4>3. Len(page) \in Nat
        BY <1>5
      <4> QED
        BY <1>3, <1>6, <3>2, <3>4, <4>1, <4>2, <4>3 DEF GoesOn, HasMore
    <3> QED
      BY <3>3, <3>4
  <2> QED
    BY <1>6, <2>2, <2>4, <2>5 DEF WalkFits
<1> QED
  BY <1>6, <1>7, WalkMoves DEF SelectRows

(* The client asks for the next page, or has seen all.                      *)
LEMMA AnswersFit ==
  ASSUME ListingsInv, AnswerPage
  PROVE  ListingsInv'
<1>1. walk \in WalkRecord /\ ListingsType
  BY DEF ListingsInv, ListingsType
<1>2. /\ walk.offset \in Nat /\ walk.limit \in Nat \ {0} /\ walk.page \in Seq(Ids)
      /\ Len(walk.page) \in Nat
  BY <1>1 DEF WalkRecord
<1>3. PICK next \in Nat : /\ next = OffsetOf(walk.limit, walk.offset + Len(walk.page))
                          /\ next <= walk.offset + Len(walk.page)
  <2>1. PICK k \in Nat, l \in Nat \ {0} : k = walk.offset + Len(walk.page) /\ l = walk.limit
    BY <1>2
  <2>2. (k \div l) * l \in Nat /\ (k \div l) * l <= k
    BY ONLY k \in Nat, l \in Nat \ {0}, PageBegins
  <2>3. OffsetOf(l, k) \in Nat /\ OffsetOf(l, k) <= k
    BY <2>2 DEF OffsetOf
  <2> QED
    BY <2>1, <2>3
<1>4. PICK left \in SUBSET Ids : left = walk.missing \ ShownBy(walk)
  BY <1>1 DEF WalkRecord
<1>5. OnPage = ShownBy(walk) /\ (More <=> GoesOn(walk))
  BY DEF OnPage, ShownBy, More, GoesOn
<1>6. PICK w \in WalkRecord :
        /\ w = walk' /\ w.missing = left /\ w.page = <<>> /\ w.upset = walk.upset
        /\ w.at = (IF More THEN "count" ELSE "done")
        /\ More => w.offset = next
  <2> DEFINE kept == [walk EXCEPT !.missing = left, !.page = <<>>, !.total = 0]
             v == IF More THEN [kept EXCEPT !.at = "count", !.offset = next]
                          ELSE [kept EXCEPT !.at = "done"]
  <2>1. walk' = v
    BY <1>3, <1>4, <1>5 DEF AnswerPage
  <2>2. <<>> \in Seq(Ids)
    OBVIOUS
  <2>3. PICK k \in WalkRecord : k = kept /\ k.missing = left /\ k.page = <<>> /\ k.upset = walk.upset
    <3>1. kept \in WalkRecord
      BY <1>1, <2>2 DEF WalkRecord
    <3>2. kept.missing = left /\ kept.page = <<>> /\ kept.upset = walk.upset
      BY <1>1 DEF WalkRecord
    <3> QED
      BY <3>1, <3>2
  <2>4. walk' = IF More THEN [k EXCEPT !.at = "count", !.offset = next]
                        ELSE [k EXCEPT !.at = "done"]
    BY <2>1, <2>3
  <2> HIDE DEF kept, v
  <2>5. CASE More
    <3>1. walk' = [k EXCEPT !.at = "count", !.offset = next]
      BY <2>4, <2>5
    <3>2. walk' \in WalkRecord
      BY <3>1 DEF WalkRecord
    <3>3. /\ walk'.missing = left /\ walk'.page = <<>> /\ walk'.upset = walk.upset
          /\ walk'.at = "count" /\ walk'.offset = next
      BY <2>3, <3>1 DEF WalkRecord
    <3> QED
      BY <2>5, <3>2, <3>3
  <2>6. CASE ~More
    <3>1. walk' = [k EXCEPT !.at = "done"]
      BY <2>4, <2>6
    <3>2. walk' \in WalkRecord
      BY <3>1 DEF WalkRecord
    <3>3. /\ walk'.missing = left /\ walk'.page = <<>> /\ walk'.upset = walk.upset
          /\ walk'.at = "done"
      BY <2>3, <3>1 DEF WalkRecord
    <3> QED
      BY <2>6, <3>2, <3>3
  <2> QED
    BY <2>5, <2>6
<1>7. ASSUME OneOrderOnly, ~w.upset PROVE WalkFits(w)
  <2>1. WalkFits(walk) /\ walk.at = "answer"
    BY <1>6, <1>7 DEF ListingsInv, AnswerPage
  <2>2. walk.missing \subseteq rows /\ PageFits(walk) /\ (walk.missing \subseteq ShownBy(walk) \/ GoesOn(walk))
    BY <2>1 DEF WalkFits
  <2>3. CASE More
    <3>1. ASSUME NEW r \in left PROVE Rank(r) >= next
      <4>1. r \in rows /\ Rank(r) >= walk.offset + Len(walk.page)
        BY <1>4, <2>2 DEF PageFits
      <4>2. Rank(r) \in Nat
        BY <1>1, <4>1, RankIsLess
      <4> QED
        BY <1>2, <1>3, <4>1, <4>2
    <3>2. PagesFit(w)
      BY <1>6, <2>3, <3>1 DEF PagesFit
    <3> QED
      BY <1>4, <1>6, <2>2, <2>3, <3>2 DEF WalkFits
  <2>4. CASE ~More
    <3>1. left = {}
      BY <1>4, <1>5, <2>2, <2>4
    <3> QED
      BY <1>6, <2>4, <3>1 DEF WalkFits
  <2> QED
    BY <2>3, <2>4
<1> QED
  BY <1>6, <1>7, WalkMoves DEF AnswerPage

(* The first statement counts what is there.                                *)
LEMMA CountsFit ==
  ASSUME ListingsInv, CountRows, listing # "deployments"
  PROVE  ListingsInv'
<1>1. walk \in WalkRecord /\ ListingsType /\ Cardinality(rows) \in Nat
  BY RowsAreFinite DEF ListingsInv, ListingsType
<1>2. PICK w \in WalkRecord :
        /\ w = walk' /\ w.at = "select" /\ w.total = Cardinality(rows) /\ w.missing = walk.missing
        /\ w.offset = walk.offset /\ w.upset = walk.upset
  <2>1. PICK n \in Nat : n = Cardinality(rows)
    BY <1>1
  <2>2. walk' = [walk EXCEPT !.at = "select", !.total = n]
    BY <2>1 DEF CountRows
  <2>3. walk' \in WalkRecord
    BY <1>1, <2>2 DEF WalkRecord
  <2>4. /\ walk'.at = "select" /\ walk'.total = n /\ walk'.missing = walk.missing
        /\ walk'.offset = walk.offset /\ walk'.upset = walk.upset
    BY <1>1, <2>2 DEF WalkRecord
  <2> QED
    BY <2>1, <2>3, <2>4
<1>3. OneOrderOnly /\ ~w.upset => WalkFits(w)
  BY <1>2 DEF ListingsInv, WalkFits, CountRows, PagesFit
<1> QED
  BY <1>2, <1>3, WalkMoves DEF CountRows

(* So does the COUNT that comes last: more rows than come before one left.  *)
LEMMA LastCountFits ==
  ASSUME ListingsInv, CountLast
  PROVE  ListingsInv'
<1>1. walk \in WalkRecord /\ ListingsType /\ Cardinality(rows) \in Nat
  BY RowsAreFinite DEF ListingsInv, ListingsType
<1>2. PICK w \in WalkRecord :
        /\ w = walk' /\ w.at = "answer" /\ w.total = Cardinality(rows) /\ w.missing = walk.missing
        /\ w.offset = walk.offset /\ w.upset = walk.upset /\ w.page = walk.page
  <2>1. PICK n \in Nat : n = Cardinality(rows)
    BY <1>1
  <2>2. walk' = [walk EXCEPT !.at = "answer", !.total = n]
    BY <2>1 DEF CountLast
  <2>3. walk' \in WalkRecord
    BY <1>1, <2>2 DEF WalkRecord
  <2>4. /\ walk'.at = "answer" /\ walk'.total = n /\ walk'.missing = walk.missing
        /\ walk'.offset = walk.offset /\ walk'.upset = walk.upset /\ walk'.page = walk.page
    BY <1>1, <2>2 DEF WalkRecord
  <2> QED
    BY <2>1, <2>3, <2>4
<1>3. ASSUME OneOrderOnly, ~w.upset PROVE WalkFits(w)
  <2>1. WalkFits(walk) /\ walk.at = "counts"
    BY <1>2, <1>3 DEF ListingsInv, CountLast
  <2>2. listing = "policies" /\ walk.missing \subseteq rows /\ PageFits(walk)
    BY <2>1 DEF WalkFits
  <2>3. ShownBy(w) = ShownBy(walk) /\ PageFits(w)
    BY <1>2, <2>2 DEF ShownBy, PageFits
  <2>4. ASSUME NEW r \in w.missing \ ShownBy(w) PROVE GoesOn(w)
    <3>1. r \in rows /\ Rank(r) >= w.offset + Len(w.page)
      BY <1>2, <2>2, <2>3 DEF PageFits
    <3>2. Rank(r) \in Nat /\ Rank(r) < Cardinality(rows)
      BY <1>1, <3>1, RankIsLess
    <3>3. w.offset \in Nat /\ Len(w.page) \in Nat
      BY DEF WalkRecord
    <3> QED
      BY <1>1, <1>2, <2>2, <3>1, <3>2, <3>3 DEF GoesOn, HasMore
  <2> QED
    BY <1>2, <2>2, <2>3, <2>4 DEF WalkFits
<1> QED
  BY <1>2, <1>3, WalkMoves DEF CountLast

(* A walk begins with all that is there.                                    *)
LEMMA WalkBegins ==
  ASSUME ListingsInv, BeginWalk \/ FailSearch
  PROVE  ListingsInv'
<1>1. ListingsType
  BY DEF ListingsInv
<1>2. CASE FailSearch
  <2>1. NoWalk \in WalkRecord
    BY DEF NoWalk, WalkRecord
  <2>2. WalkFits(NoWalk)
    BY DEF NoWalk, WalkFits
  <2> QED
    BY <1>2, <2>1, <2>2, WalkMoves DEF FailSearch
<1>3. CASE BeginWalk
  <2>1. PICK limit \in Limits :
          walk' = [NoWalk EXCEPT !.at = "count", !.limit = limit, !.missing = rows]
    BY <1>3 DEF BeginWalk
  <2>2. PICK k \in WalkRecord : k = NoWalk /\ k.offset = 0
    <3>1. NoWalk \in WalkRecord
      BY DEF NoWalk, WalkRecord
    <3>2. NoWalk.offset = 0
      BY DEF NoWalk
    <3> QED
      BY <3>1, <3>2
  <2>3. PICK w \in WalkRecord : w = walk' /\ w.at = "count" /\ w.offset = 0 /\ w.missing = rows
    <3>1. walk' = [k EXCEPT !.at = "count", !.limit = limit, !.missing = rows]
      BY <2>1, <2>2
    <3>2. limit \in Nat \ {0} /\ rows \in SUBSET Ids
      BY <1>1, ListingsAssumption DEF ListingsType
    <3>3. walk' \in WalkRecord
      BY <3>1, <3>2 DEF WalkRecord
    <3>4. walk'.at = "count" /\ walk'.offset = 0 /\ walk'.missing = rows
      BY <2>2, <3>1 DEF WalkRecord
    <3> QED
      BY <3>3, <3>4
  <2>4. \A r \in rows : Rank(r) >= 0
    BY <1>1, RankIsLess
  <2>5. WalkFits(w)
    BY <2>3, <2>4 DEF WalkFits, PagesFit
  <2> QED
    BY <1>3, <2>3, <2>5, WalkMoves DEF BeginWalk
<1> QED
  BY <1>2, <1>3

(* An enforcement looks at the page, one policy after the other.            *)
LEMMA EnforcementFits ==
  ASSUME ListingsInv, EnforceRetention \/ EnforcePolicy \/ EndEnforcement
  PROVE  ListingsInv'
<1>1. walk \in WalkRecord /\ walk.page \in Seq(Ids)
  BY DEF ListingsInv, ListingsType, WalkRecord
<1>2. CASE EnforceRetention
  <2>1. PICK a \in {"enforce", "enforceFirst"} :
          walk' = [walk EXCEPT !.at = a] /\ a = IF More THEN "enforceFirst" ELSE "enforce"
    BY <1>2 DEF EnforceRetention
  <2>2. PICK w \in WalkRecord : /\ w = walk' /\ w.at = a /\ w.missing = walk.missing
                          /\ w.page = walk.page /\ w.upset = walk.upset
    BY <1>1, <2>1 DEF WalkRecord
  <2>3. ASSUME OneOrderOnly, ~w.upset PROVE WalkFits(w)
    <3>1. WalkFits(walk) /\ walk.at = "answer"
      BY <1>2, <2>2, <2>3 DEF ListingsInv, EnforceRetention
    <3>2. walk.missing \subseteq ShownBy(walk) \/ GoesOn(walk)
      BY <3>1 DEF WalkFits
    <3>3. a = "enforce" => w.missing \subseteq ShownBy(w)
      BY <2>1, <2>2, <3>2 DEF ShownBy, More, GoesOn
    <3> QED
      BY <2>2, <3>3 DEF WalkFits
  <2> QED
    BY <1>2, <2>2, <2>3, WalkMoves DEF EnforceRetention
<1>3. CASE EnforcePolicy
  <2>1. PICK n \in Nat : n = Len(walk.page)
    BY <1>1
  <2>2. n > 0 /\ walk.page \in [1..n -> Ids]
    BY <1>1, <1>3, <2>1 DEF EnforcePolicy
  <2>3. PICK t \in Seq(Ids) : /\ t = Tail(walk.page) /\ Len(t) = n - 1
                              /\ \A i \in 1..(n - 1) : t[i] = walk.page[i + 1]
    <3>1. Tail(walk.page) \in Seq(Ids) /\ Len(Tail(walk.page)) = n - 1
      BY <1>1, <2>1, <2>2
    <3>2. \A i \in 1..(n - 1) : Tail(walk.page)[i] = walk.page[i + 1]
      BY <1>1, <2>1, <2>2
    <3> QED
      BY <3>1, <3>2
  <2>4. Head(walk.page) = walk.page[1]
    BY <1>1, <2>2
  <2>5. CASE walk' = [walk EXCEPT !.page = Tail(@), !.missing = @ \ {Head(walk.page)}]
    <3>1. PICK left \in SUBSET Ids : left = walk.missing \ {walk.page[1]}
      BY <1>1 DEF WalkRecord
    <3>2. walk' = [walk EXCEPT !.page = t, !.missing = left]
      BY <1>1, <2>3, <2>4, <2>5, <3>1 DEF WalkRecord
    <3>3. PICK w \in WalkRecord : /\ w = walk' /\ w.at = walk.at /\ w.missing = left
                            /\ w.page = t /\ w.upset = walk.upset
      <4>1. walk' \in WalkRecord
        BY <1>1, <3>2 DEF WalkRecord
      <4>2. /\ walk'.at = walk.at /\ walk'.missing = left
            /\ walk'.page = t /\ walk'.upset = walk.upset
        BY <1>1, <3>2 DEF WalkRecord
      <4> QED
        BY <4>1, <4>2
    <3>4. ASSUME OneOrderOnly, ~w.upset PROVE WalkFits(w)
      <4>1. WalkFits(walk) /\ walk.at \in {"enforce", "enforceFirst"}
        BY <1>3, <3>3, <3>4 DEF ListingsInv, EnforcePolicy
      <4>2. CASE walk.at = "enforce"
        <5>1. walk.missing \subseteq ShownBy(walk)
          BY <4>1, <4>2 DEF WalkFits
        <5>2. ASSUME NEW r \in left PROVE r \in ShownBy(w)
          <6>1. PICK i \in 1..n : walk.page[i] = r
            BY <1>1, <2>1, <3>1, <5>1 DEF ShownBy
          <6>2. i - 1 \in 1..(n - 1) /\ (i - 1) + 1 = i
            BY <3>1, <6>1
          <6>3. t[i - 1] = r
            BY <2>3, <6>1, <6>2
          <6>4. i - 1 \in DOMAIN t
            BY <2>3, <6>2
          <6> QED
            BY <3>3, <6>3, <6>4 DEF ShownBy
        <5> QED
          BY <3>3, <4>2, <5>2 DEF WalkFits
      <4>3. CASE walk.at = "enforceFirst"
        BY <3>3, <4>3 DEF WalkFits
      <4> QED
        BY <4>1, <4>2, <4>3
    <3> QED
      BY <1>3, <3>3, <3>4, WalkMoves DEF EnforcePolicy
  <2>6. CASE walk' = [walk EXCEPT !.page = Tail(@), !.upset = TRUE]
    <3>1. PICK w \in WalkRecord : w = walk' /\ w.upset
      <4>1. walk' = [walk EXCEPT !.page = t, !.upset = TRUE]
        BY <1>1, <2>3, <2>6 DEF WalkRecord
      <4>2. walk' \in WalkRecord
        BY <1>1, <4>1 DEF WalkRecord
      <4>3. walk'.upset
        BY <1>1, <4>1 DEF WalkRecord
      <4> QED
        BY <4>2, <4>3
    <3> QED
      BY <1>3, <3>1, WalkMoves DEF EnforcePolicy
  <2> QED
    BY <1>3, <2>5, <2>6 DEF EnforcePolicy
<1>4. CASE EndEnforcement
  <2>1. PICK w \in WalkRecord : /\ w = walk' /\ w.at = "done" /\ w.missing = walk.missing
                          /\ w.upset = walk.upset
    BY <1>1, <1>4 DEF EndEnforcement, WalkRecord
  <2>2. ASSUME OneOrderOnly, ~w.upset PROVE WalkFits(w)
    <3>1. walk.missing \subseteq ShownBy(walk)
      BY <1>4, <2>1, <2>2 DEF ListingsInv, WalkFits, EndEnforcement
    <3>2. ShownBy(walk) = {}
      BY <1>4 DEF EndEnforcement, ShownBy
    <3> QED
      BY <2>1, <3>1, <3>2 DEF WalkFits
  <2> QED
    BY <1>4, <2>1, <2>2, WalkMoves DEF EndEnforcement
<1> QED
  BY <1>2, <1>3, <1>4

(* A row that leaves upsets the walk.                                       *)
LEMMA RowLeaves ==
  ASSUME ListingsInv, NEW r \in Ids, Leave(r)
  PROVE  ListingsInv'
<1>1. walk \in WalkRecord /\ ListingsType
  BY DEF ListingsInv, ListingsType
<1>2. PICK u \in BOOLEAN : u = (walk.upset \/ walk.at # "idle")
  OBVIOUS
<1>3. walk' = [walk EXCEPT !.upset = u]
  BY <1>1, <1>2 DEF Leave, WalkRecord
<1>4. walk' \in WalkRecord /\ walk'.upset = u /\ walk'.at = walk.at
  BY <1>1, <1>3 DEF WalkRecord
<1>5. ListingsType'
  BY <1>1, <1>4 DEF ListingsType, Leave
<1>6. ~u => WalkFits(walk)'
  BY <1>2, <1>4 DEF WalkFits
<1> QED
  BY <1>4, <1>5, <1>6 DEF ListingsInv

(* No step makes the walk miss a row.                                       *)
LEMMA ListingsStep ==
  ASSUME ListingsInv, ListingsNext
  PROVE  ListingsInv'
<1>1. CASE AnswerPage
  BY <1>1, AnswersFit
<1>2. CASE BeginWalk \/ FailSearch
  BY <1>2, WalkBegins
<1>3. CASE EnforceRetention \/ EnforcePolicy \/ EndEnforcement
  BY <1>3, EnforcementFits
<1>4. CASE \E r \in Ids : RowArrives(r)
  BY <1>4, RowsGrow
<1>5. CASE \E r \in Ids : Leave(r)
  BY <1>5, RowLeaves
<1>6. CASE CountRows /\ listing # "deployments"
  BY <1>6, CountsFit
<1>7. CASE CountLast
  BY <1>7, LastCountFits
<1>8. CASE SelectRows("select", "answer")
  BY <1>8, PageSelected
<1>9. CASE SelectRows("count", "counts") /\ listing = "policies"
  BY <1>9, PageSelected
<1>10. CASE SelectRows("count", "answer") /\ listing = "deployments"
  BY <1>10, PageSelected
<1>11. CASE \E l \in Listings \ {"deployments"} : CountThenSelect(l)
  BY <1>6, <1>8, <1>11 DEF CountThenSelect
<1>12. CASE SearchPolicies
  BY <1>2, <1>6, <1>7, <1>8, <1>9, <1>12 DEF SearchPolicies
<1>13. CASE \/ ListEvidenceBundles \/ ListComplianceReports \/ ListDataSubjectRequests
            \/ ListDataRetentionPolicies \/ QueryAuditLogs \/ SearchEvaluationSuites
            \/ SearchEvaluationDatasets \/ GetEvaluationHistory
  BY <1>11, <1>13 DEF Listings, ListEvidenceBundles, ListComplianceReports,
     ListDataSubjectRequests, ListDataRetentionPolicies, QueryAuditLogs,
     SearchEvaluationSuites, SearchEvaluationDatasets, GetEvaluationHistory
<1>14. CASE GetDeployments
  BY <1>10, <1>14 DEF GetDeployments
<1>15. CASE \E r \in Ids : \/ PostRetentionPolicy(r) \/ CreateEvaluationDataset(r)
                           \/ ArriveElsewhere(r) \/ Leave(r)
  BY <1>4, <1>5, <1>15 DEF PostRetentionPolicy, CreateEvaluationDataset, ArriveElsewhere
<1> QED
  BY <1>1, <1>2, <1>3, <1>12, <1>13, <1>14, <1>15 DEF ListingsNext

(* Nor does a step of somebody else.                                        *)
LEMMA ListingsStutter ==
  ASSUME ListingsInv, UNCHANGED listingVars
  PROVE  ListingsInv'
<1>1. walk \in WalkRecord /\ UNCHANGED <<listing, moment, rows>> /\ walk' = walk
  BY DEF ListingsInv, ListingsType, listingVars
<1>2. OneOrderOnly /\ ~walk.upset => WalkFits(walk)
  BY DEF ListingsInv
<1> QED
  BY <1>1, <1>2, WalkMoves

(* Nobody walks at first.                                                   *)
LEMMA ListingsBegin ==
  ASSUME ListingsInit
  PROVE  ListingsInv
<1>1. NoWalk \in WalkRecord /\ WalkFits(NoWalk)
  BY DEF NoWalk, WalkRecord, WalkFits
<1>2. moment \in [Ids -> Nat] /\ rows \subseteq Ids /\ listing \in Listings /\ walk = NoWalk
  BY ListingsAssumption DEF ListingsInit
<1> QED
  BY <1>1, <1>2 DEF ListingsInv, ListingsType

(* NothingIsMissed: whatever rows arrive while a client walks through the   *)
(* pages of a listing, and whichever of the orders that ORDER BY allows the *)
(* database answers in, the walk misses none that was there when it began.  *)
THEOREM NothingIsMissed == ListingsSpec => []PagesMissNothing
<1>1. ListingsInit => ListingsInv
  BY ListingsBegin
<1>2. ListingsInv /\ [ListingsNext]_listingVars => ListingsInv'
  BY ListingsStep, ListingsStutter
<1>3. ListingsInv => PagesMissNothing
  BY DEF ListingsInv, WalkFits, PagesMissNothing, OneOrderOnly
<1> QED
  BY <1>1, <1>2, <1>3, PTL DEF ListingsSpec
=============================================================================
