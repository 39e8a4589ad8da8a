------------------------------- MODULE MCRecords -------------------------------
(***************************************************************************)
(* The components that keep rows of their own: catalog, lineage, versions  *)
(* and artifacts, suites, evidence, requests of data subjects, the rules   *)
(* of policies, and the listings.  They share no state, so each moves by   *)
(* itself: focus is the one that does, the others rest where they start.   *)
(***************************************************************************)
EXTENDS ModelCatalog, Lineage, VersionRecords, EvaluationSuites, EvidenceBundles,
        GdprCompliance, PolicyRules, Listings, TLC

CONSTANTS m1, m2, d1, k1, a1, n1, s1, s2, j1, j2, x1, c1, c2

VARIABLE focus

recordsVars == <<catalogVars, lineageVars, recordVars, suiteVars, bundleVars, gdprVars, ruleVars,
                listingVars>>

Focused(part, vars1, vars2, vars3, vars4, vars5, vars6, vars7) ==
  focus = part /\ UNCHANGED <<focus, vars1, vars2, vars3, vars4, vars5, vars6, vars7>>

AllInit ==
  /\ focus \in {"catalog", "lineage", "versions", "suites", "bundles", "subjects", "rules",
                "listings"}
  /\ known \in (IF focus = "versions" THEN SUBSET RecordModels ELSE {{}})
  /\ listed \in (IF focus = "subjects" THEN SUBSET Columns ELSE {{}})
  /\ value \in [Columns -> (IF focus = "subjects" THEN {"none", "plain"} ELSE {"none"})]
  /\ policy \in (IF focus = "rules" THEN Policies ELSE {CHOOSE p \in Policies : TRUE})
  /\ context \in (IF focus = "rules" THEN Contexts ELSE {CHOOSE c \in Contexts : TRUE})
  /\ listing \in (IF focus = "listings" THEN Listings ELSE {"logs"})
  /\ moment \in (IF focus = "listings" THEN Moments ELSE {CHOOSE f \in Moments : TRUE})
  /\ rows \in (IF focus = "listings" THEN SUBSET Ids ELSE {{}})
  /\ CatalogInit /\ LineageInit /\ RecordsInit /\ SuitesInit /\ BundlesInit /\ GdprInit /\ RulesInit
  /\ ListingsInit

AllNext ==
  \/ /\ Focused("catalog", lineageVars, recordVars, suiteVars, bundleVars, gdprVars, ruleVars,
             listingVars)
     /\ CatalogNext
  \/ /\ Focused("lineage", catalogVars, recordVars, suiteVars, bundleVars, gdprVars, ruleVars,
             listingVars)
     /\ LineageNext
  \/ /\ Focused("versions", catalogVars, lineageVars, suiteVars, bundleVars, gdprVars, ruleVars,
             listingVars)
     /\ RecordsNext
  \/ /\ Focused("suites", catalogVars, lineageVars, recordVars, bundleVars, gdprVars, ruleVars,
             listingVars)
     /\ SuitesNext
  \/ /\ Focused("bundles", catalogVars, lineageVars, recordVars, suiteVars, gdprVars, ruleVars,
             listingVars)
     /\ BundlesNext
  \/ /\ Focused("subjects", catalogVars, lineageVars, recordVars, suiteVars, bundleVars, ruleVars,
             listingVars)
     /\ GdprNext
  \/ /\ Focused("rules", catalogVars, lineageVars, recordVars, suiteVars, bundleVars, gdprVars,
             listingVars)
     /\ RulesNext
  \/ /\ Focused("listings", catalogVars, lineageVars, recordVars, suiteVars, bundleVars, gdprVars,
             ruleVars)
     /\ ListingsNext

AllSpec == AllInit /\ [][AllNext]_<<focus, recordsVars>>

-----------------------------------------------------------------------------
KindOf == [x \in Things |-> CASE x = d1 -> "dataset" [] x = k1 -> "commit"
                              [] x = a1 -> "training_run" [] OTHER -> "model"]

(* one metric, whose values are far apart or near *)
ThresholdSets == {[m \in {x1} |-> n] : n \in 0..1}
MeasuredSets == ThresholdSets \cup {[m \in {x1} |-> Unmeasured]}

(* Policies: one condition of every kind, field and operator, and sequences *)
(* of up to three that are met, unmet or malformed with every use of        *)
(* actions; contexts: one where little is known and one where more is.      *)
Cond(t, f, o, v) == [type |-> t, field |-> f, operator |-> o, value |-> v]
OneCondition ==
  {<<Cond(t, f, o, v)>> : t \in {"field", "metadata", "artifact", "evaluation"},
                          f \in {"score", "license", "count", "licenses"}, o \in Operators,
                          v \in {Num(0), Num(1), Word("a"), List({Word("a")})}}
SomeConditions ==
  UNION {[1..n -> {Cond("field", "score", "exists", Num(0)),
                   Cond("evaluation", "score", "greater_than", Num(0)),
                   Cond("model", "score", "exists", Num(0)),
                   Cond("field", "score", "like", Num(0))}] : n \in 1..3}
Act(t, b) == [type |-> t, blocking |-> b]
SomeActions == {<<>>, <<Act("block", TRUE)>>, <<Act("warn", TRUE)>>,
                <<Act("block", FALSE), Act("notify", FALSE)>>}
SomePolicies == [conditions : OneCondition, actions : {<<Act("block", TRUE)>>}]
                  \cup [conditions : SomeConditions, actions : SomeActions]
Nothing == [x \in {} |-> Null]
SomeContexts ==
  {[version |-> "score" :> Num(1), metadata |-> Nothing, artifacts |-> <<>>, evaluations |-> <<>>],
   [version |-> "license" :> Word("a"), metadata |-> "score" :> Num(0),
    artifacts |-> <<[license |-> Word("a"), score |-> Num(1)], [license |-> Null]>>,
    evaluations |-> <<"score" :> Num(1), "score" :> Num(0)>>]}

(* ids in the order of their times, out of it, and two rows of one moment *)
SomeMoments == {<<1, 2, 3>>, <<3, 1, 2>>, <<1, 1, 2>>}
=============================================================================
