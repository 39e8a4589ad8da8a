---------------------------- MODULE PolicyRules ----------------------------
(***************************************************************************)
(* How the policy evaluation engine judges one policy: the conditions in   *)
(* order, each against a value taken from the version, its metadata, its   *)
(* artifacts or its latest evaluation, and the actions for every condition *)
(* that is not met.  Values are tagged: null, a number, a word or a list.  *)
(* When and for whom policies are judged is module PolicyEngine.           *)
(***************************************************************************)
EXTENDS Naturals, Sequences, FiniteSets

CONSTANTS
  Policies,   \* policies judged: a sequence of conditions, a sequence of actions
  Contexts    \* [version, metadata : values; artifacts, evaluations : sequences]

VARIABLES
  policy,     \* policy   : the policy being judged
  context,    \* context  : what buildEvaluationContext read
  index,      \* index    : the next condition
  overall,    \* overall  : overallStatus
  blocks,     \* blocks   : hasBlocking
  results     \* results  : the results so far, [status, blocking, of]

(* the conditions and the actions of a policy are sequences *)
ASSUME RulesAssumption ==
  \A p \in Policies : Len(p.conditions) \in Nat /\ DOMAIN p.conditions = 1..Len(p.conditions)

ruleVars == <<policy, context, index, overall, blocks, results>>

Null == [tag |-> "null", number |-> 0, word |-> "", list |-> {}]
Num(n) == [Null EXCEPT !.tag = "number", !.number = n]
Word(w) == [Null EXCEPT !.tag = "word", !.word = w]
List(s) == [Null EXCEPT !.tag = "list", !.list = s]

RulesInit ==
  /\ policy \in Policies
  /\ context \in Contexts
  /\ index = 1
  /\ overall = "pass"
  /\ blocks = FALSE
  /\ results = {}

-----------------------------------------------------------------------------
(* Values.  A path that leads nowhere is null.                             *)
GetFieldValue(data, field) == IF field \in DOMAIN data THEN data[field] ELSE Null
GetMetadataValue(version, field) == GetFieldValue(version.metadata, field)

GetArtifactValue(artifacts, field) ==
  CASE field = "count" -> Num(Len(artifacts))
    [] field = "licenses" -> List({artifacts[i].license : i \in DOMAIN artifacts} \ {Null})
    [] OTHER -> List({GetFieldValue(artifacts[i], field) : i \in DOMAIN artifacts} \ {Null})

(* the latest evaluation is the first *)
GetEvaluationValue(evaluations, field) ==
  IF evaluations = <<>> THEN Null ELSE GetFieldValue(evaluations[1], field)

KnownTypes == {"field", "metadata", "artifact", "evaluation"}
GetConditionValue(c) ==
  CASE c.type = "field" -> GetFieldValue(context.version, c.field)
    [] c.type = "metadata" -> GetMetadataValue(context, c.field)
    [] c.type = "artifact" -> GetArtifactValue(context.artifacts, c.field)
    [] c.type = "evaluation" -> GetEvaluationValue(context.evaluations, c.field)

(* String(x): a list reads as its elements, so that the empty list and     *)
(* [null] are the empty text and a list of one reads as what it holds.     *)
(* Words are of one letter and numbers of one digit; a list stands for the *)
(* set of its elements, and none for a list of lists.                      *)
Empty == Word("")
Text(x) ==
  IF x.tag # "list" THEN x
  ELSE IF x.list \subseteq {Null} THEN Empty
  ELSE IF Cardinality(x.list) = 1 THEN CHOOSE y \in x.list : TRUE
  ELSE x

(* Number(x): null and the empty text are 0, other words are not numbers *)
IsNumber(x) == Text(x).tag \in {"null", "number"} \/ Text(x) = Empty
Number(x) == IF Text(x).tag = "number" THEN Text(x).number ELSE 0
Length(x) == IF x.tag = "list" THEN Cardinality(x.list) ELSE IF x = Null THEN 4 ELSE 1

(* ===, and the comparison of includes: no list is another one *)
Same(a, e) == a.tag # "list" /\ a = e
Includes(list, e) == \E x \in list : Same(x, e)
(* the text of e occurs in that of a *)
TextIncludes(a, e) ==
  \/ Text(e) \in {Empty, Text(a)}
  \/ a.tag = "list" /\ \E x \in a.list \ {Null} : x = Text(e)

Operators ==
  {"equals", "not_equals", "greater_than", "less_than", "greater_than_or_equal",
   "less_than_or_equal", "contains", "not_contains", "exists", "not_exists", "in", "not_in",
   "matches_regex", "length_equals", "length_greater_than", "length_less_than"}

EvaluateOperator(operator, a, e) ==
  CASE operator = "equals" -> Same(a, e)
    [] operator = "not_equals" -> ~Same(a, e)
    [] operator = "greater_than" -> IsNumber(a) /\ IsNumber(e) /\ Number(a) > Number(e)
    [] operator = "less_than" -> IsNumber(a) /\ IsNumber(e) /\ Number(a) < Number(e)
    [] operator = "greater_than_or_equal" -> IsNumber(a) /\ IsNumber(e) /\ Number(a) >= Number(e)
    [] operator = "less_than_or_equal" -> IsNumber(a) /\ IsNumber(e) /\ Number(a) <= Number(e)
    [] operator = "contains" ->
         IF a.tag = "list" THEN Includes(a.list, e) ELSE TextIncludes(a, e)
    [] operator = "not_contains" ->
         IF a.tag = "list" THEN ~Includes(a.list, e) ELSE ~TextIncludes(a, e)
    [] operator = "exists" -> a # Null
    [] operator = "not_exists" -> a = Null
    [] operator = "in" -> e.tag = "list" /\ Includes(e.list, a)
    [] operator = "not_in" -> e.tag = "list" /\ ~Includes(e.list, a)
    [] operator = "matches_regex" -> TextIncludes(a, e)   \* a letter or a digit is its own pattern
    [] operator = "length_equals" -> IsNumber(e) /\ Length(a) = Number(e)
    [] operator = "length_greater_than" -> IsNumber(e) /\ Length(a) > Number(e)
    [] operator = "length_less_than" -> IsNumber(e) /\ Length(a) < Number(e)

(* evaluateCondition: a type or an operator nobody knows is an error *)
EvaluateCondition(c) ==
  IF c.type \notin KnownTypes \/ c.operator \notin Operators THEN "error"
  ELSE IF EvaluateOperator(c.operator, GetConditionValue(c), c.value) THEN "pass" ELSE "fail"

(* executeAction: notify and log go to the console *)
ActionStatus(action) == IF action.type \in {"warn", "notify", "log"} THEN "warning" ELSE "fail"
ExecuteAction(action) ==
  [status |-> ActionStatus(action), blocking |-> action.blocking, of |-> "action"]

-----------------------------------------------------------------------------
(* mutant: an error leaves the verdict of the conditions before it alone,  *)
(* and nothing is said of it when they passed                              *)
JudgeConditionLenient ==
  LET status == EvaluateCondition(policy.conditions[index])
      acted == IF status = "fail" THEN {ExecuteAction(policy.actions[j]) : j \in DOMAIN policy.actions}
               ELSE {}
  IN  /\ index <= Len(policy.conditions)
      /\ index' = index + 1
      /\ overall' = IF status = "fail" THEN "fail" ELSE overall
      /\ blocks' = (blocks \/ \E a \in acted : a.blocking)
      /\ results' = results \cup acted \cup {[status |-> status, blocking |-> FALSE, of |-> "condition"]}
      /\ UNCHANGED <<policy, context>>

(* executePolicy, one turn of its loop: the last failure or error decides  *)
JudgeCondition ==
  LET status == EvaluateCondition(policy.conditions[index])
      acted == IF status = "fail" THEN {ExecuteAction(policy.actions[j]) : j \in DOMAIN policy.actions}
               ELSE {}
  IN  /\ index <= Len(policy.conditions)
      /\ index' = index + 1
      /\ overall' = IF status \in {"fail", "error"} THEN status ELSE overall
      /\ blocks' = (blocks \/ \E a \in acted : a.blocking)
      /\ results' = results \cup acted \cup {[status |-> status, blocking |-> FALSE, of |-> "condition"]}
      /\ UNCHANGED <<policy, context>>

RulesNext == JudgeCondition
RulesSpec == RulesInit /\ [][RulesNext]_ruleVars

-----------------------------------------------------------------------------
(* What is made of a judged policy.  calculateEvaluationSummary: the       *)
(* counts of one policy.                                                   *)
CalculateEvaluationSummary(status, blocking) ==
  [passed |-> IF status = "pass" THEN 1 ELSE 0,
   failed |-> IF status = "fail" THEN 1 ELSE 0,
   blockingViolations |-> IF blocking /\ status = "fail" THEN 1 ELSE 0,
   overall |-> IF status \in {"fail", "warning"} THEN status ELSE "pass"]

(* evaluatePolicies: from what executePolicy returned *)
EvaluatePolicies == CalculateEvaluationSummary(overall, blocks)

(* hasBlockingViolations, checkPromotionBlocking: a stored row that blocks *)
(* and failed                                                              *)
HasBlockingViolations == \E r \in results : r.blocking /\ r.status = "fail"

(* determineOverallPolicyStatus: an error outweighs all *)
DetermineOverallPolicyStatus(list) ==
  IF \E r \in list : r.status = "error" THEN "error"
  ELSE IF \E r \in list : r.status = "fail" THEN "fail"
  ELSE IF \E r \in list : r.status = "warning" THEN "warning"
  ELSE "pass"

(* getEvaluationResults: the stored rows are grouped by the id of the      *)
(* evaluation and looked up by that of the policy, which is another one    *)
ResultsByPolicy == [id \in {"evaluation"} |-> results]
PolicyResults(id) == IF id \in DOMAIN ResultsByPolicy THEN ResultsByPolicy[id] ELSE {}
GetEvaluationResults ==
  CalculateEvaluationSummary(
    DetermineOverallPolicyStatus(PolicyResults("policy")),
    \E r \in PolicyResults("policy") : r.blocking /\ r.status = "fail")

Judged == index > Len(policy.conditions)
RuleStatuses == {EvaluateCondition(policy.conditions[i]) : i \in DOMAIN policy.conditions}

(* A policy passes exactly when each of its conditions is met, whatever    *)
(* their order; a stored row that blocks was reported as blocking, and     *)
(* what was reported so did not pass; without errors, and with blocking    *)
(* only on block actions, the summary of the request and the stored rows   *)
(* block together (executePolicy against evaluatePolicies and              *)
(* hasBlockingViolations).  The same evaluation read back by its id always *)
(* reports a pass, so that it says what the request said for a policy that *)
(* passed and for no other (getEvaluationResults).                         *)
GatesAgree ==
  Judged =>
    /\ (overall = "pass") = (RuleStatuses \subseteq {"pass"})
    /\ HasBlockingViolations => blocks
    /\ blocks => overall # "pass"
    /\ /\ "error" \notin RuleStatuses
       /\ \A j \in DOMAIN policy.actions :
            policy.actions[j].blocking => ActionStatus(policy.actions[j]) = "fail"
       => (EvaluatePolicies.blockingViolations = 1) = HasBlockingViolations
    /\ (GetEvaluationResults = EvaluatePolicies) = (RuleStatuses \subseteq {"pass"})
=============================================================================
