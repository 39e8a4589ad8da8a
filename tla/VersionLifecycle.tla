--------------------------- MODULE VersionLifecycle ---------------------------
(***************************************************************************)
(* The states of model versions: createVersion inserts a draft,            *)
(* updateVersionState is one UPDATE of the state column, and the trigger   *)
(* of migration 001 decides which moves it accepts.                        *)
(***************************************************************************)
EXTENDS Naturals

CONSTANTS
  Versions,  \* model versions
  Absent     \* the state of a version that has not been created

ASSUME AbsentAssumption ==
  Absent \notin {"draft", "submitted", "changes_requested", "approved_staging", "staging",
                 "approved_prod", "production", "deprecated", "retired"}

VARIABLES
  state,    \* state[v]   : model_versions.state
  mover,    \* mover[v]   : the role that wrote it, as the audit row records
  reached   \* reached[v] : states since the draft or the last request for changes

lifecycleVars == <<state, mover, reached>>

VersionState ==
  {"draft", "submitted", "changes_requested", "approved_staging", "staging",
   "approved_prod", "production", "deprecated", "retired"}

(* the roles that authenticate and requireAnyRole let through the PATCH route *)
Movers == {"MODEL_OWNER", "MRC", "SECURITY_ARCHITECT", "ADMIN"}

(* mutant: changes are deployed to staging without a new review *)
ValidTransitionsShortcut ==
  { <<"draft", "submitted">>,
    <<"submitted", "changes_requested">>,  <<"submitted", "approved_staging">>,
    <<"changes_requested", "submitted">>,  <<"changes_requested", "staging">>,
    <<"approved_staging", "staging">>,
    <<"staging", "approved_prod">>,        <<"staging", "changes_requested">>,
    <<"approved_prod", "production">>,
    <<"production", "deprecated">>,
    <<"deprecated", "retired">> }

(* valid_transitions of validate_version_state_transition *)
ValidTransitions ==
  { <<"draft", "submitted">>,
    <<"submitted", "changes_requested">>,  <<"submitted", "approved_staging">>,
    <<"changes_requested", "submitted">>,
    <<"approved_staging", "staging">>,
    <<"staging", "approved_prod">>,        <<"staging", "changes_requested">>,
    <<"approved_prod", "production">>,
    <<"production", "deprecated">>,
    <<"deprecated", "retired">> }

LifecycleInit ==
  /\ state = [v \in Versions |-> Absent]
  /\ mover = [v \in Versions |-> "MODEL_OWNER"]
  /\ reached = [v \in Versions |-> {}]

(* createVersion: the state column takes its default *)
CreateVersion(v) ==
  /\ state[v] = Absent
  /\ \E role \in {"MODEL_OWNER", "ADMIN"} : mover' = [mover EXCEPT ![v] = role]
  /\ state' = [state EXCEPT ![v] = "draft"]
  /\ UNCHANGED reached

(* The PATCH route and updateVersionState; a move the trigger refuses      *)
(* changes nothing.                                                        *)
UpdateVersionState(v, to, role) ==
  /\ <<state[v], to>> \in ValidTransitions
  /\ state' = [state EXCEPT ![v] = to]
  /\ mover' = [mover EXCEPT ![v] = role]
  /\ reached' = [reached EXCEPT ![v] = IF to = "changes_requested" THEN {} ELSE @ \cup {to}]

LifecycleNext ==
  \E v \in Versions :
    \/ CreateVersion(v)
    \/ \E to \in VersionState, role \in Movers : UpdateVersionState(v, to, role)

------------------------------------------------------------------------------
LifecycleType ==
  /\ state \in [Versions -> VersionState \cup {Absent}]
  /\ mover \in [Versions -> Movers]
  /\ reached \in [Versions -> SUBSET VersionState]

Review == {"submitted", "approved_staging", "staging", "approved_prod"}

(* Whoever writes which state in which order, a version in production has  *)
(* been submitted, approved, staged and approved again since it was last   *)
(* sent back for changes.                                                  *)
ProductionIsReviewed ==
  \A v \in Versions : state[v] = "production" => Review \subseteq reached[v]

(* model-management.md "APPROVED_STAGING | Approved for staging deployment *)
(* | MRC, Security" (authorizationService adds the administrator): no      *)
(* approval is written by a model owner.                                   *)
ApprovedByReviewers ==
  \A v \in Versions :
    state[v] \in {"approved_staging", "approved_prod"} =>
      mover[v] \in {"MRC", "SECURITY_ARCHITECT", "ADMIN"}
=============================================================================
