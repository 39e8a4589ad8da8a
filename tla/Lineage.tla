------------------------------ MODULE Lineage ------------------------------
(***************************************************************************)
(* LineageService over lineage_nodes and lineage_edges.  A call tracks a   *)
(* subject (a dataset, a commit, a training run) of a version, inserts a   *)
(* node or an edge, or reads the graph around a version.  One action is    *)
(* one statement; an INSERT of an edge has two, what its triggers see and  *)
(* its commit.                                                             *)
(***************************************************************************)
EXTENDS Naturals, FiniteSets

CONSTANTS
  Versions,  \* model versions; the node of a version carries its id
  Subjects,  \* everything else that may be a node
  Kind,      \* Kind[s]: the type of node s
  Tracks,    \* calls that may overlap
  Reach,     \* depth up to which prevent_lineage_cycles follows edges: 10
  MaxRows,   \* bound: nodes
  MaxLinks   \* bound: edges

Things == Versions \cup Subjects
Relationships == {"derived_from", "trained_on", "based_on", "generated_by", "contains"}

ASSUME LineageAssumption ==
  /\ Versions \cap Subjects = {}
  /\ Kind \in [Things -> {"dataset", "model", "training_run", "commit", "artifact"}]
  /\ \A v \in Versions : Kind[v] = "model"
  /\ Reach \in Nat /\ MaxRows \in Nat /\ MaxLinks \in Nat

VARIABLES
  nodes,     \* nodes      : rows of lineage_nodes, <<thing, n>>: the n-th row of a thing
  links,     \* links      : rows of lineage_edges, <<source, target, relationship>>
  task,      \* task[c]    : where call c is, and what it was asked and has found
  overlapped \* overlapped : history: two inserts of edges overlapped

lineageVars == <<nodes, links, task, overlapped>>

Fresh == [at |-> "idle", rel |-> "trained_on", from |-> <<CHOOSE x \in Subjects : TRUE, 0>>,
          to |-> <<CHOOSE x \in Subjects : TRUE, 0>>]

LineageInit ==
  /\ nodes = {}
  /\ links = {}
  /\ task = [c \in Tracks |-> Fresh]
  /\ overlapped = FALSE

RowsOf(x) == {r \in nodes : r[1] = x}

(* UNIQUE(type, name, version) lets two rows with version NULL be equal *)
Unversioned(x) == Kind[x] \in {"commit", "training_run"}

(* from and to: a thing whose row is not known yet is the row <<thing, 0>> *)
Start(c, place, rel, x, y) ==
  /\ task' = [task EXCEPT ![c] = [Fresh EXCEPT !.at = place, !.rel = rel, !.from = x, !.to = y]]
  /\ UNCHANGED <<nodes, links, overlapped>>

Goto(c, place) == task' = [task EXCEPT ![c].at = place]
Answered(c) == task' = [task EXCEPT ![c] = Fresh]

-----------------------------------------------------------------------------
(* The routes: past validation and with a version of that number.          *)

TrackDataset(c, v, s) ==
  Kind[s] = "dataset" /\ Start(c, "find_subject", "trained_on", <<s, 0>>, <<v, 0>>)

TrackCommit(c, v, s) ==
  Kind[s] = "commit" /\ Start(c, "find_subject", "derived_from", <<s, 0>>, <<v, 0>>)

TrackTrainingRun(c, v, s) ==
  Kind[s] = "training_run" /\ Start(c, "find_subject", "generated_by", <<s, 0>>, <<v, 0>>)

(* validate_lineage_relationship *)
Allowed(rel, source, target) ==
  \/ rel = "trained_on" /\ source = "dataset" /\ target = "model"
  \/ rel = "derived_from" /\ source \in {"commit", "model", "artifact"} /\ target = "model"
  \/ rel = "based_on" /\ source = "model" /\ target = "model"
  \/ rel = "generated_by" /\ source = "training_run" /\ target = "model"
  \/ rel = "contains" /\ source = "model" /\ target = "artifact"

(* createNode and createEdge, which the service exports; an edge its types *)
(* forbid changes nothing and is left out                                  *)
AddNode(c, x) == Start(c, "insert_node", "contains", <<x, 0>>, <<x, 0>>)

AddEdge(c, source, target, rel) ==
  /\ source # target /\ Allowed(rel, Kind[source[1]], Kind[target[1]])
  /\ Start(c, "check_edge", rel, source, target)

-----------------------------------------------------------------------------
(* findNodeByNameAndVersion: the first of the rows it finds *)
FindSubject(c) ==
  LET s == task[c].from[1]
  IN  /\ task[c].at = "find_subject"
      /\ \/ RowsOf(s) = {} /\ Goto(c, "create_subject")
         \/ \E r \in RowsOf(s) :
              task' = [task EXCEPT ![c].from = r, ![c].at = "find_version"]
      /\ UNCHANGED <<nodes, links, overlapped>>

InsertNode(x) ==
  Cardinality(nodes) < MaxRows /\ nodes' = nodes \cup {<<x, Cardinality(RowsOf(x)) + 1>>}

(* createNode for the subject: a second row of a dataset is refused *)
CreateSubject(c) ==
  LET s == task[c].from[1]
  IN  /\ task[c].at = "create_subject"
      /\ IF RowsOf(s) = {} \/ Unversioned(s)
           THEN /\ InsertNode(s)
                /\ task' = [task EXCEPT ![c].from = <<s, Cardinality(RowsOf(s)) + 1>>,
                                        ![c].at = "find_version"]
           ELSE Answered(c) /\ UNCHANGED nodes
      /\ UNCHANGED <<links, overlapped>>

(* findNodeByMetadata.  Without a node the version is read, and then the   *)
(* model by version.modelId: the row has a model_id and no modelId, so the *)
(* model is never found.                                                   *)
FindVersion(c) ==
  LET v == task[c].to[1]
  IN  /\ task[c].at = "find_version"
      /\ IF RowsOf(v) = {}
           THEN Answered(c)
           ELSE \E r \in RowsOf(v) : task' = [task EXCEPT ![c].to = r, ![c].at = "check_edge"]
      /\ UNCHANGED <<nodes, links, overlapped>>

AddedNode(c) ==
  LET x == task[c].from[1]
  IN  /\ task[c].at = "insert_node"
      /\ IF RowsOf(x) = {} \/ Unversioned(x)
           THEN InsertNode(x) /\ Answered(c)
           ELSE Answered(c) /\ UNCHANGED nodes
      /\ UNCHANGED <<links, overlapped>>

-----------------------------------------------------------------------------
(* Edges. *)

After(S) == {e[2] : e \in {l \in links : l[1] \in S}}

(* mutant: the cycle check goes one edge less far *)
FollowedShort(target, depth) ==
  LET path[d \in 1..depth] == IF d = 1 THEN {target} ELSE After(path[d - 1])
  IN  UNION {path[d] : d \in 1..(depth - 1)}

(* lineage_path: the target at depth 1, its successors at depth 2, ... *)
Followed(target, depth) ==
  LET path[d \in 1..depth] == IF d = 1 THEN {target} ELSE After(path[d - 1])
  IN  UNION {path[d] : d \in 1..depth}

(* The triggers of an INSERT, over the edges committed when it began. *)
CheckEdge(c) ==
  LET t == task[c]
  IN  /\ t.at = "check_edge"
      /\ IF /\ t.from \in nodes /\ t.to \in nodes
            /\ Allowed(t.rel, Kind[t.from[1]], Kind[t.to[1]])
            /\ t.from \notin Followed(t.to, Reach)
           THEN Goto(c, "insert_edge")
           ELSE Answered(c)
      /\ UNCHANGED <<nodes, links, overlapped>>

(* Its commit, or 23505. *)
CommitEdge(c) ==
  LET edge == <<task[c].from, task[c].to, task[c].rel>>
  IN  /\ task[c].at = "insert_edge"
      /\ IF edge \in links
           THEN Answered(c) /\ UNCHANGED <<links, overlapped>>
           ELSE /\ Cardinality(links) < MaxLinks
                /\ links' = links \cup {edge}
                /\ overlapped' = (overlapped \/ \E d \in Tracks \ {c} : task[d].at = "insert_edge")
                /\ Answered(c)
      /\ UNCHANGED nodes

-----------------------------------------------------------------------------
(* getModelVersionLineage: without a node of the version it goes the way   *)
(* of FindVersion and fails; otherwise it is two SELECTs.                  *)
RequestGraph(c, v) == Start(c, "find_graph", "contains", <<v, 0>>, <<v, 0>>)

FindGraph(c) ==
  /\ task[c].at = "find_graph"
  /\ Answered(c)
  /\ UNCHANGED <<nodes, links, overlapped>>

TrackStep(c) ==
  \/ FindSubject(c) \/ CreateSubject(c) \/ FindVersion(c) \/ AddedNode(c)
  \/ CheckEdge(c) \/ CommitEdge(c) \/ FindGraph(c)

LineageRequest(c) ==
  \/ \E v \in Versions, s \in Subjects :
       TrackDataset(c, v, s) \/ TrackCommit(c, v, s) \/ TrackTrainingRun(c, v, s)
  \/ \E x \in Things : AddNode(c, x)
  \/ \E source, target \in nodes, rel \in Relationships : AddEdge(c, source, target, rel)
  \/ \E v \in Versions : RequestGraph(c, v)

LineageNext == \E c \in Tracks : (task[c].at = "idle" /\ LineageRequest(c)) \/ TrackStep(c)

LineageSpec == LineageInit /\ [][LineageNext]_lineageVars

-----------------------------------------------------------------------------
(* a way along n edges *)
Ways(n) == {w \in [0..n -> nodes] :
              \A i \in 1..n : \E e \in links : e[1] = w[i - 1] /\ e[2] = w[i]}

(* CyclesAreLong: as long as no two inserts of edges overlapped, a cycle   *)
(* has more edges than prevent_lineage_cycles follows.                     *)
CyclesAreLong == ~overlapped => \A n \in 1..Reach : \A w \in Ways(n) : w[0] # w[n]
=============================================================================
