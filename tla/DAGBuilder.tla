----------------------------- MODULE DAGBuilder -----------------------------
(***************************************************************************)
(* packages/core/engine/src/dag.ts: the functions that turn the nodes and  *)
(* edges of a workflow into an execution order, one loop iteration a step: *)
(* the depth-first search of detectCycles, the queue of topologicalSort    *)
(* and the levels of getParallelGroups.                                    *)
(*                                                                         *)
(* Nothing checks the edges a workflow comes with: they may repeat each    *)
(* other and name ids that no node has.  The orders in which a Map, a Set  *)
(* and an array are iterated are left open.                                *)
(***************************************************************************)
EXTENDS Naturals, FiniteSets, Sequences

CONSTANTS
  Nodes,   \* the ids of the workflow's nodes
  Unknown, \* ids an edge may name although no node has them
  Edges    \* the edges that can be given

VARIABLES
  edges,   \* the edges that are given
  source, target,
  op,      \* the function that runs
  visited, \* detectCycles: visited
  path,    \* detectCycles: the calls of dfs on the stack
  left,    \* detectCycles: left[n]: what the call for n has still to look at
  degree,  \* topologicalSort, getParallelGroups: inDegree
  ready,   \* topologicalSort, getParallelGroups: queue
  sorted,  \* topologicalSort: sorted
  groups,  \* getParallelGroups: groups
  answer   \* what the function returned, or "none"

graphVars  == <<edges, source, target>>
dfsVars  == <<visited, path, left>>
kahnVars == <<degree, ready, sorted, groups>>
dagVars     == <<graphVars, op, dfsVars, kahnVars, answer>>

AllIds == Nodes \cup Unknown

ASSUME GraphAssumption == IsFiniteSet(AllIds) /\ IsFiniteSet(Edges)

-----------------------------------------------------------------------------
(* build() *)

Into(n) == {e \in edges : target[e] = n}

\* Every edge counts, repeated ones and those from unknown ids too.
InDegree(n) == Cardinality(Into(n))

\* adjacencyList: a set, so a repeated edge is there once.
Adjacent(n) == IF n \in Nodes THEN {target[e] : e \in {d \in edges : source[d] = n}}
                              ELSE {}

\* The keys of inDegree.
Keys == Nodes \cup {target[e] : e \in edges}

Roots == {n \in Keys : InDegree(n) = 0}

-----------------------------------------------------------------------------
(* detectCycles() *)

Top == path[Len(path)]
OnPath == {path[i] : i \in 1..Len(path)}

\* The outer loop calls dfs for a node that is not yet visited.
CallRoot(n) ==
  /\ op = "detect" /\ answer = "none" /\ path = <<>>
  /\ n \in Nodes \ visited
  /\ visited' = visited \cup {n}
  /\ path' = Append(path, n)
  /\ left' = [left EXCEPT ![n] = Adjacent(n)]
  /\ UNCHANGED <<graphVars, op, kahnVars, answer>>

Searching == op = "detect" /\ answer = "none" /\ path # <<>>

CallNeighbor(n) ==
  /\ Searching
  /\ n \in left[Top] \ visited
  /\ visited' = visited \cup {n}
  /\ path' = Append(path, n)
  /\ left' = [left EXCEPT ![Top] = @ \ {n}, ![n] = Adjacent(n)]
  /\ UNCHANGED <<graphVars, op, kahnVars, answer>>

BackEdge(n) ==
  /\ Searching
  /\ n \in left[Top] \cap visited
  /\ n \in OnPath
  /\ answer' = "cyclic"
  /\ UNCHANGED <<graphVars, op, dfsVars, kahnVars>>

CrossEdge(n) ==
  /\ Searching
  /\ n \in left[Top] \cap visited
  /\ n \notin OnPath
  /\ left' = [left EXCEPT ![Top] = @ \ {n}]
  /\ UNCHANGED <<graphVars, op, visited, path, kahnVars, answer>>

Return ==
  /\ Searching
  /\ left[Top] = {}
  /\ path' = SubSeq(path, 1, Len(path) - 1)
  /\ UNCHANGED <<graphVars, op, visited, left, kahnVars, answer>>

EndDetect ==
  /\ op = "detect" /\ answer = "none" /\ path = <<>>
  /\ Nodes \subseteq visited
  /\ answer' = "acyclic"
  /\ UNCHANGED <<graphVars, op, dfsVars, kahnVars>>

-----------------------------------------------------------------------------
(* topologicalSort() *)

Shift(n) ==
  /\ op = "sort" /\ answer = "none" /\ n \in ready
  /\ sorted' = Append(sorted, n)
  /\ degree' = [m \in AllIds |-> IF m \in Adjacent(n) THEN degree[m] - 1 ELSE degree[m]]
  /\ ready' = (ready \ {n}) \cup {m \in Adjacent(n) : degree'[m] = 0}
  /\ UNCHANGED <<graphVars, op, dfsVars, groups, answer>>

EndSort ==
  /\ op = "sort" /\ answer = "none" /\ ready = {}
  /\ answer' = IF Len(sorted) # Cardinality(Nodes) THEN "thrown" ELSE "sorted"
  /\ UNCHANGED <<graphVars, op, dfsVars, kahnVars>>

-----------------------------------------------------------------------------
(* getParallelGroups() *)

\* How many nodes of the queue have an edge to n.
Arrivals(n) == Cardinality({m \in ready : n \in Adjacent(m)})

\* Mutant: the in-degree is compared before it is lowered.
NextLevel_BeforeDecrement ==
  /\ op = "groups" /\ answer = "none" /\ ready # {}
  /\ groups' = Append(groups, ready)
  /\ degree' = [n \in AllIds |-> degree[n] - Arrivals(n)]
  /\ ready' = {n \in Keys : Arrivals(n) > 0 /\ degree[n] = 0}
  /\ UNCHANGED <<graphVars, op, dfsVars, sorted, answer>>

NextLevel ==
  /\ op = "groups" /\ answer = "none" /\ ready # {}
  /\ groups' = Append(groups, ready)
  /\ degree' = [n \in AllIds |-> degree[n] - Arrivals(n)]
  /\ ready' = {n \in Keys : Arrivals(n) > 0 /\ degree'[n] = 0}
  /\ UNCHANGED <<graphVars, op, dfsVars, sorted, answer>>

EndGroups ==
  /\ op = "groups" /\ answer = "none" /\ ready = {}
  /\ answer' = "grouped"
  /\ UNCHANGED <<graphVars, op, dfsVars, kahnVars>>

-----------------------------------------------------------------------------
DagInit ==
  /\ edges \in SUBSET Edges
  /\ source \in [edges -> AllIds] /\ target \in [edges -> AllIds]
  /\ op \in {"detect", "sort", "groups"}
  /\ visited = {} /\ path = <<>> /\ left = [n \in AllIds |-> {}]
  /\ degree = [n \in AllIds |-> InDegree(n)]
  /\ ready = Roots
  /\ sorted = <<>> /\ groups = <<>>
  /\ answer = "none"

DagNext ==
  \/ \E n \in AllIds : \/ CallRoot(n) \/ CallNeighbor(n) \/ BackEdge(n)
                    \/ CrossEdge(n) \/ Shift(n)
  \/ Return \/ EndDetect \/ EndSort
  \/ NextLevel \/ EndGroups

DagSpec == DagInit /\ [][DagNext]_dagVars

-----------------------------------------------------------------------------
(* Properties *)

\* The workflow has a cycle: a set of nodes none of which is the last.
Cyclic == \E C \in SUBSET Nodes : /\ C # {}
                                  /\ \A m \in C : Adjacent(m) \cap C # {}

\* No edge is given twice and every edge joins two nodes.
Plain ==
  /\ \A e \in edges : source[e] \in Nodes /\ target[e] \in Nodes
  /\ \A d, e \in edges : source[d] = source[e] /\ target[d] = target[e] => d = e

Placed == UNION {groups[k] : k \in 1..Len(groups)}

\* Every variable has the shape the code gives it; in-degrees are not negative.
DagTypeOK ==
  /\ edges \subseteq Edges
  /\ source \in [edges -> AllIds] /\ target \in [edges -> AllIds]
  /\ op \in {"detect", "sort", "groups"}
  /\ visited \subseteq AllIds /\ path \in Seq(AllIds) /\ left \in [AllIds -> SUBSET AllIds]
  /\ degree \in [AllIds -> Nat] /\ ready \subseteq AllIds
  /\ sorted \in Seq(AllIds) /\ groups \in Seq(SUBSET AllIds)
  /\ answer \in {"none", "cyclic", "acyclic", "sorted", "thrown", "grouped"}

\* detectCycles answers exactly whether there is a cycle, whatever the edges.
DetectsCycles ==
  /\ answer = "cyclic" => Cyclic
  /\ answer = "acyclic" => ~Cyclic

\* topologicalSort never puts a node before one it depends on, or in twice.
SortRespectsEdges ==
  \A i \in 1..Len(sorted) :
    /\ \A s \in Nodes : sorted[i] \in Adjacent(s) => \E j \in 1..(i-1) : sorted[j] = s
    /\ \A j \in 1..(i-1) : sorted[j] # sorted[i]

\* A group of getParallelGroups depends only on the groups before it.
GroupsRespectEdges ==
  \A k \in 1..Len(groups) : \A n \in groups[k], s \in Nodes :
    n \in Adjacent(s) => \E j \in 1..(k-1) : s \in groups[j]

\* No id is in two groups, so no node is run twice.
GroupsDisjoint ==
  \A j, k \in 1..Len(groups) : j # k => groups[j] \cap groups[k] = {}

\* A node waits for no group longer than it must: it depends on the one before.
GroupsEarliest ==
  \A k \in 2..Len(groups) : \A n \in groups[k] : \E s \in groups[k-1] : n \in Adjacent(s)

\* With plain edges and no cycle nothing is dropped: every node is in a group,
\* and topologicalSort succeeds.
NothingDropped ==
  Plain /\ ~Cyclic => /\ answer = "grouped" => Placed = Nodes
                      /\ answer # "thrown"

\* The three functions answer correctly on every list of edges.
GraphAnswersCorrect ==
  DagTypeOK /\ DetectsCycles /\ SortRespectsEdges /\ GroupsRespectEdges /\ GroupsDisjoint /\ GroupsEarliest /\ NothingDropped
=============================================================================
