-------------------------- MODULE WorkflowBuilder --------------------------
(***************************************************************************)
(* packages/core/engine/src/workflow.ts: a builder that is called in any   *)
(* order and goes on being used after it has built a workflow.             *)
(*                                                                         *)
(* Name, version, policies, metadata and variables are one setting: the    *)
(* builder replaces it and never changes it in place.                      *)
(***************************************************************************)
EXTENDS Integers, Sequences, SequencesExt

CONSTANTS
  BuilderNodes, Settings, DefaultSetting,
  Chains,        \* the calls of addChain(): sequences of nodes
  MaxNodes, MaxEdges, MaxBuilt    \* bounds

ASSUME ChainsAssumption == Chains \subseteq Seq(BuilderNodes)

VARIABLES
  builder,       \* [nodes, edges, counter, setting]
  built          \* the definitions handed out, in order

builderVars == <<builder, built>>

BuilderInit ==
  /\ builder = [nodes |-> <<>>, edges |-> <<>>, counter |-> 0, setting |-> DefaultSetting]
  /\ built = <<>>

Set(setting) == builder' = [builder EXCEPT !.setting = setting] /\ UNCHANGED built

\* Mutant: the last definition shares the builder's nodes.
AddNode_Shared(n) ==
  /\ Len(builder.nodes) < MaxNodes
  /\ builder' = [builder EXCEPT !.nodes = Append(@, n)]
  /\ built' = IF built = <<>> THEN built ELSE [built EXCEPT ![Len(built)].nodes = Append(@, n)]

\* addNode(), addStart(), addEnd(): an id may be added twice.
AddNode(n) ==
  /\ Len(builder.nodes) < MaxNodes
  /\ builder' = [builder EXCEPT !.nodes = Append(@, n)]
  /\ UNCHANGED built

Edge(k, source, target) == [id |-> k, source |-> source, target |-> target]

\* connect(): of nodes that may be added later, or never.
ConnectNodes(source, target) ==
  /\ Len(builder.edges) < MaxEdges
  /\ builder' = [builder EXCEPT !.edges = Append(@, Edge(builder.counter, source, target)), !.counter = @ + 1]
  /\ UNCHANGED built

ChainEdges(chain) == [i \in 1..(Len(chain) - 1) |-> Edge(builder.counter + i - 1, chain[i], chain[i + 1])]

AddChain(chain) ==
  /\ Len(builder.nodes) + Len(chain) <= MaxNodes /\ Len(builder.edges) + Len(chain) <= MaxEdges + 1
  /\ builder' = [builder EXCEPT !.nodes = @ \o chain, !.edges = @ \o ChainEdges(chain),
                                !.counter = @ + Len(ChainEdges(chain))]
  /\ UNCHANGED built

\* build() throws if there is no node.
Build ==
  /\ builder.nodes # <<>> /\ Len(built) < MaxBuilt
  /\ built' = Append(built, [nodes |-> builder.nodes, edges |-> builder.edges, setting |-> builder.setting])
  /\ UNCHANGED builder

BuilderNext ==
  \/ \E setting \in Settings : Set(setting)
  \/ \E n \in BuilderNodes : AddNode(n)
  \/ \E source, target \in BuilderNodes : ConnectNodes(source, target)
  \/ \E chain \in Chains : AddChain(chain)
  \/ Build

BuilderSpec == BuilderInit /\ [][BuilderNext]_builderVars

-----------------------------------------------------------------------------
(* Properties *)

\* Within a workflow edges are known by their ids, in whatever order chains and single edges were added.
EdgeIdsDistinct ==
  \A k \in DOMAIN built : \A i, j \in DOMAIN built[k].edges : built[k].edges[i].id = built[k].edges[j].id => i = j

\* A workflow that has been built stays as it is while its builder goes on, and what is built
\* next extends its nodes and edges.
BuiltStands ==
  [][\A k \in DOMAIN built :
       /\ built'[k] = built[k]
       /\ Len(built') > Len(built) =>
            IsPrefix(built[k].nodes, Last(built').nodes) /\ IsPrefix(built[k].edges, Last(built').edges)]_builderVars
=============================================================================
