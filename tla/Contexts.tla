------------------------------ MODULE Contexts -----------------------------
(***************************************************************************)
(* packages/core/engine/src/context.ts: execution contexts, each with      *)
(* variables and node outputs of its own, and those of its ancestors in    *)
(* sight.  A parent goes on writing while its children run, and children   *)
(* are merged in any order, once or more.                                  *)
(***************************************************************************)
EXTENDS Integers, FiniteSets

CONSTANTS
  Contexts, Root,
  Variables, ContextNodes,
  Contents,      \* the values of variables and outputs
  Absent         \* no value, no context

ASSUME ContextAssumption == IsFiniteSet(Contexts) /\ Root \in Contexts /\ Absent \notin Contexts \cup Contents

VARIABLES
  ancestor,   \* ancestor[c]: the parent of c, the root itself for the root, Absent before c is created
  locals,     \* localVariables of each context
  outputs,    \* nodeOutputs of each context
  writer      \* history: the context of the last setVariable()

contextVars == <<ancestor, locals, outputs, writer>>

ContextInit ==
  /\ ancestor = [c \in Contexts |-> IF c = Root THEN Root ELSE Absent]
  /\ locals = [c \in Contexts |-> [x \in Variables |-> Absent]]
  /\ outputs = [c \in Contexts |-> [n \in ContextNodes |-> Absent]]
  /\ writer = Absent

Created == {c \in Contexts : ancestor[c] # Absent}

\* The scope k levels above c.
Above(c, k) ==
  LET up[i \in 0..Cardinality(Contexts)] == IF i = 0 THEN c ELSE ancestor[up[i - 1]] IN up[k]

Levels   == 0..Cardinality(Contexts)
Scopes(c) == {Above(c, k) : k \in Levels}

\* getVariable(), getNodeOutput(): the nearest scope that has x.
Seen(own, c, x) ==
  LET having == {k \in Levels : own[Above(c, k)][x] # Absent}
  IN IF having = {} THEN Absent ELSE own[Above(c, CHOOSE k \in having : \A j \in having : k <= j)][x]

\* createChildContext(), with initial variables of its own.
CreateChild(p, c, x, value) ==
  /\ p \in Created /\ c \notin Created
  /\ ancestor' = [ancestor EXCEPT ![c] = p]
  /\ locals' = [locals EXCEPT ![c][x] = value]
  /\ writer' = Absent
  /\ UNCHANGED outputs

SetVariable(c, x, value) ==
  /\ c \in Created
  /\ locals' = [locals EXCEPT ![c][x] = value]
  /\ writer' = c
  /\ UNCHANGED <<ancestor, outputs>>

SetNodeOutput(c, n, value) ==
  /\ c \in Created
  /\ outputs' = [outputs EXCEPT ![c][n] = value]
  /\ writer' = Absent
  /\ UNCHANGED <<ancestor, locals>>

\* Mutant: what the child did not do is lost to the parent.
MergeChild_Replaces(p, c) ==
  /\ p \in Created /\ c \in Created /\ p # c
  /\ outputs' = [outputs EXCEPT ![p] = outputs[c]]
  /\ writer' = Absent
  /\ UNCHANGED <<ancestor, locals>>

\* mergeChildOutputs(): the child's own outputs, and not what it merged nor its ancestors'.
MergeChild(p, c) ==
  /\ p \in Created /\ c \in Created /\ p # c
  /\ outputs' = [outputs EXCEPT ![p] = [n \in ContextNodes |-> IF outputs[c][n] # Absent THEN outputs[c][n] ELSE @[n]]]
  /\ writer' = Absent
  /\ UNCHANGED <<ancestor, locals>>

ContextNext ==
  \/ \E p, c \in Contexts, x \in Variables, value \in Contents \cup {Absent} : CreateChild(p, c, x, value)
  \/ \E c \in Contexts, x \in Variables, value \in Contents : SetVariable(c, x, value)
  \/ \E c \in Contexts, n \in ContextNodes, value \in Contents : SetNodeOutput(c, n, value)
  \/ \E p, c \in Contexts : MergeChild(p, c)

ContextSpec == ContextInit /\ [][ContextNext]_contextVars

-----------------------------------------------------------------------------
(* Properties *)

\* "child writes are isolated": what a context writes is seen by itself and its descendants, and by
\* no sibling and no ancestor, whoever else has a variable of that name.
WritesStayBelow ==
  [][\A d \in Created : writer' # Absent /\ writer' \notin Scopes(d)
       => \A x \in Variables : Seen(locals', d, x) = Seen(locals, d, x)]_contextVars

\* A context reads what it has written itself, whatever its ancestors write before or after.
OwnWritesRead ==
  \A c \in Created, x \in Variables : locals[c][x] # Absent => Seen(locals, c, x) = locals[c][x]

\* No node output in sight of a context ever gets out of its sight, however branches are merged.
OutputsStay ==
  [][\A c \in Created, n \in ContextNodes : Seen(outputs, c, n) # Absent => Seen(outputs', c, n) # Absent]_contextVars

\* Branches of a workflow do not disturb each other: each sees its own writes and those above it,
\* keeps the outputs it has seen, and nothing it writes leaks out.
ScopesKept == []OwnWritesRead /\ WritesStayBelow /\ OutputsStay
=============================================================================
