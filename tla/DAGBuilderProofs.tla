-------------------------- MODULE DAGBuilderProofs -------------------------
(***************************************************************************)
(* Proofs about DAGBuilder: the three functions of dag.ts answer correctly *)
(* on every finite list of edges, whichever way their sets are iterated.   *)
(***************************************************************************)
EXTENDS DAGBuilder, FunctionTheorems, FiniteSetTheorems, WellFoundedInduction, TLAPS

-----------------------------------------------------------------------------
(* The graph does not change *)

\* The shapes of the variables; that a degree is not negative is shown with the counting below.
Shape ==
  /\ edges \subseteq Edges
  /\ source \in [edges -> AllIds] /\ target \in [edges -> AllIds]
  /\ op \in {"detect", "sort", "groups"}
  /\ visited \subseteq AllIds /\ path \in Seq(AllIds) /\ left \in [AllIds -> SUBSET AllIds]
  /\ ready \subseteq AllIds
  /\ sorted \in Seq(AllIds) /\ groups \in Seq(SUBSET AllIds)
  /\ answer \in {"none", "cyclic", "acyclic", "sorted", "thrown", "grouped"}

LEMMA AdjacentType ==
  ASSUME Shape, NEW n \in AllIds
  PROVE  Adjacent(n) \subseteq AllIds /\ Adjacent(n) \subseteq Keys /\ (Adjacent(n) # {} => n \in Nodes)
BY DEF Shape, Adjacent, Keys

\* What the graph alone determines stays as it is.
LEMMA GraphStays ==
  ASSUME [DagNext]_dagVars
  PROVE  /\ UNCHANGED <<edges, source, target, op>>
         /\ \A n : Adjacent(n)' = Adjacent(n) /\ InDegree(n)' = InDegree(n)
         /\ Keys' = Keys /\ (Cyclic' <=> Cyclic) /\ (Plain' <=> Plain)
<1>1. UNCHANGED <<edges, source, target, op>>
  BY DEF DagNext, dagVars, graphVars, CallRoot, CallNeighbor, BackEdge, CrossEdge, Return, EndDetect, Shift, EndSort,
         NextLevel, EndGroups
<1>2. \A n : Adjacent(n)' = Adjacent(n) /\ InDegree(n)' = InDegree(n)
  BY <1>1 DEF Adjacent, InDegree, Into
<1>3. Keys' = Keys /\ (Plain' <=> Plain)
  BY <1>1 DEF Keys, Plain
<1>4. Cyclic' <=> Cyclic
  BY <1>2 DEF Cyclic
<1> QED BY <1>1, <1>2, <1>3, <1>4

LEMMA ShapeStep ==
  ASSUME Shape, [DagNext]_dagVars
  PROVE  Shape'
<1>1. ASSUME NEW n \in AllIds PROVE Adjacent(n) \subseteq AllIds
  BY AdjacentType
<1>2. ASSUME NEW n \in AllIds, CallRoot(n) PROVE Shape'
  BY <1>1, <1>2 DEF CallRoot, Shape, graphVars, kahnVars
<1>3. ASSUME Searching PROVE Top \in AllIds /\ Len(path) \in Nat \ {0}
  BY <1>3 DEF Searching, Top, Shape
<1>4. ASSUME NEW n \in AllIds, CallNeighbor(n) PROVE Shape'
  <2>1. Top \in AllIds /\ Adjacent(n) \subseteq AllIds /\ left \in [AllIds -> SUBSET AllIds]
    BY <1>1, <1>3, <1>4 DEF CallNeighbor, Shape
  <2>2. left' = [left EXCEPT ![Top] = left[Top] \ {n}, ![n] = Adjacent(n)]
    BY <1>4 DEF CallNeighbor
  <2>3. left' \in [AllIds -> SUBSET AllIds]
    <3> HIDE DEF Top
    <3> QED BY <2>1, <2>2
  <2>4. UNCHANGED <<edges, source, target, op, ready, sorted, groups, answer>>
    BY <1>4 DEF CallNeighbor, graphVars, kahnVars
  <2>5. visited' \subseteq AllIds /\ path' \in Seq(AllIds)
    BY <1>4 DEF CallNeighbor, Shape
  <2> QED BY <2>3, <2>4, <2>5 DEF Shape
<1>5. ASSUME NEW n \in AllIds, BackEdge(n) PROVE Shape'
  BY <1>5 DEF BackEdge, Shape, graphVars, dfsVars, kahnVars
<1>6. ASSUME NEW n \in AllIds, CrossEdge(n) PROVE Shape'
  BY <1>3, <1>6 DEF CrossEdge, Shape, graphVars, kahnVars
<1>7. CASE Return
  <2>1. SubSeq(path, 1, Len(path) - 1) \in Seq(AllIds)
    BY <1>3, <1>7 DEF Return, Shape
  <2> QED BY <1>7, <2>1 DEF Return, Shape, graphVars, kahnVars
<1>8. CASE EndDetect \/ EndSort \/ EndGroups
  BY <1>8 DEF EndDetect, EndSort, EndGroups, Shape, graphVars, dfsVars, kahnVars
<1>9. ASSUME NEW n \in AllIds, Shift(n) PROVE Shape'
  BY <1>1, <1>9 DEF Shift, Shape, graphVars, dfsVars
<1>10. CASE NextLevel
  <2>1. Keys \subseteq AllIds
    BY DEF Keys, Shape, AllIds
  <2> QED BY <1>10, <2>1 DEF NextLevel, Shape, graphVars, dfsVars
<1>11. CASE UNCHANGED dagVars
  BY <1>11 DEF Shape, dagVars, graphVars, dfsVars, kahnVars
<1> QED BY <1>2, <1>4, <1>5, <1>6, <1>7, <1>8, <1>9, <1>10, <1>11 DEF DagNext

-----------------------------------------------------------------------------
(* detectCycles() *)

\* What dfs has returned from.
Finished == visited \ OnPath

\* The calls on the stack are of different nodes, each a neighbor of the one before.
PathInv ==
  /\ OnPath \subseteq visited
  /\ \A i, j \in 1..Len(path) : path[i] = path[j] => i = j
  /\ \A i \in 1..Len(path) - 1 : path[i + 1] \in Adjacent(path[i])
  /\ \A n \in OnPath : left[n] \subseteq Adjacent(n)

\* What a call no longer looks at is finished, but for the call above it; and
\* what is finished leads only to what is finished.
SeenInv ==
  /\ \A n \in Finished : Adjacent(n) \subseteq Finished
  /\ \A i \in 1..Len(path) : \A m \in Adjacent(path[i]) \ left[path[i]] :
       m \in Finished \/ (i < Len(path) /\ m = path[i + 1])

\* No cycle is among the finished nodes.
NoCycleFinished ==
  \A C \in SUBSET (Finished \cap Nodes) : C # {} => \E m \in C : Adjacent(m) \cap C = {}

DetectInv == PathInv /\ SeenInv /\ NoCycleFinished /\ DetectsCycles

LEMMA DetectInit ==
  ASSUME DagInit
  PROVE  DetectInv
<1>1. path = <<>> /\ visited = {} /\ answer = "none"
  BY DEF DagInit
<1>2. OnPath = {} /\ Len(path) = 0 /\ Finished = {}
  BY <1>1 DEF OnPath, Finished
<1> QED BY <1>1, <1>2 DEF DetectInv, PathInv, SeenInv, NoCycleFinished, DetectsCycles

\* What a sequence holds after an element is appended.
LEMMA Appended ==
  ASSUME NEW S, NEW s \in Seq(S), NEW x \in S, NEW t, t = Append(s, x)
  PROVE  /\ Len(t) = Len(s) + 1 /\ Len(s) \in Nat
         /\ t[Len(s) + 1] = x
         /\ \A i \in 1..Len(s) : t[i] = s[i]
         /\ {t[i] : i \in 1..Len(t)} = {s[i] : i \in 1..Len(s)} \cup {x}
<1>1. Len(t) = Len(s) + 1 /\ Len(s) \in Nat /\ t[Len(s) + 1] = x /\ \A i \in 1..Len(s) : t[i] = s[i]
  OBVIOUS
<1>2. 1..Len(t) = 1..Len(s) \cup {Len(s) + 1}
  BY <1>1
<1> QED BY <1>1, <1>2

\* A call of dfs for a node n not seen before, which leaves left as it was but
\* that the call above it is done with n.
LEMMA PushKeeps ==
  ASSUME Shape, PathInv, SeenInv, [DagNext]_dagVars,
         NEW n \in AllIds, n \notin visited,
         visited' = visited \cup {n}, path' = Append(path, n),
         left'[n] = Adjacent(n),
         \A i \in 1..Len(path) : /\ left'[path[i]] \subseteq left[path[i]]
                                 /\ \A m \in left[path[i]] \ left'[path[i]] : i = Len(path) /\ m = n,
         path # <<>> => n \in Adjacent(path[Len(path)])
  PROVE  PathInv' /\ SeenInv' /\ Finished' = Finished
<1>1. /\ Len(path') = Len(path) + 1 /\ Len(path) \in Nat
      /\ path'[Len(path) + 1] = n
      /\ \A i \in 1..Len(path) : path'[i] = path[i]
      /\ OnPath' = OnPath \cup {n}
  BY Appended DEF Shape, OnPath
<1>2. OnPath \subseteq visited /\ n \notin OnPath
  BY DEF PathInv
<1>3. Finished' = Finished
  BY <1>1, <1>2 DEF Finished
<1>4. \A m : Adjacent(m)' = Adjacent(m)
  BY GraphStays
<1>5. Len(path) > 0 => path # <<>>
  BY DEF Shape
<1>6. ASSUME NEW i \in 1..Len(path) PROVE path[i] \in OnPath
  BY DEF OnPath
<1>7. PathInv'
  <2>1. OnPath' \subseteq visited'
    BY <1>1, <1>2
  <2>2. ASSUME NEW i \in 1..Len(path'), NEW j \in 1..Len(path'), path'[i] = path'[j] PROVE i = j
    <3>1. i \in 1..Len(path) \/ i = Len(path) + 1
      BY <1>1
    <3>2. j \in 1..Len(path) \/ j = Len(path) + 1
      BY <1>1
    <3> QED BY <1>1, <1>2, <1>6, <2>2, <3>1, <3>2 DEF PathInv
  <2>3. ASSUME NEW i \in 1..Len(path') - 1 PROVE path'[i + 1] \in Adjacent(path'[i])
    <3>1. CASE i = Len(path)
      BY <1>1, <1>5, <3>1
    <3>2. CASE i \in 1..Len(path) - 1
      <4>1. path[i + 1] \in Adjacent(path[i])
        BY <3>2 DEF PathInv
      <4>2. i \in 1..Len(path) /\ i + 1 \in 1..Len(path)
        BY <1>1, <3>2
      <4> QED BY <1>1, <4>1, <4>2
    <3> QED BY <1>1, <3>1, <3>2
  <2>4. ASSUME NEW m \in OnPath' PROVE left'[m] \subseteq Adjacent(m)
    <3>1. CASE m = n
      BY <3>1
    <3>2. CASE m \in OnPath
      <4>1. PICK i \in 1..Len(path) : m = path[i]
        BY <3>2 DEF OnPath
      <4> QED BY <3>2, <4>1 DEF PathInv
    <3> QED BY <1>1, <3>1, <3>2
  <2> QED BY <1>4, <2>1, <2>2, <2>3, <2>4 DEF PathInv
<1>8. SeenInv'
  <2>1. \A m \in Finished : Adjacent(m) \subseteq Finished
    BY DEF SeenInv
  <2>2. ASSUME NEW i \in 1..Len(path'), NEW m \in Adjacent(path'[i]) \ left'[path'[i]]
        PROVE  m \in Finished \/ (i < Len(path') /\ m = path'[i + 1])
    <3>1. CASE i = Len(path) + 1
      BY <1>1, <3>1
    <3>2. CASE i \in 1..Len(path)
      <4>1. path'[i] = path[i]
        BY <1>1, <3>2
      <4>2. CASE m \in left[path[i]]
        BY <1>1, <3>2, <4>1, <4>2
      <4>3. CASE m \notin left[path[i]]
        <5>1. m \in Finished \/ (i < Len(path) /\ m = path[i + 1])
          BY <3>2, <4>1, <4>3 DEF SeenInv
        <5>2. i < Len(path) => i + 1 \in 1..Len(path)
          BY <1>1, <3>2
        <5> QED BY <1>1, <3>2, <5>1, <5>2
      <4> QED BY <4>2, <4>3
    <3> QED BY <1>1, <3>1, <3>2
  <2> QED BY <1>3, <1>4, <2>1, <2>2 DEF SeenInv
<1> QED BY <1>3, <1>7, <1>8

LEMMA CrossKeeps ==
  ASSUME Shape, DetectInv, [DagNext]_dagVars, NEW n \in AllIds, CrossEdge(n)
  PROVE  DetectInv'
<1>1. /\ Searching /\ n \in left[Top] /\ n \in Finished
      /\ left' = [left EXCEPT ![Top] = left[Top] \ {n}]
      /\ UNCHANGED <<visited, path, answer>>
  BY DEF CrossEdge, Finished
<1>2. OnPath' = OnPath /\ Finished' = Finished
  BY <1>1 DEF OnPath, Finished
<1>3. /\ \A m : Adjacent(m)' = Adjacent(m)
      /\ Cyclic' <=> Cyclic
  BY GraphStays
<1>4. OnPath \subseteq AllIds /\ left \in [AllIds -> SUBSET AllIds]
  BY DEF Shape, OnPath
<1>5. \A m \in OnPath : left'[m] \subseteq left[m] /\ left[m] \ left'[m] \subseteq {n}
  <2> HIDE DEF Top
  <2> QED BY <1>1, <1>4
<1>6. PathInv'
  BY <1>1, <1>2, <1>3, <1>5 DEF DetectInv, PathInv
<1>7. SeenInv'
  <2>1. ASSUME NEW i \in 1..Len(path), NEW m \in Adjacent(path[i]) \ left'[path[i]]
        PROVE  m \in Finished \/ (i < Len(path) /\ m = path[i + 1])
    <3>1. path[i] \in OnPath
      BY DEF OnPath
    <3>2. m \notin left[path[i]] \/ m = n
      BY <1>5, <3>1
    <3> QED BY <1>1, <3>2 DEF DetectInv, SeenInv
  <2> QED BY <1>1, <1>2, <1>3, <2>1 DEF DetectInv, SeenInv
<1>8. NoCycleFinished' /\ DetectsCycles'
  BY <1>1, <1>2, <1>3 DEF DetectInv, NoCycleFinished, DetectsCycles
<1> QED BY <1>6, <1>7, <1>8 DEF DetectInv

\* The path from the node the back edge leads to is a cycle.
LEMMA BackEdgeIsCycle ==
  ASSUME Shape, PathInv, NEW n \in AllIds, BackEdge(n)
  PROVE  Cyclic
<1>1. /\ path # <<>> /\ n \in left[Top] /\ n \in OnPath
      /\ path \in Seq(AllIds) /\ Len(path) \in Nat
  BY DEF BackEdge, Searching, Shape
<1>2. PICK k \in 1..Len(path) : n = path[k]
  BY <1>1 DEF OnPath
<1>3. Top \in OnPath /\ n \in Adjacent(Top)
  BY <1>1 DEF Top, OnPath, PathInv
<1> DEFINE C == {path[i] : i \in k..Len(path)}
<1>4. ASSUME NEW i \in k..Len(path) PROVE Adjacent(path[i]) \cap C # {} /\ path[i] \in Nodes
  <2>1. path[i] \in AllIds
    BY <1>1, <1>2
  <2>2. CASE i = Len(path)
    <3>1. n \in C
      BY <1>1, <1>2
    <3> QED BY <1>3, <2>1, <2>2, <3>1, AdjacentType DEF Top
  <2>3. CASE i < Len(path)
    <3>1. i \in 1..Len(path) - 1 /\ i + 1 \in k..Len(path)
      BY <1>1, <1>2, <2>3
    <3>2. path[i + 1] \in Adjacent(path[i]) /\ path[i + 1] \in C
      BY <3>1 DEF PathInv
    <3> QED BY <2>1, <3>2, AdjacentType
  <2> QED BY <1>1, <1>2, <2>2, <2>3
<1>5. C # {} /\ C \in SUBSET Nodes /\ \A m \in C : Adjacent(m) \cap C # {}
  <2>1. path[k] \in C
    BY <1>1, <1>2
  <2> QED BY <1>4, <2>1
<1> QED BY <1>5 DEF Cyclic

\* The stack after a call has returned.
LEMMA Popped ==
  ASSUME Shape, PathInv, Return
  PROVE  /\ Len(path') = Len(path) - 1 /\ Len(path) \in Nat \ {0}
         /\ \A i \in 1..Len(path) - 1 : path'[i] = path[i]
         /\ Top \in OnPath /\ OnPath' = OnPath \ {Top}
<1>1. path \in Seq(AllIds) /\ path # <<>> /\ path' = SubSeq(path, 1, Len(path) - 1)
  BY DEF Shape, Return, Searching
<1>2. Len(path) \in Nat \ {0} /\ Len(path') = Len(path) - 1 /\ \A i \in 1..Len(path) - 1 : path'[i] = path[i]
  <2> DEFINE k == Len(path) - 1
  <2>1. Len(path) \in Nat \ {0} /\ k \in 0..Len(path)
    BY <1>1
  <2>2. path' = SubSeq(path, 1, k)
    BY <1>1
  <2> HIDE DEF k
  <2>3. Len(path') = k /\ \A i \in 1..k : path'[i] = path[i]
    BY <1>1, <2>1, <2>2
  <2> QED BY <2>1, <2>3 DEF k
<1>3. Top \in OnPath
  BY <1>2 DEF Top, OnPath
<1>4. OnPath' = {path[i] : i \in 1..Len(path) - 1}
  BY <1>2 DEF OnPath
<1>5. OnPath' \subseteq OnPath \ {Top}
  <2> SUFFICES ASSUME NEW i \in 1..Len(path) - 1 PROVE path[i] \in OnPath \ {Top}
    BY <1>4
  <2>1. i \in 1..Len(path) /\ Len(path) \in 1..Len(path) /\ i # Len(path)
    BY <1>2
  <2>2. path[i] # path[Len(path)]
    BY <2>1 DEF PathInv
  <2> QED BY <2>1, <2>2 DEF OnPath, Top
<1>6. OnPath \ {Top} \subseteq OnPath'
  <2> SUFFICES ASSUME NEW i \in 1..Len(path), path[i] # Top PROVE path[i] \in OnPath'
    BY DEF OnPath
  <2>1. i \in 1..Len(path) - 1
    BY <1>2 DEF Top
  <2> QED BY <1>4, <2>1
<1> QED BY <1>2, <1>3, <1>5, <1>6

LEMMA ReturnKeeps ==
  ASSUME Shape, DetectInv, [DagNext]_dagVars, Return
  PROVE  DetectInv'
<1>1. left[Top] = {} /\ UNCHANGED <<visited, left, answer>>
  BY DEF Return
<1>2. /\ Len(path') = Len(path) - 1 /\ Len(path) \in Nat \ {0}
      /\ \A i \in 1..Len(path) - 1 : path'[i] = path[i]
      /\ Top \in OnPath /\ OnPath' = OnPath \ {Top}
  BY Popped DEF DetectInv
<1>3. Top \in visited /\ Top \notin Finished /\ Finished' = Finished \cup {Top}
  BY <1>1, <1>2 DEF DetectInv, PathInv, Finished
<1>4. (\A m : Adjacent(m)' = Adjacent(m)) /\ (Cyclic' <=> Cyclic)
  BY GraphStays
<1>5. Adjacent(Top) \subseteq Finished
  BY <1>1, <1>2 DEF DetectInv, SeenInv, Top
<1>6. PathInv'
  BY <1>1, <1>2, <1>4 DEF DetectInv, PathInv
<1>7. SeenInv'
  <2>1. \A m \in Finished \cup {Top} : Adjacent(m) \subseteq Finished \cup {Top}
    BY <1>5 DEF DetectInv, SeenInv
  <2>2. ASSUME NEW i \in 1..Len(path'), NEW m \in Adjacent(path'[i]) \ left[path'[i]]
        PROVE  m \in Finished \cup {Top} \/ (i < Len(path') /\ m = path'[i + 1])
    <3>1. i \in 1..Len(path) /\ path'[i] = path[i] /\ i \in 1..Len(path) - 1
      BY <1>2
    <3>2. m \in Finished \/ m = path[i + 1]
      BY <3>1 DEF DetectInv, SeenInv
    <3>3. i + 1 = Len(path) \/ (i < Len(path') /\ path'[i + 1] = path[i + 1])
      BY <1>2, <3>1
    <3> QED BY <3>2, <3>3 DEF Top
  <2> QED BY <1>1, <1>3, <1>4, <2>1, <2>2 DEF SeenInv
<1>8. NoCycleFinished'
  <2> SUFFICES ASSUME NEW C \in SUBSET ((Finished \cup {Top}) \cap Nodes), C # {}
               PROVE  \E m \in C : Adjacent(m) \cap C = {}
    BY <1>3, <1>4 DEF NoCycleFinished
  <2>1. CASE Adjacent(Top) \cap C = {} /\ Top \in C
    BY <2>1
  <2>2. CASE Top \notin C
    BY <2>2 DEF DetectInv, NoCycleFinished
  <2>3. CASE Top \in C /\ Adjacent(Top) \cap C # {}
    <3>1. C \ {Top} \in SUBSET (Finished \cap Nodes) /\ C \ {Top} # {}
      BY <1>3, <1>5, <2>3
    <3>2. PICK m \in C \ {Top} : Adjacent(m) \cap (C \ {Top}) = {}
      BY <3>1 DEF DetectInv, NoCycleFinished
    <3>3. Adjacent(m) \subseteq Finished
      BY <3>1 DEF DetectInv, SeenInv
    <3> QED BY <1>3, <3>2, <3>3
  <2> QED BY <2>1, <2>2, <2>3
<1>9. DetectsCycles'
  BY <1>1, <1>4 DEF DetectInv, DetectsCycles
<1> QED BY <1>6, <1>7, <1>8, <1>9 DEF DetectInv

LEMMA DetectStep ==
  ASSUME Shape, DetectInv, [DagNext]_dagVars
  PROVE  DetectInv'
<1>1. (\A m : Adjacent(m)' = Adjacent(m)) /\ (Cyclic' <=> Cyclic)
  BY GraphStays
<1>2. ASSUME UNCHANGED <<visited, path, left>>
      PROVE  PathInv' /\ SeenInv' /\ NoCycleFinished'
  <2>1. OnPath' = OnPath /\ Finished' = Finished
    BY <1>2 DEF OnPath, Finished
  <2> QED BY <1>1, <1>2, <2>1 DEF DetectInv, PathInv, SeenInv, NoCycleFinished
<1>3. ASSUME NEW n \in AllIds, CallRoot(n) PROVE DetectInv'
  <2>1. /\ n \notin visited /\ path = <<>> /\ visited' = visited \cup {n} /\ path' = Append(path, n)
        /\ left' = [left EXCEPT ![n] = Adjacent(n)] /\ UNCHANGED answer
    BY <1>3 DEF CallRoot
  <2>2. left'[n] = Adjacent(n) /\ Len(path) = 0
    BY <2>1 DEF Shape
  <2>3. PathInv' /\ SeenInv' /\ Finished' = Finished
    BY <2>1, <2>2, PushKeeps DEF DetectInv
  <2> QED BY <1>1, <2>1, <2>3 DEF DetectInv, NoCycleFinished, DetectsCycles
<1>4. ASSUME NEW n \in AllIds, CallNeighbor(n) PROVE DetectInv'
  <2>1. /\ n \notin visited /\ path # <<>> /\ visited' = visited \cup {n} /\ path' = Append(path, n)
        /\ left' = [left EXCEPT ![Top] = left[Top] \ {n}, ![n] = Adjacent(n)]
        /\ UNCHANGED answer /\ n \in left[Top]
    BY <1>4 DEF CallNeighbor, Searching
  <2>2. Len(path) \in Nat \ {0} /\ Top = path[Len(path)]
    BY <2>1 DEF Shape, Top
  <2>3. Top \in OnPath /\ OnPath \subseteq AllIds /\ OnPath \subseteq visited /\ Top \in AllIds
    BY <2>2 DEF OnPath, Shape, DetectInv, PathInv
  <2>4. left \in [AllIds -> SUBSET AllIds]
    BY DEF Shape
  <2>5. left'[n] = Adjacent(n) /\ \A m \in OnPath : left'[m] = IF m = Top THEN left[m] \ {n} ELSE left[m]
    <3> HIDE DEF Top
    <3> QED BY <2>1, <2>3, <2>4
  <2>6. ASSUME NEW i \in 1..Len(path)
        PROVE  /\ left'[path[i]] \subseteq left[path[i]]
               /\ \A m \in left[path[i]] \ left'[path[i]] : i = Len(path) /\ m = n
    <3>1. path[i] \in OnPath
      BY DEF OnPath
    <3>2. path[i] = Top => i = Len(path)
      BY <2>2 DEF DetectInv, PathInv
    <3> QED BY <2>5, <3>1, <3>2
  <2>7. n \in Adjacent(path[Len(path)])
    BY <2>1, <2>2, <2>3 DEF DetectInv, PathInv
  <2>8. PathInv' /\ SeenInv' /\ Finished' = Finished
    BY <2>1, <2>5, <2>6, <2>7, PushKeeps DEF DetectInv
  <2> QED BY <1>1, <2>1, <2>8 DEF DetectInv, NoCycleFinished, DetectsCycles
<1>5. ASSUME NEW n \in AllIds, BackEdge(n) PROVE DetectInv'
  <2>1. Cyclic
    BY <1>5, BackEdgeIsCycle DEF DetectInv
  <2> QED BY <1>1, <1>2, <1>5, <2>1 DEF BackEdge, DetectInv, DetectsCycles, dfsVars
<1>6. CASE EndDetect
  <2>1. path = <<>> /\ Nodes \subseteq visited
    BY <1>6 DEF EndDetect
  <2>2. Nodes \subseteq Finished
    BY <2>1 DEF Finished, OnPath
  <2>3. ~Cyclic
    BY <2>2 DEF DetectInv, NoCycleFinished, Cyclic
  <2> QED BY <1>1, <1>2, <1>6, <2>3 DEF EndDetect, DetectInv, DetectsCycles, dfsVars
<1>7. ASSUME UNCHANGED <<visited, path, left>>, answer' \notin {"cyclic", "acyclic"} \/ answer' = answer
      PROVE  DetectInv'
  BY <1>1, <1>2, <1>7 DEF DetectInv, DetectsCycles
<1>8. ASSUME NEW n \in AllIds, Shift(n) PROVE DetectInv'
  BY <1>7, <1>8 DEF Shift, dfsVars
<1>9. CASE EndSort \/ NextLevel \/ EndGroups \/ UNCHANGED dagVars
  <2>1. UNCHANGED <<visited, path, left>>
    BY <1>9 DEF EndSort, NextLevel, EndGroups, dagVars, dfsVars
  <2>2. answer' \notin {"cyclic", "acyclic"} \/ answer' = answer
    BY <1>9 DEF EndSort, NextLevel, EndGroups, dagVars
  <2> QED BY <1>7, <2>1, <2>2
<1> QED BY <1>3, <1>4, <1>5, <1>6, <1>8, <1>9, CrossKeeps, ReturnKeeps DEF DagNext

LEMMA ShapeInit ==
  ASSUME DagInit
  PROVE  Shape
<1>1. edges \subseteq Edges /\ Keys \subseteq AllIds
  BY DEF DagInit, Keys, AllIds
<1>2. ready \subseteq AllIds
  BY <1>1 DEF DagInit, Roots
<1> QED BY <1>1, <1>2 DEF DagInit, Shape

\* detectCycles answers exactly whether there is a cycle, for every graph.
THEOREM DetectHolds == DagSpec => []DetectsCycles
<1>1. DagInit => Shape /\ DetectInv
  BY ShapeInit, DetectInit
<1>2. Shape /\ DetectInv /\ [DagNext]_dagVars => Shape' /\ DetectInv'
  BY ShapeStep, DetectStep
<1>3. DetectInv => DetectsCycles
  BY DEF DetectInv
<1> QED BY <1>1, <1>2, <1>3, PTL DEF DagSpec

-----------------------------------------------------------------------------
(* The in-degrees count what is still to come *)

\* Which nodes of D have an edge to n.
From(D, n) == {m \in D : n \in Adjacent(m)}

\* An edge at least comes from each node that leads to n; one only, if edges are plain.
LEMMA DegreeCounts ==
  ASSUME Shape, IsFiniteSet(Edges), IsFiniteSet(AllIds), NEW n \in AllIds
  PROVE  /\ InDegree(n) \in Nat /\ IsFiniteSet(From(Nodes, n))
         /\ Cardinality(From(Nodes, n)) \in Nat
         /\ Cardinality(From(Nodes, n)) <= InDegree(n)
         /\ Plain => Cardinality(From(Nodes, n)) = InDegree(n)
<1>1. IsFiniteSet(Into(n)) /\ InDegree(n) \in Nat
  <2>1. Into(n) \in SUBSET Edges
    BY DEF Into, Shape
  <2> QED BY <2>1, FS_Subset, FS_CardinalityType DEF InDegree
<1>2. IsFiniteSet(From(Nodes, n)) /\ Cardinality(From(Nodes, n)) \in Nat
  <2>1. From(Nodes, n) \in SUBSET AllIds
    BY DEF From, AllIds
  <2> QED BY <2>1, FS_Subset, FS_CardinalityType
<1> DEFINE In == {e \in Into(n) : source[e] \in Nodes}
<1> DEFINE F == [e \in In |-> source[e]]
<1>3. In \in SUBSET Into(n) /\ IsFiniteSet(In) /\ Cardinality(In) <= InDegree(n) /\ Cardinality(In) \in Nat
  BY <1>1, FS_Subset, FS_CardinalityType DEF InDegree
<1>4. F \in [In -> From(Nodes, n)]
  <2> SUFFICES ASSUME NEW e \in In PROVE source[e] \in From(Nodes, n)
    OBVIOUS
  <2> QED BY DEF Into, From, Adjacent
<1>5. \A m \in From(Nodes, n) : \E e \in In : F[e] = m
  <2> SUFFICES ASSUME NEW m \in From(Nodes, n) PROVE \E e \in In : source[e] = m
    OBVIOUS
  <2>1. m \in Nodes /\ n \in Adjacent(m)
    BY DEF From
  <2>2. PICK e \in edges : source[e] = m /\ target[e] = n
    BY <2>1 DEF Adjacent
  <2> QED BY <2>1, <2>2 DEF Into
<1>6. Cardinality(From(Nodes, n)) <= Cardinality(In)
  <2>1. F \in Surjection(In, From(Nodes, n))
    <3> HIDE DEF F, In
    <3> QED BY <1>4, <1>5, Fun_IsSurj
  <2> HIDE DEF F, In
  <2> QED BY <1>3, <2>1, FS_Surjection
<1>7. ASSUME Plain PROVE InDegree(n) <= Cardinality(From(Nodes, n))
  <2>1. In = Into(n)
    BY <1>7 DEF Plain, Into
  <2>2. \A d, e \in In : F[d] = F[e] => d = e
    BY <1>7 DEF Plain, Into
  <2>3. F \in Injection(In, From(Nodes, n))
    <3> HIDE DEF F, In
    <3> QED BY <1>4, <2>2, Fun_IsInj
  <2>4. Cardinality(In) <= Cardinality(From(Nodes, n))
    <3> HIDE DEF F, In
    <3> QED BY <1>2, <2>3, FS_Injection
  <2> QED BY <2>1, <2>4 DEF InDegree
<1> HIDE DEF In, F
<1> QED BY <1>1, <1>2, <1>3, <1>6, <1>7

\* If each node of a set has one before it in the set, the set has a cycle.
LEMMA CycleBehind ==
  ASSUME IsFiniteSet(AllIds), NEW C \in SUBSET Nodes, C # {},
         \A n \in C : \E m \in C : n \in Adjacent(m)
  PROVE  Cyclic
<1> DEFINE p == [n \in C |-> CHOOSE m \in C : n \in Adjacent(m)]
<1> DEFINE image(D) == {p[n] : n \in D}
<1> DEFINE closed == {D \in SUBSET C : D # {} /\ image(D) \subseteq D}
<1>1. \A n \in C : p[n] \in C /\ n \in Adjacent(p[n])
  OBVIOUS
<1>2. IsFiniteSet(C)
  BY FS_Subset DEF AllIds
<1>3. C \in closed
  BY <1>1
<1>4. PICK D \in closed : \A E \in closed : <<E, D>> \notin StrictSubsetOrdering(C)
  <2>1. IsWellFoundedOn(StrictSubsetOrdering(C), SUBSET C)
    BY <1>2, FS_StrictSubsetOrderingWellFounded, FS_FiniteSubsetsOfFinite
  <2>2. closed \subseteq SUBSET C /\ closed # {}
    BY <1>3
  <2> HIDE DEF closed
  <2> QED BY <2>1, <2>2, WFMin
<1>5. image(D) \in closed
  <2>1. image(D) \subseteq D /\ D \subseteq C /\ D # {}
    OBVIOUS
  <2>2. PICK n : n \in D
    BY <2>1
  <2>3. p[n] \in image(D)
    BY <2>2
  <2>4. \A m \in image(D) : p[m] \in image(D)
    BY <2>1
  <2>5. image(image(D)) \subseteq image(D)
    BY <2>4
  <2>6. image(D) \in SUBSET C /\ image(D) # {}
    BY <2>1, <2>3
  <2> QED BY <2>5, <2>6
<1>6. image(D) = D
  <2>1. <<image(D), D>> \notin StrictSubsetOrdering(C)
    BY <1>4, <1>5
  <2> QED BY <1>5, <2>1 DEF StrictSubsetOrdering
<1>7. \A m \in D : Adjacent(m) \cap D # {}
  <2> SUFFICES ASSUME NEW m \in D PROVE Adjacent(m) \cap D # {}
    OBVIOUS
  <2>1. PICK n \in D : m = p[n]
    BY <1>6
  <2>2. n \in C
    OBVIOUS
  <2> QED BY <1>1, <2>1, <2>2
<1> QED BY <1>7 DEF Cyclic

-----------------------------------------------------------------------------
(* topologicalSort() and getParallelGroups() *)

\* What has left the queue.
Done == {sorted[i] : i \in 1..Len(sorted)} \cup Placed

\* The in-degree of an id is what its edges still bring it; an id is in the
\* queue or beyond as soon as everything before it has left the queue.
KahnInv ==
  /\ degree \in [AllIds -> Nat]
  /\ \A n \in AllIds : degree[n] + Cardinality(From(Done, n)) = InDegree(n)
  /\ Done \subseteq AllIds /\ ready \cap Done = {}
  /\ ready \cup Done \subseteq Keys
  /\ \A n \in ready \cup Done : From(Nodes, n) \subseteq Done
  /\ \A n \in Keys : degree[n] = 0 => n \in ready \cup Done

LEMMA FromFinite ==
  ASSUME IsFiniteSet(AllIds), NEW D \in SUBSET AllIds, NEW n
  PROVE  /\ From(D, n) \subseteq From(Nodes, n)
         /\ IsFiniteSet(From(D, n)) /\ Cardinality(From(D, n)) \in Nat
<1>1. From(D, n) \in SUBSET AllIds
  BY DEF From
<1> QED BY <1>1, FS_Subset, FS_CardinalityType DEF From, Adjacent

LEMMA KahnInit ==
  ASSUME DagInit, IsFiniteSet(AllIds), IsFiniteSet(Edges)
  PROVE  KahnInv
<1>1. Shape
  BY ShapeInit
<1>2. Done = {}
  <2>1. Len(sorted) = 0 /\ Len(groups) = 0
    BY DEF DagInit
  <2> QED BY <2>1 DEF Done, Placed
<1>3. \A n \in AllIds : degree[n] = InDegree(n) /\ InDegree(n) \in Nat
  BY <1>1, DegreeCounts DEF DagInit
<1>4. \A n : From(Done, n) = {}
  BY <1>2 DEF From
<1>5. degree \in [AllIds -> Nat] /\ \A n \in AllIds : degree[n] + Cardinality(From(Done, n)) = InDegree(n)
  <2>1. \A n \in AllIds : Cardinality(From(Done, n)) = 0
    BY <1>4, FS_EmptySet
  <2>2. degree = [n \in AllIds |-> InDegree(n)]
    BY DEF DagInit
  <2> QED BY <1>3, <2>1, <2>2
<1>6. ready \subseteq Keys /\ Keys \subseteq AllIds /\ \A n \in ready : InDegree(n) = 0
  BY <1>1 DEF DagInit, Roots, Keys, Shape, AllIds
<1>7. \A n \in ready : From(Nodes, n) = {}
  BY <1>1, <1>6, DegreeCounts, FS_EmptySet
<1>8. \A n \in Keys : degree[n] = 0 => n \in ready
  BY <1>3, <1>6 DEF DagInit, Roots
<1> QED BY <1>2, <1>5, <1>6, <1>7, <1>8 DEF KahnInv

\* A part Q of the queue leaves it.
LEMMA TakeKeeps ==
  ASSUME Shape, KahnInv, [DagNext]_dagVars, IsFiniteSet(AllIds), IsFiniteSet(Edges),
         NEW Q \in SUBSET ready,
         Done' = Done \cup Q,
         degree' = [n \in AllIds |-> degree[n] - Cardinality(From(Q, n))],
         ready' = (ready \ Q) \cup {n \in Keys : From(Q, n) # {} /\ degree'[n] = 0}
  PROVE  KahnInv'
<1>0. Done' = Done \cup Q
  OBVIOUS
<1>1. /\ \A n : Adjacent(n)' = Adjacent(n) /\ InDegree(n)' = InDegree(n)
      /\ Keys' = Keys
  BY GraphStays
<1> DEFINE D == Done \cup Q
<1> DEFINE New == {n \in Keys : From(Q, n) # {} /\ degree'[n] = 0}
<1>2. /\ Done \subseteq AllIds /\ Q \subseteq AllIds /\ ready \subseteq AllIds /\ Keys \subseteq AllIds
      /\ Q \cap Done = {} /\ D \subseteq AllIds
  BY DEF KahnInv, Shape, Keys, AllIds
<1>3. ASSUME NEW n \in AllIds
      PROVE  /\ Cardinality(From(Q, n)) \in Nat /\ IsFiniteSet(From(Q, n))
             /\ IsFiniteSet(From(D, n)) /\ Cardinality(From(D, n)) \in Nat
             /\ From(D, n) \subseteq From(Nodes, n)
             /\ Cardinality(From(D, n)) = Cardinality(From(Done, n)) + Cardinality(From(Q, n))
             /\ Cardinality(From(D, n)) <= InDegree(n) /\ InDegree(n) \in Nat
             /\ Cardinality(From(Done, n)) \in Nat
             /\ Cardinality(From(D, n)) = InDegree(n) => From(Nodes, n) \subseteq D
  <2>1. /\ Cardinality(From(Q, n)) \in Nat /\ IsFiniteSet(From(Q, n))
        /\ Cardinality(From(Done, n)) \in Nat /\ IsFiniteSet(From(Done, n))
        /\ From(D, n) \subseteq From(Nodes, n) /\ IsFiniteSet(From(D, n))
        /\ Cardinality(From(D, n)) \in Nat
    BY <1>2, FromFinite
  <2>2. From(D, n) = From(Done, n) \cup From(Q, n) /\ From(Done, n) \cap From(Q, n) = {}
    BY <1>2 DEF From
  <2>3. Cardinality(From(D, n)) = Cardinality(From(Done, n)) + Cardinality(From(Q, n))
    <3> DEFINE A == From(Done, n)
    <3> DEFINE B == From(Q, n)
    <3>1. From(D, n) = A \cup B /\ A \cap B = {}
      BY <2>2
    <3>2. IsFiniteSet(A) /\ IsFiniteSet(B) /\ Cardinality(A) \in Nat /\ Cardinality(B) \in Nat
      BY <2>1
    <3> HIDE DEF A, B, D
    <3>3. Cardinality(A \cup B) = Cardinality(A) + Cardinality(B) - Cardinality(A \cap B)
      BY <3>2, FS_Union
    <3>4. Cardinality(A \cap B) = 0
      BY <3>1, FS_EmptySet
    <3>5. Cardinality(From(D, n)) = Cardinality(A) + Cardinality(B)
      BY <3>1, <3>2, <3>3, <3>4
    <3> QED BY <3>5 DEF A, B
  <2>4. /\ InDegree(n) \in Nat /\ IsFiniteSet(From(Nodes, n)) /\ Cardinality(From(Nodes, n)) \in Nat
        /\ Cardinality(From(Nodes, n)) <= InDegree(n)
    BY DegreeCounts
  <2>5. /\ Cardinality(From(D, n)) <= Cardinality(From(Nodes, n))
        /\ Cardinality(From(Nodes, n)) = Cardinality(From(D, n)) => From(Nodes, n) = From(D, n)
    BY <2>1, <2>4, FS_Subset
  <2>6. From(D, n) \subseteq D
    BY DEF From
  <2> HIDE DEF D
  <2> QED BY <2>1, <2>3, <2>4, <2>5, <2>6
<1>4. ASSUME NEW n \in AllIds
      PROVE  degree'[n] \in Nat /\ degree'[n] + Cardinality(From(D, n)) = InDegree(n)
  <2>1. degree[n] \in Nat /\ degree[n] + Cardinality(From(Done, n)) = InDegree(n)
    BY DEF KahnInv
  <2>2. degree'[n] = degree[n] - Cardinality(From(Q, n))
    OBVIOUS
  <2>3. /\ Cardinality(From(Q, n)) \in Nat /\ Cardinality(From(Done, n)) \in Nat
        /\ Cardinality(From(D, n)) = Cardinality(From(Done, n)) + Cardinality(From(Q, n))
        /\ Cardinality(From(D, n)) <= InDegree(n) /\ InDegree(n) \in Nat
    BY <1>3
  <2> HIDE DEF D
  <2> QED BY <2>1, <2>2, <2>3
<1>5. degree' \in [AllIds -> Nat]
  BY <1>4
<1>6. \A n : From(Done, n)' = From(D, n) /\ From(Nodes, n)' = From(Nodes, n)
  BY <1>0, <1>1 DEF From
<1>7. New \cap (ready \cup Done) = {}
  <2> SUFFICES ASSUME NEW n \in ready \cup Done, From(Q, n) # {} PROVE FALSE
    OBVIOUS
  <2>1. From(Nodes, n) \subseteq Done
    BY DEF KahnInv
  <2>2. From(Q, n) \subseteq From(Nodes, n) /\ From(Q, n) \subseteq Q
    BY DEF From, Adjacent
  <2> QED BY <1>2, <2>1, <2>2
<1>8. ready' \cap D = {}
  BY <1>2, <1>7 DEF KahnInv
<1>9. ready' \cup D = ready \cup Done \cup New
  OBVIOUS
<1>10. ASSUME NEW n \in ready' \cup D PROVE From(Nodes, n) \subseteq D
  <2>1. CASE n \in ready \cup Done
    BY <2>1 DEF KahnInv
  <2>2. CASE n \in New
    <3>1. n \in AllIds /\ degree'[n] = 0
      BY <1>2, <2>2
    <3>2. Cardinality(From(D, n)) = InDegree(n)
      <4>1. degree'[n] + Cardinality(From(D, n)) = InDegree(n) /\ Cardinality(From(D, n)) \in Nat
        BY <1>3, <1>4, <3>1
      <4> QED BY <3>1, <4>1
    <3> QED BY <1>3, <3>1, <3>2
  <2> QED BY <1>9, <2>1, <2>2
<1>11. ASSUME NEW n \in Keys, degree'[n] = 0 PROVE n \in ready' \cup D
  <2>1. CASE From(Q, n) # {}
    BY <1>11, <2>1
  <2>2. CASE From(Q, n) = {}
    <3>1. n \in AllIds /\ degree[n] \in Nat
      BY <1>2 DEF KahnInv
    <3>2. Cardinality(From(Q, n)) = 0 /\ degree'[n] = degree[n] - Cardinality(From(Q, n))
      BY <2>2, <3>1, FS_EmptySet
    <3>3. degree[n] = 0
      BY <1>11, <3>1, <3>2
    <3> QED BY <1>9, <3>3 DEF KahnInv
  <2> QED BY <2>1, <2>2
<1>12. ready' \cup D \subseteq Keys
  BY <1>9 DEF KahnInv
<1> HIDE DEF New, D
<1>13. \A n \in AllIds : degree'[n] + Cardinality(From(Done, n)') = InDegree(n)'
  BY <1>1, <1>4, <1>6
<1>14. \A n \in ready' \cup D : From(Nodes, n)' \subseteq D
  BY <1>6, <1>10
<1>15. Done' = D
  BY <1>0 DEF D
<1>16. /\ Done' \subseteq AllIds /\ ready' \cap Done' = {} /\ ready' \cup Done' \subseteq Keys'
       /\ \A n \in Keys' : degree'[n] = 0 => n \in ready' \cup Done'
       /\ \A n \in ready' \cup Done' : From(Nodes, n)' \subseteq Done'
  BY <1>1, <1>2, <1>8, <1>11, <1>12, <1>14, <1>15
<1> QED BY <1>5, <1>13, <1>16 DEF KahnInv

LEMMA ShiftTakes ==
  ASSUME Shape, KahnInv, NEW n \in AllIds, Shift(n)
  PROVE  /\ n \in ready /\ {n} \in SUBSET ready
         /\ sorted' = Append(sorted, n) /\ UNCHANGED groups
         /\ {sorted'[i] : i \in 1..Len(sorted')} = {sorted[i] : i \in 1..Len(sorted)} \cup {n}
         /\ Done' = Done \cup {n}
         /\ degree' = [m \in AllIds |-> degree[m] - Cardinality(From({n}, m))]
         /\ ready' = (ready \ {n}) \cup {m \in Keys : From({n}, m) # {} /\ degree'[m] = 0}
<1>1. /\ n \in ready /\ sorted' = Append(sorted, n) /\ UNCHANGED groups
      /\ degree' = [m \in AllIds |-> IF m \in Adjacent(n) THEN degree[m] - 1 ELSE degree[m]]
      /\ ready' = (ready \ {n}) \cup {m \in Adjacent(n) : degree'[m] = 0}
  BY DEF Shift
<1>2. {sorted'[i] : i \in 1..Len(sorted')} = {sorted[i] : i \in 1..Len(sorted)} \cup {n}
  BY <1>1, Appended DEF Shape
<1>3. Done' = Done \cup {n}
  BY <1>1, <1>2 DEF Done, Placed
<1>4. ASSUME NEW m
      PROVE  /\ From({n}, m) # {} <=> m \in Adjacent(n)
             /\ Cardinality(From({n}, m)) = IF m \in Adjacent(n) THEN 1 ELSE 0
  <2>1. From({n}, m) = IF m \in Adjacent(n) THEN {n} ELSE {}
    BY DEF From
  <2> QED BY <2>1, FS_EmptySet, FS_Singleton
<1>5. \A m \in AllIds : degree[m] \in Nat
  BY DEF KahnInv
<1>6. degree' = [m \in AllIds |-> degree[m] - Cardinality(From({n}, m))]
  <2>1. ASSUME NEW m \in AllIds
        PROVE  (IF m \in Adjacent(n) THEN degree[m] - 1 ELSE degree[m]) = degree[m] - Cardinality(From({n}, m))
    <3>1. degree[m] \in Nat /\ Cardinality(From({n}, m)) = IF m \in Adjacent(n) THEN 1 ELSE 0
      BY <1>4, <1>5
    <3>2. CASE m \in Adjacent(n)
      BY <3>1, <3>2
    <3>3. CASE m \notin Adjacent(n)
      BY <3>1, <3>3
    <3> QED BY <3>2, <3>3
  <2> QED BY <1>1, <2>1
<1>7. Adjacent(n) \subseteq Keys
  BY AdjacentType
<1>8. ready' = (ready \ {n}) \cup {m \in Keys : From({n}, m) # {} /\ degree'[m] = 0}
  BY <1>1, <1>4, <1>7
<1> QED BY <1>1, <1>2, <1>3, <1>6, <1>8

LEMMA LevelTakes ==
  ASSUME Shape, KahnInv, IsFiniteSet(AllIds), NextLevel
  PROVE  /\ groups' = Append(groups, ready) /\ UNCHANGED sorted
         /\ Placed' = Placed \cup ready /\ Done' = Done \cup ready
         /\ degree' = [n \in AllIds |-> degree[n] - Cardinality(From(ready, n))]
         /\ ready' = {n \in Keys : From(ready, n) # {} /\ degree'[n] = 0}
<1>1. /\ groups' = Append(groups, ready) /\ UNCHANGED sorted
      /\ degree' = [n \in AllIds |-> degree[n] - Arrivals(n)]
      /\ ready' = {n \in Keys : Arrivals(n) > 0 /\ degree'[n] = 0}
  BY DEF NextLevel
<1>2. \A n : /\ Arrivals(n) = Cardinality(From(ready, n))
             /\ Arrivals(n) > 0 <=> From(ready, n) # {}
  <2> SUFFICES ASSUME NEW n
               PROVE  /\ Arrivals(n) = Cardinality(From(ready, n))
                      /\ Arrivals(n) > 0 <=> From(ready, n) # {}
    OBVIOUS
  <2>1. Arrivals(n) = Cardinality(From(ready, n))
    BY DEF Arrivals, From
  <2>2. IsFiniteSet(From(ready, n)) /\ Cardinality(From(ready, n)) \in Nat
    BY FromFinite DEF Shape
  <2> QED BY <2>1, <2>2, FS_EmptySet
<1>3. Placed' = Placed \cup ready
  <2>1. {groups'[k] : k \in 1..Len(groups')} = {groups[k] : k \in 1..Len(groups)} \cup {ready}
    BY <1>1, Appended DEF Shape
  <2> QED BY <2>1 DEF Placed
<1>4. Done' = Done \cup ready
  BY <1>1, <1>3 DEF Done
<1>5. degree' = [n \in AllIds |-> degree[n] - Cardinality(From(ready, n))]
  BY <1>1, <1>2
<1>6. ready' = {n \in Keys : From(ready, n) # {} /\ degree'[n] = 0}
  BY <1>1, <1>2
<1> QED BY <1>1, <1>3, <1>4, <1>5, <1>6

LEMMA KahnStep ==
  ASSUME Shape, KahnInv, [DagNext]_dagVars, IsFiniteSet(AllIds), IsFiniteSet(Edges)
  PROVE  KahnInv'
<1>1. ASSUME NEW n \in AllIds, Shift(n) PROVE KahnInv'
  BY <1>1, ShiftTakes, TakeKeeps
<1>2. CASE NextLevel
  <2>1. ready' = (ready \ ready) \cup {n \in Keys : From(ready, n) # {} /\ degree'[n] = 0}
    BY <1>2, LevelTakes
  <2> QED BY <1>2, <2>1, LevelTakes, TakeKeeps
<1>3. ASSUME UNCHANGED kahnVars PROVE KahnInv'
  <2>1. \A n : Adjacent(n)' = Adjacent(n) /\ InDegree(n)' = InDegree(n)
    BY GraphStays
  <2>2. UNCHANGED <<degree, ready, sorted, groups>> /\ Keys' = Keys
    BY <1>3, GraphStays DEF kahnVars
  <2>3. Done' = Done /\ (\A n : From(Done, n)' = From(Done, n) /\ From(Nodes, n)' = From(Nodes, n))
    BY <2>1, <2>2 DEF Done, Placed, From
  <2> QED BY <2>1, <2>2, <2>3 DEF KahnInv
<1>4. ASSUME NEW n \in AllIds, CallRoot(n) \/ CallNeighbor(n) \/ BackEdge(n) \/ CrossEdge(n) PROVE UNCHANGED kahnVars
  BY <1>4 DEF CallRoot, CallNeighbor, BackEdge, CrossEdge
<1>5. CASE Return \/ EndDetect \/ EndSort \/ EndGroups \/ UNCHANGED dagVars
  BY <1>3, <1>5 DEF Return, EndDetect, EndSort, EndGroups, dagVars
<1> QED BY <1>1, <1>2, <1>3, <1>4, <1>5 DEF DagNext

\* When the queue is empty and the edges are plain, what is missing is on a cycle or behind one.
LEMMA QueueDrains ==
  ASSUME Shape, KahnInv, IsFiniteSet(AllIds), IsFiniteSet(Edges), ready = {}, Plain, ~Cyclic
  PROVE  Done = Nodes
<1>1. Keys = Nodes /\ Done \subseteq Nodes
  <2>1. Keys = Nodes
    BY DEF Keys, Plain
  <2> QED BY <2>1 DEF KahnInv
<1>2. ASSUME NEW n \in Nodes \ Done PROVE \E m \in Nodes \ Done : n \in Adjacent(m)
  <2>1. n \in AllIds /\ degree[n] \in Nat /\ degree[n] # 0
        /\ degree[n] + Cardinality(From(Done, n)) = InDegree(n)
    BY <1>1, <1>2 DEF KahnInv, AllIds
  <2>2. InDegree(n) \in Nat /\ Cardinality(From(Nodes, n)) = InDegree(n)
    BY <2>1, DegreeCounts
  <2>3. From(Done, n) \subseteq From(Nodes, n) /\ Cardinality(From(Done, n)) \in Nat
    BY FromFinite DEF KahnInv
  <2>4. From(Done, n) # From(Nodes, n)
    <3> SUFFICES ASSUME From(Done, n) = From(Nodes, n) PROVE FALSE
      OBVIOUS
    <3>1. Cardinality(From(Done, n)) = InDegree(n)
      BY <2>2
    <3> QED BY <2>1, <2>2, <3>1
  <2> QED BY <2>3, <2>4 DEF From
<1>3. Nodes \ Done = {}
  BY <1>2, CycleBehind
<1> QED BY <1>1, <1>3

-----------------------------------------------------------------------------
(* The orders *)

Sorted == {sorted[i] : i \in 1..Len(sorted)}

\* The orders are right so far; each id in the queue depends on the last group;
\* sorted holds as many ids as it is long.
OrderInv ==
  /\ op # "sort" => sorted = <<>>
  /\ op # "groups" => groups = <<>>
  /\ SortRespectsEdges
  /\ GroupsRespectEdges /\ GroupsDisjoint /\ GroupsEarliest
  /\ \A n \in ready : groups # <<>> => \E s \in groups[Len(groups)] : n \in Adjacent(s)
  /\ IsFiniteSet(Sorted) /\ Cardinality(Sorted) = Len(sorted)
  /\ NothingDropped

LEMMA OrderInit ==
  ASSUME DagInit
  PROVE  OrderInv
<1>1. Len(sorted) = 0 /\ Len(groups) = 0 /\ sorted = <<>> /\ groups = <<>> /\ answer = "none"
  BY DEF DagInit
<1>2. Sorted = {}
  BY <1>1 DEF Sorted
<1> QED BY <1>1, <1>2, FS_EmptySet
        DEF OrderInv, SortRespectsEdges, GroupsRespectEdges, GroupsDisjoint, GroupsEarliest, NothingDropped

LEMMA ShiftOrders ==
  ASSUME Shape, KahnInv, OrderInv, [DagNext]_dagVars, NEW n \in AllIds, Shift(n)
  PROVE  OrderInv'
<1>1. /\ n \in ready /\ sorted' = Append(sorted, n) /\ UNCHANGED groups
      /\ {sorted'[i] : i \in 1..Len(sorted')} = {sorted[i] : i \in 1..Len(sorted)} \cup {n}
  BY ShiftTakes
<1>2. op = "sort" /\ op' = op /\ answer' = "none" /\ groups = <<>> /\ Len(groups) = 0
  BY GraphStays DEF Shift, OrderInv
<1>3. Sorted' = Sorted \cup {n} /\ Done = Sorted
  BY <1>1, <1>2 DEF Sorted, Done, Placed
<1>4. From(Nodes, n) \subseteq Sorted /\ n \notin Sorted
  BY <1>1, <1>3 DEF KahnInv
<1>5. \A m : Adjacent(m)' = Adjacent(m)
  BY GraphStays
<1>6. Len(sorted') = Len(sorted) + 1 /\ Len(sorted) \in Nat /\ sorted'[Len(sorted) + 1] = n
      /\ \A i \in 1..Len(sorted) : sorted'[i] = sorted[i]
  BY <1>1, Appended DEF Shape
<1>7. ASSUME NEW i \in 1..Len(sorted')
      PROVE  /\ \A s \in Nodes : sorted'[i] \in Adjacent(s) => \E j \in 1..(i-1) : sorted'[j] = s
             /\ \A j \in 1..(i-1) : sorted'[j] # sorted'[i]
  <2>1. CASE i = Len(sorted) + 1
    <3>1. 1..(i-1) = 1..Len(sorted) /\ sorted'[i] = n
      BY <1>6, <2>1
    <3>2. ASSUME NEW s \in Nodes, n \in Adjacent(s) PROVE \E j \in 1..Len(sorted) : sorted'[j] = s
      <4>1. s \in Sorted
        BY <1>4, <3>2 DEF From
      <4> QED BY <1>6, <4>1 DEF Sorted
    <3>3. \A j \in 1..Len(sorted) : sorted'[j] # n
      BY <1>4, <1>6 DEF Sorted
    <3> QED BY <3>1, <3>2, <3>3
  <2>2. CASE i \in 1..Len(sorted)
    <3>1. sorted'[i] = sorted[i] /\ \A j \in 1..(i-1) : sorted'[j] = sorted[j]
      <4>1. \A j \in 1..(i-1) : j \in 1..Len(sorted)
        BY <1>6, <2>2
      <4> QED BY <1>6, <2>2, <4>1
    <3> QED BY <2>2, <3>1 DEF OrderInv, SortRespectsEdges
  <2> QED BY <1>6, <2>1, <2>2
<1>8. SortRespectsEdges'
  BY <1>5, <1>7 DEF SortRespectsEdges
<1>9. GroupsRespectEdges' /\ GroupsDisjoint' /\ GroupsEarliest' /\ NothingDropped'
  BY <1>1, <1>2 DEF GroupsRespectEdges, GroupsDisjoint, GroupsEarliest, NothingDropped
<1>10. IsFiniteSet(Sorted') /\ Cardinality(Sorted') = Len(sorted')
  BY <1>3, <1>4, <1>6, FS_AddElement DEF OrderInv
<1> QED BY <1>1, <1>2, <1>8, <1>9, <1>10 DEF OrderInv

LEMMA LevelOrders ==
  ASSUME Shape, KahnInv, OrderInv, [DagNext]_dagVars, IsFiniteSet(AllIds), NextLevel
  PROVE  OrderInv'
<1>1. /\ groups' = Append(groups, ready) /\ UNCHANGED sorted
      /\ ready' = {n \in Keys : From(ready, n) # {} /\ degree'[n] = 0}
  BY LevelTakes
<1>2. op = "groups" /\ op' = op /\ answer' = "none" /\ sorted = <<>> /\ Len(sorted) = 0
  BY GraphStays DEF NextLevel, OrderInv
<1>3. Done = Placed
  BY <1>2 DEF Done
<1>4. ready \cap Placed = {} /\ \A n \in ready : From(Nodes, n) \subseteq Placed
  BY <1>3 DEF KahnInv
<1>5. \A m : Adjacent(m)' = Adjacent(m)
  BY GraphStays
<1>6. Len(groups') = Len(groups) + 1 /\ Len(groups) \in Nat /\ groups'[Len(groups) + 1] = ready
      /\ \A k \in 1..Len(groups) : groups'[k] = groups[k]
  BY <1>1, Appended DEF Shape
<1>7. \A k \in 1..Len(groups) : groups[k] \subseteq Placed
  BY DEF Placed
<1>8. ASSUME NEW k \in 1..Len(groups'), NEW n \in groups'[k], NEW s \in Nodes, n \in Adjacent(s)
      PROVE  \E j \in 1..(k-1) : s \in groups'[j]
  <2>1. CASE k = Len(groups) + 1
    <3>1. n \in ready /\ s \in From(Nodes, n)
      BY <1>6, <1>8, <2>1 DEF From
    <3>2. PICK j \in 1..Len(groups) : s \in groups[j]
      BY <1>4, <3>1 DEF Placed
    <3>3. j \in 1..(k-1) /\ groups'[j] = groups[j]
      BY <1>6, <2>1
    <3> QED BY <3>2, <3>3
  <2>2. CASE k \in 1..Len(groups)
    <3>1. PICK j \in 1..(k-1) : s \in groups[j]
      BY <1>6, <1>8, <2>2 DEF OrderInv, GroupsRespectEdges
    <3>2. j \in 1..Len(groups)
      BY <1>6, <2>2
    <3> QED BY <1>6, <3>1, <3>2
  <2> QED BY <1>6, <2>1, <2>2
<1>9. GroupsRespectEdges'
  BY <1>5, <1>8 DEF GroupsRespectEdges
<1>10. ASSUME NEW j \in 1..Len(groups'), NEW k \in 1..Len(groups'), j # k
       PROVE  groups'[j] \cap groups'[k] = {}
  <2>1. j \in 1..Len(groups) \/ (j = Len(groups) + 1 /\ groups'[j] = ready)
    BY <1>6
  <2>2. k \in 1..Len(groups) \/ (k = Len(groups) + 1 /\ groups'[k] = ready)
    BY <1>6
  <2>3. CASE j \in 1..Len(groups) /\ k \in 1..Len(groups)
    BY <1>6, <1>10, <2>3 DEF OrderInv, GroupsDisjoint
  <2>4. CASE j \in 1..Len(groups) /\ groups'[k] = ready
    BY <1>4, <1>6, <1>7, <2>4
  <2>5. CASE k \in 1..Len(groups) /\ groups'[j] = ready
    BY <1>4, <1>6, <1>7, <2>5
  <2> QED BY <1>10, <2>1, <2>2, <2>3, <2>4, <2>5
<1>11. GroupsDisjoint'
  BY <1>10 DEF GroupsDisjoint
<1>12. ASSUME NEW k \in 2..Len(groups'), NEW n \in groups'[k]
       PROVE  \E s \in groups'[k-1] : n \in Adjacent(s)
  <2>1. CASE k = Len(groups) + 1
    <3>1. n \in ready /\ Len(groups) # 0 /\ groups'[k-1] = groups[Len(groups)]
      BY <1>6, <2>1
    <3>2. groups # <<>>
      BY <3>1
    <3> QED BY <3>1, <3>2 DEF OrderInv
  <2>2. CASE k \in 2..Len(groups)
    <3>1. k \in 1..Len(groups) /\ k-1 \in 1..Len(groups)
      BY <1>6, <2>2
    <3>2. groups'[k] = groups[k] /\ groups'[k-1] = groups[k-1]
      BY <1>6, <3>1
    <3> QED BY <2>2, <3>2 DEF OrderInv, GroupsEarliest
  <2> QED BY <1>6, <2>1, <2>2
<1>13. GroupsEarliest'
  BY <1>5, <1>12 DEF GroupsEarliest
<1>14. \A n \in ready' : \E s \in groups'[Len(groups')] : n \in Adjacent(s)
  BY <1>1, <1>6 DEF From
<1>15. SortRespectsEdges' /\ NothingDropped'
  BY <1>1, <1>2 DEF SortRespectsEdges, NothingDropped
<1>16. Sorted' = Sorted
  BY <1>1 DEF Sorted
<1> QED BY <1>1, <1>2, <1>5, <1>9, <1>11, <1>13, <1>14, <1>15, <1>16 DEF OrderInv

LEMMA OrderStep ==
  ASSUME Shape, KahnInv, OrderInv, [DagNext]_dagVars, IsFiniteSet(AllIds), IsFiniteSet(Edges)
  PROVE  OrderInv'
<1>1. (\A m : Adjacent(m)' = Adjacent(m)) /\ (Cyclic' <=> Cyclic) /\ (Plain' <=> Plain) /\ op' = op
  BY GraphStays
<1>2. ASSUME UNCHANGED kahnVars, NothingDropped' PROVE OrderInv'
  <2>1. UNCHANGED <<degree, ready, sorted, groups>>
    BY <1>2 DEF kahnVars
  <2>2. Sorted' = Sorted
    BY <2>1 DEF Sorted
  <2> QED BY <1>1, <1>2, <2>1, <2>2
          DEF OrderInv, SortRespectsEdges, GroupsRespectEdges, GroupsDisjoint, GroupsEarliest
<1>3. ASSUME UNCHANGED kahnVars, answer' \notin {"grouped", "thrown"} \/ answer' = answer
      PROVE  OrderInv'
  <2>1. NothingDropped'
    BY <1>1, <1>3 DEF OrderInv, NothingDropped, Placed, kahnVars
  <2> QED BY <1>2, <1>3, <2>1
<1>4. ASSUME NEW n \in AllIds, CallRoot(n) \/ CallNeighbor(n) \/ BackEdge(n) \/ CrossEdge(n)
      PROVE  OrderInv'
  BY <1>3, <1>4 DEF CallRoot, CallNeighbor, BackEdge, CrossEdge
<1>5. CASE Return \/ EndDetect \/ UNCHANGED dagVars
  BY <1>3, <1>5 DEF Return, EndDetect, dagVars
<1>6. CASE EndSort
  <2>1. /\ op = "sort" /\ ready = {} /\ UNCHANGED kahnVars
        /\ answer' = IF Len(sorted) # Cardinality(Nodes) THEN "thrown" ELSE "sorted"
    BY <1>6 DEF EndSort
  <2>2. ASSUME Plain, ~Cyclic PROVE Len(sorted) = Cardinality(Nodes)
    <3>1. groups = <<>> /\ Len(groups) = 0
      BY <2>1 DEF OrderInv
    <3>2. Done = Sorted
      BY <3>1 DEF Done, Placed, Sorted
    <3> QED BY <2>1, <2>2, <3>2, QueueDrains DEF OrderInv
  <2>3. NothingDropped'
    BY <1>1, <2>1, <2>2 DEF NothingDropped
  <2> QED BY <1>2, <2>1, <2>3
<1>7. CASE EndGroups
  <2>1. op = "groups" /\ ready = {} /\ UNCHANGED kahnVars /\ answer' = "grouped"
    BY <1>7 DEF EndGroups
  <2>2. ASSUME Plain, ~Cyclic PROVE Placed = Nodes
    <3>1. sorted = <<>> /\ Len(sorted) = 0
      BY <2>1 DEF OrderInv
    <3>2. Done = Placed
      BY <3>1 DEF Done
    <3> QED BY <2>1, <2>2, <3>2, QueueDrains
  <2>3. Placed' = Placed
    BY <2>1 DEF Placed, kahnVars
  <2>4. NothingDropped'
    BY <1>1, <2>1, <2>2, <2>3 DEF NothingDropped
  <2> QED BY <1>2, <2>1, <2>4
<1> QED BY <1>4, <1>5, <1>6, <1>7, ShiftOrders, LevelOrders DEF DagNext

\* detectCycles, topologicalSort and getParallelGroups answer correctly on every finite graph,
\* with edges that repeat each other or name ids no node has.
THEOREM GraphHolds == DagSpec => []GraphAnswersCorrect
<1> DEFINE IInv == Shape /\ DetectInv /\ KahnInv /\ OrderInv
<1> USE GraphAssumption
<1>1. DagInit => IInv
  BY ShapeInit, DetectInit, KahnInit, OrderInit
<1>2. IInv /\ [DagNext]_dagVars => IInv'
  <2>1. IInv /\ [DagNext]_dagVars => Shape' /\ DetectInv'
    BY ShapeStep, DetectStep
  <2>2. IInv /\ [DagNext]_dagVars => KahnInv' /\ OrderInv'
    BY KahnStep, OrderStep
  <2> QED BY <2>1, <2>2
<1>3. IInv => GraphAnswersCorrect
  <2>1. IInv => DagTypeOK
    BY DEF Shape, KahnInv, DagTypeOK
  <2> QED BY <2>1 DEF DetectInv, OrderInv, GraphAnswersCorrect
<1> QED BY <1>1, <1>2, <1>3, PTL DEF DagSpec
=============================================================================
