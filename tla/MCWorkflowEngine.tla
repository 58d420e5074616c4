-------------------------- MODULE MCWorkflowEngine --------------------------
(***************************************************************************)
(* Small workflows for TLC to execute; the .cfg files choose among them.   *)
(***************************************************************************)
EXTENDS WorkflowEngine, TLC

CONSTANTS a, b, c, r1, r2, r3, r4

\* a and b before c.
Join == [nodes |-> {a, b, c}, edges |-> {<<a, c>>, <<b, c>>}, order |-> <<{a, b}, {c}>>,
         cyclic |-> FALSE]

Loop == [nodes |-> {a, b}, edges |-> {<<a, b>>, <<b, a>>}, order |-> <<>>, cyclic |-> TRUE]

\* An edge to c, which is no node: c has an in-degree, and so a group.
Dangling == [nodes |-> {a, b}, edges |-> {<<a, c>>}, order |-> <<{a, b}, {c}>>, cyclic |-> FALSE]

\* Every node hangs on c, which is no node: no id has in-degree zero.
Unrooted == [nodes |-> {a}, edges |-> {<<c, a>>}, order |-> <<>>, cyclic |-> FALSE]

\* The edge from a to b is given twice: b's in-degree stays above zero.
Repeated == [nodes |-> {a, b}, edges |-> {<<a, b>>}, order |-> <<{a}>>, cyclic |-> FALSE]

ManyPlans   == (r1 :> Join) @@ (r2 :> Dangling) @@ (r3 :> Loop) @@ (r4 :> Unrooted)
OneRepeated == (r1 :> Repeated)

RetryOnce == [n \in NodeIds |-> 1]
RetryAOnly == [n \in NodeIds |-> IF n = a THEN 2 ELSE 0]
=============================================================================
