---------------------------- MODULE MCOutbound -----------------------------
(***************************************************************************)
(* Calls that may fail or never come back: the notifications and connector *)
(* calls of the enterprise packages, and the node handlers of the workflow *)
(* engine.  The three share no state, so each behaviour exercises the one  *)
(* that focus names.                                                       *)
(*                                                                         *)
(* n1 falls through a channel without an adapter to one it lacks an        *)
(* address for, n2 has no adapter at all, n3 throws and keeps n4 from      *)
(* being sent; the recipient of n5 prefers a channel twice.  Two runs of   *)
(* the engine compete for its one slot.                                    *)
(***************************************************************************)
EXTENDS Notifications, Connector

VARIABLES focus, activeExecutions, run, level, node, retryCount, fed, stray

MCBatch == [c1 |-> <<"n1", "n2", "n3", "n4">>, c2 |-> <<"n5">>]
MCPreferred == [n1 |-> <<"email", "push", "sms">>, n2 |-> <<"push">>, n3 |-> <<>>,
            n4 |-> <<"sms">>, n5 |-> <<"sms", "sms">>]
MCAddressed == [n1 |-> {"email", "push"}, n2 |-> {}, n3 |-> {}, n4 |-> {"sms"}, n5 |-> {"sms"}]
MCOperation == [k1 |-> "deliver", k2 |-> "takedown"]

\* The nodes of r1 run side by side, those of r2 one after the other.
Pair  == [nodes |-> {"a", "b"}, edges |-> {}, order |-> <<{"a", "b"}>>, cyclic |-> FALSE]
Chain == [nodes |-> {"a", "b"}, edges |-> {<<"a", "b">>}, order |-> <<{"a"}, {"b"}>>, cyclic |-> FALSE]

Engine ==
  INSTANCE WorkflowEngine WITH
    Runs <- {"r1", "r2"}, NodeIds <- {"a", "b"}, Plan <- [r1 |-> Pair, r2 |-> Chain],
    MaxRetries <- [a |-> 1, b |-> 1], Conditional <- {"b"}, Selective <- {},
    MaxConcurrentWorkflows <- 1

engineVars == <<activeExecutions, run, level, node, retryCount, fed, stray>>
allVars    == <<vars, connectorVars, engineVars, focus>>

Notify(A)  == focus = "notifications" /\ A /\ UNCHANGED <<connectorVars, engineVars, focus>>
Connect(A) == focus = "connector" /\ A /\ UNCHANGED <<vars, engineVars, focus>>
Run(A)     == focus = "engine" /\ A /\ UNCHANGED <<vars, connectorVars, focus>>

OutboundInit == focus \in {"notifications", "connector", "engine"} /\ Init /\ ConnectorInit /\ Engine!Init
OutboundNext == Notify(Next) \/ Connect(ConnectorNext) \/ Run(Engine!Next)

\* The fairness of each of the three, see there.
OutboundSpec ==
  /\ OutboundInit /\ [][OutboundNext]_allVars
  /\ \A c \in Callers : WF_allVars(Notify(Step(c)))
  /\ \A c \in Calls : WF_allVars(Connect(ConnectorStep(c)))
  /\ Engine!Fairness

\* A run of the engine ends although handlers may never return.
EveryRunEnds == Engine!EveryRunEnds

\* The nodes beside a failed one are settled too, also after the run has failed.
EveryNodeSettles == Engine!EveryNodeSettles

\* Whatever is called may never come back, and still all that waits for it ends: batches, calls,
\* runs, and the nodes beside a failed one, for the timers of attempts and retries go off.
EverythingEnds == EveryBatchEnds /\ EveryCallEnds /\ EveryRunEnds /\ EveryNodeSettles
=============================================================================
