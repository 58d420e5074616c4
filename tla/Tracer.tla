------------------------------- MODULE Tracer ------------------------------
(***************************************************************************)
(* packages/enterprise/observability/src/tracer.ts: spans, which callers   *)
(* go on using after they have ended, and the exporters that receive them. *)
(*                                                                         *)
(* An exporter may throw (its errors reach the caller of end()).  Clocks   *)
(* and ids are left out: a trace is known by the span that began it.       *)
(***************************************************************************)
EXTENDS Integers, Sequences, FiniteSets

CONSTANTS
  Spans,
  Exporters,     \* the number of exporters, in the order in which they were added
  Throwing,      \* the exporters that may throw
  NoSpan

ASSUME TracerAssumption == Exporters \in Nat /\ Throwing \subseteq 1..Exporters /\ NoSpan \notin Spans

VARIABLES
  span,      \* span[s]: [state, trace, parent, attributes, code]
  exported   \* exported[e]: what the exporter e has received, in order

tracerVars == <<span, exported>>

NotStarted == [state |-> "none", trace |-> NoSpan, parent |-> NoSpan, attributes |-> {}, code |-> "unset"]

TracerInit ==
  /\ span = [s \in Spans |-> NotStarted]
  /\ exported = [e \in 1..Exporters |-> <<>>]

\* Mutant: a child starts a trace of its own if its parent has ended.
StartSpan_AfterParent(s, parent) ==
  /\ span[s].state = "none" /\ parent # s
  /\ parent # NoSpan => span[parent].state # "none"
  /\ span' = [span EXCEPT ![s] = [NotStarted EXCEPT !.state = "live", !.parent = parent,
       !.trace = IF parent = NoSpan \/ span[parent].state = "ended" THEN s ELSE span[parent].trace]]
  /\ UNCHANGED exported

\* startSpan(), startChild(): also of a parent that has ended.
StartSpan(s, parent) ==
  /\ span[s].state = "none" /\ parent # s
  /\ parent # NoSpan => span[parent].state # "none"
  /\ span' = [span EXCEPT ![s] = [NotStarted EXCEPT !.state = "live", !.parent = parent,
       !.trace = IF parent = NoSpan THEN s ELSE span[parent].trace]]
  /\ UNCHANGED exported

\* setAttribute(), addEvent(), setStatus(): ignored once the span has ended.
SetAttribute(s, a) ==
  /\ span[s].state = "live"
  /\ span' = [span EXCEPT ![s].attributes = @ \cup {a}]
  /\ UNCHANGED exported

RecordException(s) ==
  /\ span[s].state = "live"
  /\ span' = [span EXCEPT ![s].attributes = @ \cup {"exception"}, ![s].code = "error"]
  /\ UNCHANGED exported

SpanData(s) == [id |-> s, trace |-> span[s].trace, parent |-> span[s].parent,
            attributes |-> span[s].attributes, code |-> span[s].code]

\* What has been exported when the exporter failing throws, or, if it is 0, none does.
Export(s, failing) ==
  exported' = [e \in 1..Exporters |->
    IF failing = 0 \/ e < failing THEN Append(exported[e], SpanData(s)) ELSE exported[e]]

\* end() marks the span as ended before it exports it; a second call exports nothing.
EndSpan(s, failing) ==
  /\ span[s].state = "live"
  /\ span' = [span EXCEPT ![s].state = "ended"]
  /\ Export(s, failing)

TracerNext ==
  \/ \E s \in Spans, parent \in Spans \cup {NoSpan} : StartSpan(s, parent)
  \/ \E s \in Spans : SetAttribute(s, "a") \/ RecordException(s)
  \/ \E s \in Spans, failing \in Throwing \cup {0} : EndSpan(s, failing)

TracerSpec == TracerInit /\ [][TracerNext]_tracerVars

-----------------------------------------------------------------------------
(* Properties *)

\* "Finalize the span and forward it to the tracer's exporters. Idempotent.": no exporter gets a
\* span twice, none before it has ended, and each gets a span only after those added before it.
ExportedOnce ==
  \A e \in 1..Exporters :
    /\ \A i, j \in DOMAIN exported[e] : exported[e][i].id = exported[e][j].id => i = j
    /\ \A i \in DOMAIN exported[e] : span[exported[e][i].id].state = "ended"
    /\ e > 1 => \A i \in DOMAIN exported[e] : \E j \in DOMAIN exported[e - 1] : exported[e - 1][j] = exported[e][i]

\* An exporter's snapshot is what the span is from then on, although its callers go on using it.
SnapshotIsFinal ==
  \A e \in 1..Exporters : \A i \in DOMAIN exported[e] : exported[e][i] = SpanData(exported[e][i].id)

\* The spans of a trace are the descendants of the one that began it, whatever the order in
\* which parents and children end: that one and the children of any span of the trace, no more.
TraceIsOneTree ==
  LET started == {s \in Spans : span[s].state # "none"} IN
  \A s \in started :
    /\ span[s].trace \in started /\ span[span[s].trace].parent = NoSpan
    /\ span[s].parent = NoSpan => span[s].trace = s
    /\ span[s].parent # NoSpan => span[s].parent \in started /\ span[s].trace = span[span[s].parent].trace
    /\ \A family \in SUBSET Spans :
         (\A t \in started : t = span[s].trace \/ span[t].parent \in family => t \in family) => s \in family

\* An exporter sees each span once, as it was at its end, and in the trace it belongs to, whatever
\* its callers do with spans that have ended and whichever exporter fails.
TracesFaithful == ExportedOnce /\ SnapshotIsFinal /\ TraceIsOneTree
=============================================================================
