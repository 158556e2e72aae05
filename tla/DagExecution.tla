----------------------------- MODULE DagExecution -----------------------------
(***************************************************************************)
(* What ProcessControl::ExecuteProcess promises its caller, without        *)
(* queues, counters, locks or a completion protocol: the states the        *)
(* processes go through, as GetRuntimeResults reports them, and the        *)
(* verdict (process_control.h).                                            *)
(***************************************************************************)
EXTENDS Naturals, FiniteSets

CONSTANTS Procs, Graphs, Workers, StopOnMandatory

VARIABLES graph, state, verdict
vars == <<graph, state, verdict>>

Settled == {"SUCCEEDED", "FAILED", "BLOCKED", "CANCELLED"}
Running == {p \in Procs : state[p] = "RUNNING"}

\* Everything p waits for, by dependence or only by order, has settled.
Waited(p) == \A d \in graph.dep[p] \cup graph.comp[p] : state[d] \in Settled
Allowed(p) == p \in graph.always \/ \A d \in graph.dep[p] : state[d] = "SUCCEEDED"
Halted == /\ StopOnMandatory
          /\ \E p \in graph.mandatory : state[p] \in Settled \ {"SUCCEEDED"}

Init ==
  /\ graph \in Graphs
  /\ state = [p \in Procs |-> "PENDING"]
  /\ verdict = "none"

Move(p, from, to) ==
  /\ verdict = "none" /\ state[p] = from
  /\ state' = [state EXCEPT ![p] = to]
  /\ UNCHANGED <<graph, verdict>>

Start(p) ==
  /\ Move(p, "PENDING", "RUNNING")
  /\ Waited(p) /\ Allowed(p) /\ ~Halted
  /\ \A q \in Running : graph.res[p] \cap graph.res[q] = {}
  /\ Cardinality(Running) < Workers
End(p) == Move(p, "RUNNING", "SUCCEEDED") \/ Move(p, "RUNNING", "FAILED")
Block(p) == Move(p, "PENDING", "BLOCKED") /\ Waited(p) /\ ~Allowed(p)
Cancel(p) == Move(p, "PENDING", "CANCELLED") /\ Waited(p) /\ Allowed(p)

\* No process can start any more: what is pending is cancelled at once.
Abandon ==
  /\ verdict = "none" /\ Running = {} /\ verdict' = "false"
  /\ state' = [p \in Procs |-> IF state[p] = "PENDING" THEN "CANCELLED" ELSE state[p]]
  /\ UNCHANGED graph

\* The collection is refused before anything has moved.
Refuse ==
  /\ verdict = "none" /\ \A p \in Procs : state[p] = "PENDING"
  /\ verdict' = "false"
  /\ UNCHANGED <<graph, state>>

Return ==
  /\ verdict = "none" /\ \A p \in Procs : state[p] \in Settled
  /\ verdict' \in {"true", "false"}
  /\ verdict' = "true" => \A p \in graph.mandatory : state[p] = "SUCCEEDED"
  /\ UNCHANGED <<graph, state>>

Next ==
  \/ \E p \in Procs : Start(p) \/ End(p) \/ Block(p) \/ Cancel(p)
  \/ Abandon \/ Refuse \/ Return

Spec == Init /\ [][Next]_vars
=============================================================================
