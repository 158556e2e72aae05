----------------------------- MODULE MCProfTasks -----------------------------
(***************************************************************************)
(* Scenarios of ProfTaskScheduler for TLC.  Two tasks on two slots show    *)
(* what one failure does to a peer, two on one slot how a slot is reused.  *)
(***************************************************************************)
EXTENDS ProfTaskScheduler

Calm == [slots |-> 2, families |-> {}, interrupts |-> {}, spawnFaults |-> FALSE,
         probeFaults |-> FALSE, parentDies |-> FALSE]

\* Failures of two peers, one of which starts processes of its own.
MCPeers == {[Calm EXCEPT !.families = {2}, !.spawnFaults = TRUE]}

\* Worker groups that may be unverifiable at any probe.
MCProbes ==
  {[Calm EXCEPT !.families = {1}, !.probeFaults = TRUE],
   [Calm EXCEPT !.slots = 1, !.families = {1, 2}, !.probeFaults = TRUE,
                !.interrupts = {"int"}]}

MCFaults == MCPeers \cup MCProbes

\* Draining two peers, and interrupting or killing a parent that runs its tasks
\* one at a time.
MCEnds ==
  {Calm,
   [Calm EXCEPT !.slots = 1, !.families = {1, 2}, !.interrupts = {"int", "term"},
                !.spawnFaults = TRUE, !.parentDies = TRUE]}
=============================================================================
