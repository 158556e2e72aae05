---------------------------- MODULE MCDeliverables ----------------------------
(***************************************************************************)
(* Instances of DeliverableConsumer for TLC.                               *)
(***************************************************************************)
EXTENDS DeliverableConsumer

\* Two assemblers share a timeline, one of them feeds a second if there is one.
MCTargets == [a \in Sinks |-> IF a = "a" /\ "g" \in JsonFiles THEN <<"f", "g">> ELSE <<"f">>]

\* Row counts around the limit of a slice, announced exactly or not at all.
MCJobs == {[rows |-> r, hint |-> h] : r \in 0..5, h \in {0, 3}}
MCTableAlone == {[who |-> Tables, jobs |-> Jobs, faults |-> FaultKinds]}

\* A run has a table of any size or the timelines of one assembler, for which
\* anything may go wrong, or two assemblers, for which either the files may or the
\* pool (bound).
MCTimelines(who, what) ==
  [who |-> who, jobs |-> {[rows |-> 0, hint |-> 0]}, faults |-> what]
MCEither ==
  MCTableAlone \cup {MCTimelines({"a"}, FaultKinds),
                     MCTimelines(Sinks, {"spill", "throw", "add", "assemble"}),
                     MCTimelines(Sinks, {"throw", "start", "threads"})}
=============================================================================
