----------------------------- MODULE MCDbWriters ------------------------------
(***************************************************************************)
(* Instances of DbWriters for TLC.                                         *)
(***************************************************************************)
EXTENDS DbWriters

To(p, n) == [db |-> p, batches |-> n]

\* Two savers that meet at one database; one of them makes an index in a second.
MCCalls ==
  [s \in {"api", "task"} |->
     [api |-> <<To("x", 2)>>, task |-> <<To("x", 1), To("y", 0)>>][s]]
Mode(o, f) == [overlap |-> o, faults |-> f]
MCModes == {Mode(FALSE, FaultKinds), Mode(TRUE, {"job"}), Mode(TRUE, {"thread", "commit"})}
=============================================================================
