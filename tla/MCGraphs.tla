------------------------------- MODULE MCGraphs -------------------------------
(***************************************************************************)
(* Building blocks of the graphs that the instances of ProcessControl run. *)
(***************************************************************************)
EXTENDS ProcessControl

Bare ==
  [dep |-> [p \in Procs |-> {}], comp |-> [p \in Procs |-> {}],
   mandatory |-> {}, always |-> {},
   res |-> [p \in Procs |-> {}], scope |-> [p \in Procs |-> "host"],
   opens |-> {}, closes |-> {},
   inv |-> [p \in Procs |-> "inv"],
   reads |-> [p \in Procs |-> {}], writes |-> [p \in Procs |-> {}]]

Pairs == {e \in Procs \X Procs : e[1] < e[2]}
Edges(g, dep, comp) ==
  [g EXCEPT !.dep = [p \in Procs |-> {d \in Keys : <<d, p>> \in dep}],
            !.comp = [p \in Procs |-> {d \in Keys : <<d, p>> \in comp}]]
=============================================================================
