--------------------------- MODULE MCProcessControl ---------------------------
(***************************************************************************)
(* Instances of ProcessControl for TLC.  A run covers a family of graphs:  *)
(* the graph is chosen in Init.                                            *)
(***************************************************************************)
EXTENDS MCGraphs

\* Every acyclic graph over Procs, each edge by dependence or only by order.
Dags == {Edges(Bare, {e \in Pairs : kind[e] = "dep"}, {e \in Pairs : kind[e] = "comp"}) :
           kind \in [Pairs -> {"none", "dep", "comp"}]}

\* ... with mandatory and optional processes and some that run on failure.
MCAttributed == {[g EXCEPT !.mandatory = m, !.always = a] :
                   g \in Dags, m \in {{1, 2}, {3}}, a \in {{}, {2}, {3}}}

\* Every graph of dependences alone over four processes, and those above over
\* three with a fourth that waits for them all.
Joined(g) == [g EXCEPT !.comp[4] = @ \cup ({1, 2, 3} \ g.dep[4])]
MCJoined ==
  {Edges(Bare, d, {}) : d \in SUBSET Pairs}
  \cup {Joined(g) : g \in {h \in MCAttributed : h.dep[4] \cup h.comp[4] = {}}}

\* Any edges at all: cycles, self-dependencies, a missing key, a key in both lists.
AnyPairs == Keys \X Procs
MCAnyEdges ==
  {Edges([Bare EXCEPT !.mandatory = Procs], d, {}) : d \in SUBSET AnyPairs}
  \cup {Edges(Bare, {<<1, 2>>} \cup d, {<<1, 2>>}) : d \in SUBSET Pairs}

\* A fourth process, if there is one, waits for those that share.
Shared(g) == IF 4 \in Procs THEN [g EXCEPT !.comp[4] = {1, 2, 3}] ELSE g
Sharers == Procs \ {4}

\* Resources shared in every way between processes with few dependencies.
MCResources ==
  {[g EXCEPT !.res = [p \in Procs |-> IF p \in Sharers THEN r[p] ELSE {}]] :
     r \in [Sharers -> SUBSET Resources], g \in {Bare, Edges(Bare, {<<1, 3>>}, {})}}

\* One inventory per parity of the key, types written and read anywhere.
MCData ==
  {[g EXCEPT !.writes = [p \in Procs |-> IF p \in Sharers THEN w[p] ELSE {}],
             !.reads = [p \in Procs |-> IF p \in Sharers THEN r[p] ELSE {}], !.inv = i] :
     g \in {Edges(Bare, {<<1, 3>>}, {}), Edges(Bare, {<<1, 2>>}, {<<2, 3>>})},
     w \in [Sharers -> {{}, {"t", "u"}}], r \in [Sharers -> {{}, {"t"}, {"t", "u"}}],
     i \in {[p \in Procs |-> "inv"], [p \in Procs |-> IF p = 2 THEN "dev" ELSE "inv"]}}

Across == {<<1, 3>>, <<1, 4>>, <<2, 3>>, <<2, 4>>}

\* Two devices that compete for one slot: one process opens each, one closes it,
\* with any order and dependence across, those that block each other included.
MCDevices ==
  {[Edges(Bare, {<<1, 2>>, <<3, 4>>} \cup {e \in Across : kind[e] = "dep"},
          {e \in Across : kind[e] = "comp"}) EXCEPT
      !.scope = [p \in Procs |-> <<"d1", "d1", "d2", "d2">>[p]],
      !.opens = {1, 3}, !.closes = {2, 4}]
     : kind \in [Across -> {"none", "dep", "comp"}]}

MCContinue == MCJoined \cup {Shared(g) : g \in MCResources \cup MCData} \cup MCDevices

\* A device whose scope is opened and never closed.
MCUnclosed ==
  {[Edges(Bare, e, {}) EXCEPT !.scope = [p \in Procs |-> <<"d1", "d2", "d3">>[p]],
                              !.opens = o, !.mandatory = m]
     : e \in SUBSET Pairs, o \in SUBSET Procs, m \in {{}, Procs}}
MCAny == MCAnyEdges \cup MCUnclosed
MCStop == MCAttributed \cup MCAny
=============================================================================
