------------------------- MODULE ProcessControlProofs -------------------------
(***************************************************************************)
(* Theorems about ProcessControl, for every set of processes, every family *)
(* of graphs and every option.                                             *)
(***************************************************************************)
EXTENDS ProcessControl, InductionFacts, FiniteSetTheorems, SequenceTheorems, TLAPS

-----------------------------------------------------------------------------
(***************************************************************************)
(* Sequences without repetition, as the ready and completion queues are.   *)
(***************************************************************************)
\* For a sequence, the definitions of the library speak of its indices.
LEMMA SeqIndices ==
  ASSUME NEW T, NEW s \in Seq(T)
  PROVE  /\ \A x : x \in ToSet(s) <=> \E i \in 1..Len(s) : x = s[i]
         /\ IsInjective(s) <=> \A i, j \in 1..Len(s) : s[i] = s[j] => i = j
  BY LenProperties DEF ToSet, IsInjective

\* Any order of a finite set is a sequence of it without repetition.
LEMMA OrderOfSet ==
  ASSUME NEW T, NEW S \in SUBSET T, IsFiniteSet(S), NEW s \in SetToSeqs(S)
  PROVE  s \in Seq(T) /\ ToSet(s) \subseteq S /\ IsInjective(s)
<1>1. Cardinality(S) \in Nat
  BY FS_CardinalityType
<1>2. s \in [1..Cardinality(S) -> S]
  BY DEF SetToSeqs
<1>3. s \in Seq(S) /\ Len(s) = Cardinality(S)
  BY <1>1, <1>2
<1>4. s \in Seq(T)
  BY <1>3, SeqMonotonic
<1> QED
  BY <1>2, <1>3, <1>4, SeqIndices DEF SetToSeqs

\* The tail of a queue holds its other elements.
LEMMA TailOfQueue ==
  ASSUME NEW T, NEW s \in Seq(T), s # << >>, IsInjective(s)
  PROVE  /\ Tail(s) \in Seq(T) /\ IsInjective(Tail(s))
         /\ Head(s) \in T /\ Head(s) = s[1] /\ Head(s) \in ToSet(s)
         /\ ToSet(Tail(s)) \subseteq ToSet(s) \ {Head(s)}
<1>1. /\ Head(s) \in T /\ Tail(s) \in Seq(T) /\ Len(Tail(s)) = Len(s) - 1
      /\ \A i \in 1..Len(Tail(s)) : Tail(s)[i] = s[i + 1]
  BY HeadTailProperties
<1>2. Len(s) \in Nat /\ Len(s) >= 1
  BY EmptySeq
<1>3. Head(s) = s[1]
  BY <1>2
<1>4. /\ \A x : x \in ToSet(s) <=> \E i \in 1..Len(s) : x = s[i]
      /\ \A i, j \in 1..Len(s) : s[i] = s[j] => i = j
  BY SeqIndices
<1>5. /\ \A x : x \in ToSet(Tail(s)) <=> \E i \in 1..Len(Tail(s)) : x = Tail(s)[i]
      /\ IsInjective(Tail(s))
            <=> \A i, j \in 1..Len(Tail(s)) : Tail(s)[i] = Tail(s)[j] => i = j
  BY <1>1, SeqIndices
<1>6. ASSUME NEW x \in ToSet(Tail(s)) PROVE x \in ToSet(s) /\ x # Head(s)
  BY <1>1, <1>2, <1>3, <1>4, <1>5
<1>7. IsInjective(Tail(s))
  BY <1>1, <1>2, <1>4, <1>5
<1> QED
  BY <1>1, <1>2, <1>3, <1>4, <1>6, <1>7

\* Putting distinct elements behind a queue that has none of them.
LEMMA ConcatOfQueues ==
  ASSUME NEW T, NEW s \in Seq(T), NEW t \in Seq(T), IsInjective(s), IsInjective(t),
         ToSet(s) \cap ToSet(t) = {}
  PROVE  /\ s \o t \in Seq(T) /\ IsInjective(s \o t)
         /\ ToSet(s \o t) = ToSet(s) \cup ToSet(t)
         /\ Len(s \o t) = Len(s) + Len(t)
<1>1. /\ s \o t \in Seq(T) /\ Len(s \o t) = Len(s) + Len(t)
      /\ \A i \in 1..Len(s) + Len(t) : (s \o t)[i] =
             IF i <= Len(s) THEN s[i] ELSE t[i - Len(s)]
  BY ConcatProperties
<1>2. Len(s) \in Nat /\ Len(t) \in Nat
  BY LenProperties
<1> DEFINE u == s \o t
<1>3. /\ \A x : x \in ToSet(s) <=> \E i \in 1..Len(s) : x = s[i]
      /\ \A x : x \in ToSet(t) <=> \E i \in 1..Len(t) : x = t[i]
      /\ \A i, j \in 1..Len(s) : s[i] = s[j] => i = j
      /\ \A i, j \in 1..Len(t) : t[i] = t[j] => i = j
  BY SeqIndices
<1>4. /\ \A x : x \in ToSet(u) <=> \E i \in 1..Len(u) : x = u[i]
      /\ IsInjective(u) <=> \A i, j \in 1..Len(u) : u[i] = u[j] => i = j
  BY <1>1, SeqIndices
<1>5. /\ Len(u) = Len(s) + Len(t)
      /\ \A i \in 1..Len(u) : u[i] = IF i <= Len(s) THEN s[i] ELSE t[i - Len(s)]
  BY <1>1
<1> HIDE DEF u
<1>6. ASSUME NEW i \in 1..Len(u), NEW j \in 1..Len(u), u[i] = u[j] PROVE i = j
  <2>1. CASE i <= Len(s) /\ j <= Len(s)
    BY <1>2, <1>3, <1>5, <1>6, <2>1
  <2>2. CASE i > Len(s) /\ j > Len(s)
    <3>1. i - Len(s) \in 1..Len(t) /\ j - Len(s) \in 1..Len(t)
      BY <1>2, <1>5, <2>2
    <3> QED
      BY <1>2, <1>3, <1>5, <1>6, <2>2, <3>1
  <2>3. \A a \in 1..Len(s), c \in 1..Len(t) : s[a] # t[c]
    BY <1>3
  <2>4. CASE i <= Len(s) /\ j > Len(s)
    <3>1. i \in 1..Len(s) /\ j - Len(s) \in 1..Len(t)
      BY <1>2, <1>5, <2>4
    <3>2. u[i] = s[i] /\ u[j] = t[j - Len(s)]
      BY <1>2, <1>5, <2>4
    <3> QED
      BY <1>6, <2>3, <3>1, <3>2
  <2>5. CASE i > Len(s) /\ j <= Len(s)
    <3>1. j \in 1..Len(s) /\ i - Len(s) \in 1..Len(t)
      BY <1>2, <1>5, <2>5
    <3>2. u[j] = s[j] /\ u[i] = t[i - Len(s)]
      BY <1>2, <1>5, <2>5
    <3> QED
      BY <1>6, <2>3, <3>1, <3>2
  <2> QED
    BY <1>2, <1>5, <2>1, <2>2, <2>4, <2>5
<1>7. ASSUME NEW x \in ToSet(u) PROVE x \in ToSet(s) \cup ToSet(t)
  BY <1>2, <1>3, <1>4, <1>5
<1>8. ASSUME NEW x \in ToSet(s) PROVE x \in ToSet(u)
  BY <1>2, <1>3, <1>4, <1>5
<1>9. ASSUME NEW x \in ToSet(t) PROVE x \in ToSet(u)
  <2>1. PICK i \in 1..Len(t) : x = t[i]
    BY <1>3
  <2>2. Len(s) + i \in 1..Len(u) /\ u[Len(s) + i] = x
    BY <1>2, <1>5, <2>1
  <2> QED
    BY <1>4, <2>2
<1>10. ToSet(u) = ToSet(s) \cup ToSet(t) /\ IsInjective(u)
  BY <1>4, <1>6, <1>7, <1>8, <1>9
<1> QED
  BY <1>1, <1>10 DEF u

\* Appending one element that the queue does not have.
LEMMA AppendToQueue ==
  ASSUME NEW T, NEW s \in Seq(T), NEW e \in T, IsInjective(s), e \notin ToSet(s)
  PROVE  /\ Append(s, e) \in Seq(T) /\ IsInjective(Append(s, e))
         /\ ToSet(Append(s, e)) = ToSet(s) \cup {e}
         /\ Len(Append(s, e)) = Len(s) + 1
<1>1. Append(s, e) = s \o <<e>>
  OBVIOUS
<1>2. <<e>> \in Seq(T) /\ Len(<<e>>) = 1 /\ <<e>>[1] = e
  OBVIOUS
<1>3. IsInjective(<<e>>) /\ ToSet(<<e>>) = {e}
  BY <1>2 DEF IsInjective, ToSet
<1>4. ToSet(s) \cap ToSet(<<e>>) = {}
  BY <1>3
<1> DEFINE t == <<e>>
<1>5. /\ t \in Seq(T) /\ IsInjective(t) /\ ToSet(t) = {e} /\ Len(t) = 1
      /\ ToSet(s) \cap ToSet(t) = {} /\ Append(s, e) = s \o t
  BY <1>1, <1>2, <1>3, <1>4
<1> HIDE DEF t
<1> QED
  BY <1>5, ConcatOfQueues
-----------------------------------------------------------------------------
(***************************************************************************)
(* The inductive invariant.                                                *)
(***************************************************************************)
\* The types of the graph's fields, which the coordinator never changes.
LEMMA GraphShape ==
  ASSUME TypeOK
  PROVE  /\ graph.dep \in [Procs -> SUBSET Keys] /\ graph.comp \in [Procs -> SUBSET Keys]
         /\ graph.mandatory \subseteq Procs /\ graph.always \subseteq Procs
         /\ graph.res \in [Procs -> SUBSET Resources] /\ graph.scope \in [Procs -> Scopes]
         /\ graph.inv \in [Procs -> Inventories] /\ graph.writes \in [Procs -> SUBSET Types]
         /\ Workers \in Nat \ {0} /\ IsFiniteSet(Procs)
  BY ConstantsAssumption DEF TypeOK, GraphType

\* Sets of processes are finite, so counting them is counting a natural number.
LEMMA SetsOfProcs ==
  ASSUME NEW S \in SUBSET Procs
  PROVE  IsFiniteSet(S) /\ Cardinality(S) \in Nat
  BY FS_Subset, FS_CardinalityType, ConstantsAssumption

\* Settling k leaves the others as they are and everybody with one less to wait for.
LEMMA FinishStates ==
  ASSUME IInv, Working, NEW k \in Procs, NEW s \in Settled, NEW queue,
         state[k] \in {"PENDING", "RUNNING"}, graph' = graph, Finish(k, s, queue)
  PROVE  /\ state' \in [Procs -> States]
         /\ state'[k] = s /\ \A p \in Procs \ {k} : state'[p] = state[p]
         /\ Running' = Running \ {k}
         /\ {p \in Procs : state'[p] \in Settled} = {p \in Procs : state[p] \in Settled} \cup {k}
         /\ \A p \in Procs : Unsettled(p)' = Unsettled(p) \ {k}
         /\ \A p \in Procs : Unsettled(p) \in SUBSET Procs
<1>1. state' = [state EXCEPT ![k] = s] /\ state \in [Procs -> States] /\ s \in States
  BY DEF Finish, IInv, TypeOK, States, Settled
<1>2. \A p \in Procs : Prereqs(p) \subseteq Procs /\ Prereqs(p)' = Prereqs(p)
  BY DEF IInv, Accounting, KeysVerified, Prereqs
<1>3. state'[k] = s /\ \A p \in Procs \ {k} : state'[p] = state[p]
  BY <1>1
<1>4. state[k] \notin Settled
  BY DEF Settled
<1>5. s # "RUNNING"
  BY DEF Settled
<1> QED
  BY <1>1, <1>2, <1>3, <1>4, <1>5 DEF Running, Unsettled
\* What a process waits for shrinks by the settled one, and only then.
LEMMA FinishCounts ==
  ASSUME IInv, Working, NEW k \in Procs, NEW s \in Settled, NEW queue,
         state[k] \in {"PENDING", "RUNNING"}, pending[k] = 0,
         graph' = graph, pc' = pc, Finish(k, s, queue)
  PROVE  /\ pending' \in [Procs -> Nat] /\ PendingCounts'
         /\ \A c \in Dependents(k) : state[c] = "PENDING" /\ pending[c] > 0 /\ c # k
<1>1. /\ state'[k] = s /\ \A p \in Procs \ {k} : state'[p] = state[p]
      /\ \A p \in Procs : Unsettled(p)' = Unsettled(p) \ {k}
      /\ \A p \in Procs : Unsettled(p) \in SUBSET Procs
  BY FinishStates
<1>2. /\ \A p \in Procs : pending[p] = Cardinality(Unsettled(p))
      /\ \A p \in Procs : state[p] # "PENDING" => pending[p] = 0
      /\ \A p \in Procs : pending[p] \in Nat
  <2>1. PendingCounts /\ pending \in [Procs -> Nat]
    BY DEF IInv, TypeOK
  <2> QED
    BY <2>1 DEF PendingCounts
<1>3. \A c \in Dependents(k) : c \in Procs /\ k \in Unsettled(c)
  BY DEF Dependents, Unsettled, Settled
<1>4. \A c \in Dependents(k) : pending[c] > 0
  <2> TAKE c \in Dependents(k)
  <2>1. IsFiniteSet(Unsettled(c)) /\ Unsettled(c) # {}
    BY <1>1, <1>3, SetsOfProcs
  <2>2. Cardinality(Unsettled(c)) # 0
    BY <2>1, FS_EmptySet
  <2> QED
    BY <1>2, <1>3, <2>2
<1>5. \A c \in Procs \ Dependents(k) : k \notin Unsettled(c)
  BY DEF Dependents, Unsettled
<1>6. pending' = [c \in Procs |-> IF c \in Dependents(k) THEN pending[c] - 1 ELSE pending[c]]
  BY DEF Finish
<1>7. pending' \in [Procs -> Nat]
  BY <1>2, <1>4, <1>6
<1>8. ASSUME NEW p \in Procs PROVE pending'[p] = Cardinality(Unsettled(p)')
  <2>1. Unsettled(p)' = Unsettled(p) \ {k} /\ IsFiniteSet(Unsettled(p))
    BY <1>1, SetsOfProcs
  <2>2. Cardinality(Unsettled(p) \ {k})
          = IF k \in Unsettled(p) THEN Cardinality(Unsettled(p)) - 1 ELSE Cardinality(Unsettled(p))
    BY <2>1, FS_RemoveElement
  <2> QED
    BY <1>2, <1>3, <1>5, <1>6, <2>1, <2>2
<1>9. ASSUME NEW p \in Procs, state'[p] # "PENDING" PROVE pending'[p] = 0
  <2>1. pending[p] = 0
    BY <1>1, <1>2, <1>9
  <2> QED
    BY <1>2, <1>4, <1>6, <2>1
<1>10. PendingCounts'
  BY <1>8, <1>9 DEF PendingCounts
<1> QED
  BY <1>2, <1>3, <1>4, <1>7, <1>10

\* The queue after a settlement: what was left of it, then the released keys.
LEMMA FinishReady ==
  ASSUME IInv, Working, NEW k \in Procs, NEW s \in Settled, NEW queue \in Seq(Procs),
         state[k] \in {"PENDING", "RUNNING"}, pending[k] = 0,
         IsInjective(queue), ToSet(queue) \subseteq ToSet(ready) \ {k},
         graph' = graph, pc' = pc, Finish(k, s, queue)
  PROVE  /\ ready' \in Seq(Procs) /\ Len(ready') >= Len(queue)
         /\ ReadyArePending'
<1> DEFINE released == {c \in Dependents(k) : pending[c] = 1}
<1>1. /\ state'[k] = s /\ \A p \in Procs \ {k} : state'[p] = state[p]
      /\ \A c \in Dependents(k) : state[c] = "PENDING" /\ pending[c] > 0 /\ c # k
  BY FinishStates, FinishCounts
<1>2. \A p \in ToSet(queue) : p \in Procs /\ p # k /\ state[p] = "PENDING" /\ pending[p] = 0
  <2>1. ToSet(queue) \subseteq Procs
    BY LenProperties DEF ToSet
  <2> QED
    BY <2>1 DEF IInv, ReadyArePending
<1>3. released \in SUBSET Procs /\ IsFiniteSet(released)
  BY SetsOfProcs DEF Dependents
<1>4. PICK t \in SetToSeqs(released) : ready' = queue \o t
  BY DEF Finish
<1>5. t \in Seq(Procs) /\ ToSet(t) \subseteq released /\ IsInjective(t)
  BY <1>3, OrderOfSet
<1>6. ToSet(queue) \cap ToSet(t) = {}
  BY <1>2, <1>5
<1>7. /\ ready' \in Seq(Procs) /\ IsInjective(ready')
      /\ ToSet(ready') = ToSet(queue) \cup ToSet(t)
      /\ Len(ready') = Len(queue) + Len(t)
  BY <1>4, <1>5, <1>6, ConcatOfQueues
<1>8. pending' = [c \in Procs |-> IF c \in Dependents(k) THEN pending[c] - 1 ELSE pending[c]]
  BY DEF Finish
<1>9. ASSUME NEW p \in ToSet(ready') PROVE state'[p] = "PENDING" /\ pending'[p] = 0
  <2>1. CASE p \in ToSet(queue)
    BY <1>1, <1>2, <1>8, <2>1
  <2>2. CASE p \in released
    BY <1>1, <1>3, <1>8, <2>2
  <2> QED
    BY <1>5, <1>7, <1>9, <2>1, <2>2
<1>10. Len(queue) \in Nat /\ Len(t) \in Nat
  BY <1>5, LenProperties
<1> QED
  BY <1>7, <1>9, <1>10 DEF ReadyArePending
\* The resources and the running count give back exactly what k held.
LEMMA FinishLimits ==
  ASSUME IInv, Working, NEW k \in Procs, NEW s \in Settled, NEW queue,
         state[k] \in {"PENDING", "RUNNING"}, graph' = graph, pc' = pc, Finish(k, s, queue)
  PROVE  Accounting' /\ StopRecorded' /\ ResourcesExclusive' /\ active' \in Nat
         /\ finished' \in Nat
<1>1. /\ state' \in [Procs -> States] /\ state'[k] = s
      /\ \A p \in Procs \ {k} : state'[p] = state[p]
      /\ Running' = Running \ {k}
      /\ {p \in Procs : state'[p] \in Settled} = {p \in Procs : state[p] \in Settled} \cup {k}
  BY FinishStates
<1>2. /\ active = Cardinality(Running) /\ active <= Workers
      /\ held = UNION {graph.res[p] : p \in Running}
      /\ KeysVerified /\ finished = Cardinality({p \in Procs : state[p] \in Settled})
      /\ \A p, q \in Running : p # q => graph.res[p] \cap graph.res[q] = {}
      /\ Workers \in Nat
  BY GraphShape DEF IInv, Accounting, ResourcesExclusive
<1>3. Running \in SUBSET Procs /\ (k \in Running <=> state[k] = "RUNNING")
  BY DEF Running
<1>4. active' = IF k \in Running THEN active - 1 ELSE active
  BY <1>3 DEF Finish
<1>5. active' = Cardinality(Running') /\ active' \in Nat /\ active' <= Workers
  <2>1. Cardinality(Running \ {k}) = IF k \in Running THEN Cardinality(Running) - 1
                                                      ELSE Cardinality(Running)
    BY <1>3, SetsOfProcs, FS_RemoveElement
  <2>2. Cardinality(Running) \in Nat /\ Cardinality(Running \ {k}) \in Nat
    BY <1>3, SetsOfProcs
  <2> QED
    BY <1>1, <1>2, <1>4, <2>1, <2>2
<1>6. held' = UNION {graph.res[p] : p \in Running'}
  <2>1. CASE k \in Running
    BY <1>1, <1>2, <1>3, <2>1 DEF Finish, HeldAfter
  <2>2. CASE k \notin Running
    BY <1>1, <1>2, <1>3, <2>2 DEF Finish, HeldAfter
  <2> QED
    BY <2>1, <2>2
<1>7. finished' = Cardinality({p \in Procs : state'[p] \in Settled}) /\ finished' \in Nat
  <2> DEFINE S == {p \in Procs : state[p] \in Settled}
  <2>1. S \in SUBSET Procs /\ k \notin S
    BY DEF Settled
  <2>2. IsFiniteSet(S) /\ Cardinality(S) \in Nat
    BY <2>1, SetsOfProcs
  <2>3. Cardinality(S \cup {k}) = Cardinality(S) + 1
    BY <2>1, <2>2, FS_AddElement
  <2>4. /\ finished = Cardinality(S) /\ finished' = finished + 1
        /\ {p \in Procs : state'[p] \in Settled} = S \cup {k}
    BY <1>1, <1>2 DEF Finish
  <2>5. Cardinality({p \in Procs : state'[p] \in Settled}) = Cardinality(S \cup {k})
    BY <2>4
  <2> HIDE DEF S
  <2>6. finished' = Cardinality(S \cup {k}) /\ finished' \in Nat
    BY <2>2, <2>3, <2>4
  <2> QED
    BY <2>5, <2>6
<1>8. KeysVerified'
  BY <1>2 DEF KeysVerified, Prereqs
<1>9. Accounting'
  BY <1>1, <1>2, <1>5, <1>6, <1>7, <1>8 DEF Accounting, Working, Returned
<1>10. ResourcesExclusive'
  BY <1>1, <1>2, <1>5 DEF ResourcesExclusive
<1>11. StopRecorded'
  <2> SUFFICES ASSUME StopOnMandatory, ~stopped', NEW p \in graph.mandatory
               PROVE  state'[p] \notin Settled \ {"SUCCEEDED"}
    BY DEF StopRecorded
  <2>1. ~stopped /\ ~StopsRun(k, s)
    BY DEF Finish
  <2>2. p \in Procs
    BY GraphShape DEF IInv
  <2>3. CASE p = k
    BY <1>1, <2>1, <2>3 DEF StopsRun
  <2>4. CASE p # k
    BY <1>1, <2>1, <2>2, <2>4 DEF IInv, StopRecorded
  <2> QED
    BY <2>3, <2>4
<1> QED
  BY <1>5, <1>7, <1>9, <1>10, <1>11

\* Settling k in an order that the invariant allows keeps every dependency first.
LEMMA FinishOrder ==
  ASSUME IInv, Working, NEW k \in Procs, NEW s \in Settled, NEW queue,
         state[k] \in {"PENDING", "RUNNING"}, pending[k] = 0,
         state[k] = "RUNNING" \/ s \in {"BLOCKED", "CANCELLED"},
         graph' = graph, pc' = pc, Finish(k, s, queue)
  PROVE  DependenciesFirst'
<1>1. /\ state'[k] = s /\ \A p \in Procs \ {k} : state'[p] = state[p]
  BY FinishStates
<1>2. KeysVerified /\ DependenciesFirst
  BY DEF IInv, Accounting
<1>3. \A p \in Procs : Prereqs(p) \subseteq Procs /\ graph.dep[p] \subseteq Prereqs(p)
  BY <1>2 DEF KeysVerified, Prereqs
<1>4. \A d \in Prereqs(k) : state[d] \in Settled
  <2>1. Unsettled(k) \in SUBSET Procs /\ Cardinality(Unsettled(k)) = 0
    BY <1>3 DEF IInv, PendingCounts, Unsettled
  <2>2. Unsettled(k) = {}
    BY <2>1, SetsOfProcs, FS_EmptySet
  <2> QED
    BY <2>2 DEF Unsettled
<1>5. \A p \in Procs : state[p] \in Settled => state'[p] = state[p]
  BY <1>1 DEF Settled
<1> SUFFICES ASSUME NEW p \in Procs, state'[p] \notin {"PENDING", "CANCELLED"}
             PROVE  /\ \A d \in Prereqs(p) : state'[d] \in Settled
                    /\ p \notin graph.always /\ state'[p] # "BLOCKED"
                         => \A d \in graph.dep[p] : state'[d] = "SUCCEEDED"
  BY DEF DependenciesFirst, Prereqs
<1>6. CASE p = k
  <2>1. \A d \in Prereqs(p) : state'[d] \in Settled
    BY <1>3, <1>4, <1>5, <1>6
  <2>2. CASE state[k] = "RUNNING"
    BY <1>2, <1>3, <1>5, <1>6, <2>1, <2>2 DEF DependenciesFirst, Settled
  <2>3. CASE s \in {"BLOCKED", "CANCELLED"}
    BY <1>1, <1>6, <2>1, <2>3
  <2> QED
    BY <2>2, <2>3
<1>7. CASE p # k
  <2>1. state[p] \notin {"PENDING", "CANCELLED"} /\ state'[p] = state[p]
    BY <1>1, <1>7
  <2>2. \A d \in Prereqs(p) : state[d] \in Settled /\ state'[d] = state[d]
    BY <1>2, <1>3, <1>5, <2>1 DEF DependenciesFirst
  <2> QED
    BY <1>2, <1>3, <2>1, <2>2 DEF DependenciesFirst
<1> QED
  BY <1>6, <1>7
\* The variables that only have a type to keep.
LEMMA FinishTypes ==
  ASSUME IInv, Working, NEW k \in Procs, NEW s \in Settled, NEW queue,
         graph' = graph, Finish(k, s, queue)
  PROVE  /\ level' \in [Procs -> Nat] /\ held' \subseteq Resources /\ devices' \subseteq Scopes
         /\ stopped' \in BOOLEAN /\ data' \in [Inventories -> SUBSET Types]
<1>1. level' \in [Procs -> Nat]
  BY DEF IInv, TypeOK, Finish, LevelAfter
<1>2. held' \subseteq Resources /\ devices' \subseteq Scopes
  BY DEF IInv, TypeOK, Finish, HeldAfter, DevicesAfter
<1>3. stopped' \in BOOLEAN
  BY DEF Finish
<1>4. data' \in [Inventories -> SUBSET Types]
  BY DEF IInv, TypeOK, Finish, ReleaseUnused
<1> QED
  BY <1>1, <1>2, <1>3, <1>4

\* A completion drained: the process at the head of the queue was running.
LEMMA DrainKeepsIInv == IInv /\ Drain => IInv'
<1> SUFFICES ASSUME IInv, Drain PROVE IInv'
  OBVIOUS
<1> DEFINE k == Head(completed)
           s == IF outcome[k] = "ok" /\ ~DfxStop(k) THEN "SUCCEEDED" ELSE "FAILED"
<1>1. /\ Finish(k, s, ready) /\ completed' = Tail(completed) /\ completed # << >>
      /\ graph' = graph /\ pc' = pc /\ outcome' = outcome /\ causes' = causes
      /\ left' = left /\ progressed' = progressed /\ woken' = woken
      /\ Working /\ pc = "drain"
  BY DEF Drain, Working
<1>2. /\ TypeOK /\ PendingCounts /\ ReadyArePending /\ CompletedAreRunning
      /\ completed \in Seq(Procs) /\ ready \in Seq(Procs) /\ left \in 0..Len(ready)
  BY DEF IInv, TypeOK
<1>3. /\ k \in Procs /\ k \in ToSet(completed) /\ IsInjective(Tail(completed))
      /\ Tail(completed) \in Seq(Procs)
      /\ ToSet(Tail(completed)) \subseteq ToSet(completed) \ {k}
  BY <1>1, <1>2, TailOfQueue DEF CompletedAreRunning
<1>4. state[k] = "RUNNING" /\ pending[k] = 0 /\ s \in Settled
  BY <1>1, <1>2, <1>3 DEF CompletedAreRunning, PendingCounts, Settled
<1>5. IsInjective(ready) /\ ToSet(ready) \subseteq ToSet(ready) \ {k}
  BY <1>1, <1>2, <1>4 DEF ReadyArePending
<1> HIDE DEF k, s
<1>6. /\ state' \in [Procs -> States] /\ \A p \in Procs \ {k} : state'[p] = state[p]
  BY <1>1, <1>3, <1>4, FinishStates
<1>7. pending' \in [Procs -> Nat] /\ PendingCounts'
  BY <1>1, <1>3, <1>4, FinishCounts
<1>8. ready' \in Seq(Procs) /\ Len(ready') >= Len(ready) /\ ReadyArePending'
  BY <1>1, <1>2, <1>3, <1>4, <1>5, FinishReady
<1>9. /\ Accounting' /\ StopRecorded' /\ ResourcesExclusive'
      /\ active' \in Nat /\ finished' \in Nat
  BY <1>1, <1>3, <1>4, FinishLimits
<1>10. DependenciesFirst'
  BY <1>1, <1>3, <1>4, FinishOrder
<1>11. /\ level' \in [Procs -> Nat] /\ held' \subseteq Resources /\ devices' \subseteq Scopes
       /\ stopped' \in BOOLEAN /\ data' \in [Inventories -> SUBSET Types]
  BY <1>1, <1>3, <1>4, FinishTypes
<1>12. CompletedAreRunning'
  <2>1. ToSet(completed) \subseteq Procs
    BY <1>2, LenProperties DEF ToSet
  <2> QED
    BY <1>1, <1>2, <1>3, <1>6, <2>1 DEF CompletedAreRunning
<1>13. left' \in 0..Len(ready')
  <2>1. Len(ready) \in Nat /\ Len(ready') \in Nat
    BY <1>2, <1>8, LenProperties
  <2> QED
    BY <1>1, <1>2, <1>8, <2>1
<1>14. TypeOK'
  BY <1>1, <1>2, <1>3, <1>6, <1>7, <1>8, <1>9, <1>11, <1>13 DEF TypeOK
<1> QED
  BY <1>7, <1>8, <1>9, <1>10, <1>12, <1>14 DEF IInv
\* The key a pass visits is pending and waits for nothing any more.
LEMMA VisitedKey ==
  ASSUME IInv, NEW k \in Procs, Visit(k)
  PROVE  /\ Working /\ pc = "scan" /\ ready # << >> /\ ready \in Seq(Procs)
         /\ state[k] = "PENDING" /\ pending[k] = 0
         /\ \A d \in Prereqs(k) : state[d] \in Settled
         /\ Prereqs(k) \subseteq Procs /\ graph.dep[k] \subseteq Prereqs(k)
         /\ Tail(ready) \in Seq(Procs) /\ IsInjective(Tail(ready))
         /\ ToSet(Tail(ready)) \subseteq ToSet(ready) \ {k}
         /\ left' = left - 1 /\ left' \in 0..Len(Tail(ready))
<1>1. /\ Working /\ pc = "scan" /\ left > 0 /\ k = Head(ready) /\ left' = left - 1
      /\ ready \in Seq(Procs) /\ left \in 0..Len(ready)
  BY DEF Visit, Working, IInv, TypeOK
<1>2. ready # << >>
  BY <1>1, EmptySeq
<1>3. ReadyArePending /\ PendingCounts /\ KeysVerified
  BY <1>1 DEF IInv, Accounting
<1>4. /\ Tail(ready) \in Seq(Procs) /\ IsInjective(Tail(ready)) /\ k \in ToSet(ready)
      /\ ToSet(Tail(ready)) \subseteq ToSet(ready) \ {k}
  BY <1>1, <1>2, <1>3, TailOfQueue DEF ReadyArePending
<1>5. Len(Tail(ready)) = Len(ready) - 1 /\ Len(ready) \in Nat
  BY <1>1, <1>2, HeadTailProperties, LenProperties
<1>6. state[k] = "PENDING" /\ pending[k] = 0
  BY <1>1, <1>3, <1>4 DEF ReadyArePending
<1>7. Prereqs(k) \subseteq Procs /\ graph.dep[k] \subseteq Prereqs(k)
  BY <1>3 DEF KeysVerified, Prereqs
<1>8. Unsettled(k) \in SUBSET Procs /\ Cardinality(Unsettled(k)) = 0
  BY <1>1, <1>3, <1>6, <1>7 DEF PendingCounts, Unsettled
<1>9. Unsettled(k) = {}
  BY <1>8, SetsOfProcs, FS_EmptySet
<1> QED
  BY <1>1, <1>2, <1>4, <1>5, <1>6, <1>7, <1>9 DEF Unsettled

\* A visited key that is blocked or cancelled settles without running.
LEMMA SkipKeepsIInv ==
  ASSUME IInv, NEW k \in Procs, NEW s \in {"BLOCKED", "CANCELLED"},
         Visit(k), Finish(k, s, Tail(ready)), causes' \in [Procs -> SUBSET Procs],
         UNCHANGED <<graph, pc, outcome, completed, woken>>, progressed' \in BOOLEAN
  PROVE  IInv'
<1>1. /\ Working /\ state[k] = "PENDING" /\ pending[k] = 0 /\ s \in Settled
      /\ Tail(ready) \in Seq(Procs) /\ IsInjective(Tail(ready))
      /\ ToSet(Tail(ready)) \subseteq ToSet(ready) \ {k}
      /\ left' \in 0..Len(Tail(ready))
  BY VisitedKey DEF Settled
<1>2. /\ graph' = graph /\ pc' = pc /\ outcome' = outcome /\ completed' = completed
      /\ woken' = woken
  OBVIOUS
<1>3. /\ state' \in [Procs -> States] /\ \A p \in Procs \ {k} : state'[p] = state[p]
  BY <1>1, <1>2, FinishStates
<1>4. pending' \in [Procs -> Nat] /\ PendingCounts'
  BY <1>1, <1>2, FinishCounts
<1>5. ready' \in Seq(Procs) /\ Len(ready') >= Len(Tail(ready)) /\ ReadyArePending'
  BY <1>1, <1>2, FinishReady
<1>6. /\ Accounting' /\ StopRecorded' /\ ResourcesExclusive'
      /\ active' \in Nat /\ finished' \in Nat
  BY <1>1, <1>2, FinishLimits
<1>7. DependenciesFirst'
  BY <1>1, <1>2, FinishOrder
<1>8. /\ level' \in [Procs -> Nat] /\ held' \subseteq Resources /\ devices' \subseteq Scopes
      /\ stopped' \in BOOLEAN /\ data' \in [Inventories -> SUBSET Types]
  BY <1>1, <1>2, FinishTypes
<1>9. CompletedAreRunning'
  <2>1. ToSet(completed) \subseteq Procs
    BY LenProperties DEF IInv, TypeOK, ToSet
  <2>2. k \notin ToSet(completed)
    BY <1>1 DEF IInv, CompletedAreRunning
  <2> QED
    BY <1>2, <1>3, <2>1, <2>2 DEF IInv, CompletedAreRunning
<1>10. left' \in 0..Len(ready')
  <2>1. Len(Tail(ready)) \in Nat /\ Len(ready') \in Nat
    BY <1>1, <1>5, LenProperties
  <2> QED
    BY <1>1, <1>5, <2>1
<1>11. TypeOK'
  <2>1. TypeOK
    BY DEF IInv
  <2> QED
    BY <2>1, <1>2, <1>3, <1>4, <1>5, <1>6, <1>8, <1>10 DEF TypeOK
<1> QED
  BY <1>4, <1>5, <1>6, <1>7, <1>9, <1>11 DEF IInv

LEMMA BlockKeepsIInv == ASSUME IInv, NEW k \in Procs, Block(k) PROVE IInv'
<1>1. Visit(k) /\ Finish(k, "BLOCKED", Tail(ready))
  BY DEF Block
<1>2. RootCauses(k) \subseteq Procs /\ causes \in [Procs -> SUBSET Procs]
  <2>1. NotSucceeded(k) \subseteq Procs
    BY <1>1, VisitedKey DEF NotSucceeded
  <2>2. causes \in [Procs -> SUBSET Procs]
    BY DEF IInv, TypeOK
  <2> QED
    BY <2>1, <2>2 DEF RootCauses
<1>3. causes' \in [Procs -> SUBSET Procs] /\ progressed' \in BOOLEAN
  BY <1>2 DEF Block
<1> QED
  BY <1>1, <1>3, SkipKeepsIInv DEF Block

LEMMA CancelKeepsIInv == ASSUME IInv, NEW k \in Procs, Cancel(k) PROVE IInv'
<1>1. causes' \in [Procs -> SUBSET Procs] /\ progressed' \in BOOLEAN
  BY DEF Cancel, IInv, TypeOK
<1> QED
  BY <1>1, SkipKeepsIInv DEF Cancel

\* The parts of the invariant that speak of states and resources only.
LEMMA Frame ==
  ASSUME IInv, UNCHANGED <<graph, execVars, limitVars>>
  PROVE  /\ StopRecorded' /\ DependenciesFirst' /\ ResourcesExclusive'
         /\ Running' = Running /\ (KeysVerified' <=> KeysVerified)
         /\ \A p \in Procs : Unsettled(p)' = Unsettled(p)
<1>1. /\ graph' = graph /\ state' = state /\ stopped' = stopped /\ active' = active
      /\ held' = held
  BY DEF execVars, limitVars
<1>2. Running' = Running
  BY <1>1 DEF Running
<1>3. StopRecorded'
  BY <1>1 DEF IInv, StopRecorded
<1>4. DependenciesFirst'
  BY <1>1 DEF IInv, DependenciesFirst, Prereqs
<1>5. ResourcesExclusive'
  BY <1>1, <1>2 DEF IInv, ResourcesExclusive
<1>6. KeysVerified' <=> KeysVerified
  BY <1>1 DEF KeysVerified, Prereqs
<1> QED
  BY <1>1, <1>2, <1>3, <1>4, <1>5, <1>6 DEF Unsettled, Prereqs

\* A step that leaves the results alone and does not go back to working.
LEMMA ControlStep ==
  ASSUME IInv, UNCHANGED <<graph, execVars, limitVars, pending, ready, finished, outcome, completed>>,
         TypeOK', Working' => Working, pc' # "verify", Returned' => Running = {}
  PROVE  IInv'
<1>1. /\ StopRecorded' /\ DependenciesFirst' /\ ResourcesExclusive'
      /\ Running' = Running /\ (KeysVerified' <=> KeysVerified)
      /\ \A p \in Procs : Unsettled(p)' = Unsettled(p)
  BY Frame
<1>2. state' = state /\ active' = active /\ held' = held
  BY DEF execVars, limitVars
<1>3. PendingCounts'
  BY <1>1, <1>2 DEF IInv, PendingCounts
<1>4. ReadyArePending'
  BY <1>2 DEF IInv, ReadyArePending
<1>5. CompletedAreRunning'
  BY <1>2 DEF IInv, CompletedAreRunning
<1>6. Accounting'
  BY <1>1, <1>2 DEF IInv, Accounting
<1> QED
  BY <1>1, <1>3, <1>4, <1>5, <1>6 DEF IInv

\* A visited key that has to wait goes to the back of the queue.
LEMMA DeferKeepsIInv == ASSUME IInv, NEW k \in Procs, Defer(k) PROVE IInv'
<1>1. /\ Visit(k) /\ ready' = Append(Tail(ready), k) /\ UNCHANGED <<graph, pc, execVars,
            pending, progressed, finished, poolVars, limitVars>>
  BY DEF Defer
<1>2. /\ Working /\ state[k] = "PENDING" /\ pending[k] = 0
      /\ Tail(ready) \in Seq(Procs) /\ IsInjective(Tail(ready))
      /\ ToSet(Tail(ready)) \subseteq ToSet(ready) \ {k}
      /\ left' \in 0..Len(Tail(ready))
  BY <1>1, VisitedKey
<1>3. /\ ready' \in Seq(Procs) /\ IsInjective(ready') /\ ToSet(ready') = ToSet(Tail(ready)) \cup {k}
      /\ Len(ready') = Len(Tail(ready)) + 1
  BY <1>1, <1>2, AppendToQueue
<1>4. ReadyArePending /\ TypeOK
  BY DEF IInv
<1>5. ReadyArePending'
  BY <1>1, <1>2, <1>3, <1>4 DEF ReadyArePending, Working, execVars
<1>6. left' \in 0..Len(ready')
  <2>1. Len(Tail(ready)) \in Nat
    BY <1>2, LenProperties
  <2> QED
    BY <1>2, <1>3, <2>1
<1>7. TypeOK'
  BY <1>1, <1>3, <1>4, <1>6 DEF TypeOK, execVars, poolVars, limitVars
<1>8. /\ StopRecorded' /\ DependenciesFirst' /\ ResourcesExclusive'
      /\ Running' = Running /\ (KeysVerified' <=> KeysVerified)
      /\ \A p \in Procs : Unsettled(p)' = Unsettled(p)
  BY <1>1, Frame
<1>9. /\ state' = state /\ active' = active /\ held' = held /\ graph' = graph /\ pc' = pc
      /\ pending' = pending /\ completed' = completed /\ outcome' = outcome
      /\ finished' = finished
  BY <1>1 DEF execVars, poolVars, limitVars
<1>10. PendingCounts'
  BY <1>2, <1>8, <1>9 DEF IInv, PendingCounts
<1>11. CompletedAreRunning'
  BY <1>9 DEF IInv, CompletedAreRunning
<1>12. Accounting'
  BY <1>2, <1>8, <1>9 DEF IInv, Accounting, Working, Returned
<1> QED
  BY <1>5, <1>7, <1>8, <1>10, <1>11, <1>12 DEF IInv
\* A dispatched key finds a free thread and its resources free.
LEMMA DispatchKeepsIInv == ASSUME IInv, NEW k \in Procs, Dispatch(k) PROVE IInv'
<1>1. /\ Visit(k) /\ ~Blocked(k) /\ ~MustWait(k)
      /\ ready' = Tail(ready) /\ state' = [state EXCEPT ![k] = "RUNNING"] /\ active' = active + 1
      /\ held' = held \cup graph.res[k] /\ progressed' = TRUE
      /\ devices' = IF k \in graph.opens THEN devices \cup {graph.scope[k]} ELSE devices
      /\ UNCHANGED <<graph, pc, causes, level, stopped, pending, finished, poolVars>>
  BY DEF Dispatch
<1>2. /\ Working /\ pc = "scan" /\ state[k] = "PENDING" /\ pending[k] = 0
      /\ \A d \in Prereqs(k) : state[d] \in Settled
      /\ graph.dep[k] \subseteq Prereqs(k)
      /\ ready' \in Seq(Procs) /\ IsInjective(ready')
      /\ ToSet(ready') \subseteq ToSet(ready) \ {k}
      /\ left' \in 0..Len(ready')
  BY <1>1, VisitedKey
<1>3. TypeOK /\ state \in [Procs -> States]
  BY DEF IInv, TypeOK
<1>4. /\ state' \in [Procs -> States] /\ state'[k] = "RUNNING"
      /\ \A p \in Procs \ {k} : state'[p] = state[p]
  BY <1>1, <1>3 DEF States
<1>5. \A p \in Procs : state'[p] \in Settled <=> state[p] \in Settled
  BY <1>2, <1>4 DEF Settled
<1>6. Running' = Running \cup {k} /\ k \notin Running
  BY <1>2, <1>4 DEF Running
<1>7. TypeOK'
  <2>1. held' \subseteq Resources /\ devices' \subseteq Scopes /\ active' \in Nat
    BY <1>1, <1>3, GraphShape DEF TypeOK
  <2> QED
    BY <1>1, <1>2, <1>3, <1>4, <2>1 DEF TypeOK, poolVars
<1>8. PendingCounts'
  <2>1. KeysVerified /\ PendingCounts
    BY <1>2 DEF IInv, Accounting
  <2>2. \A p \in Procs : Unsettled(p)' = Unsettled(p)
    BY <1>1, <1>5, <2>1 DEF Unsettled, Prereqs, KeysVerified
  <2> QED
    BY <1>1, <1>2, <1>4, <2>1, <2>2 DEF PendingCounts, Working
<1>9. ReadyArePending'
  <2>1. ReadyArePending /\ ToSet(ready') \subseteq Procs
    BY <1>2, LenProperties DEF IInv, ToSet
  <2> QED
    BY <1>1, <1>2, <1>4, <2>1 DEF ReadyArePending, Working
<1>10. CompletedAreRunning'
  <2>1. CompletedAreRunning /\ ToSet(completed) \subseteq Procs
    BY <1>3, LenProperties DEF IInv, TypeOK, ToSet
  <2> QED
    BY <1>1, <1>2, <1>4, <2>1 DEF CompletedAreRunning, poolVars
<1>11. Accounting'
  <2>1. /\ active = Cardinality(Running) /\ held = UNION {graph.res[p] : p \in Running}
        /\ KeysVerified /\ finished = Cardinality({p \in Procs : state[p] \in Settled})
    BY <1>2 DEF IInv, Accounting
  <2>2. Running \in SUBSET Procs /\ IsFiniteSet(Running) /\ Cardinality(Running) \in Nat
    BY SetsOfProcs DEF Running
  <2>3. active' = Cardinality(Running') /\ active' <= Workers
    <3>1. Cardinality(Running \cup {k}) = Cardinality(Running) + 1
      BY <1>6, <2>2, FS_AddElement
    <3>2. active < Workers /\ Workers \in Nat /\ active \in Nat
      BY <1>1, <1>3, <2>1, <2>2, GraphShape DEF MustWait
    <3> QED
      BY <1>1, <1>6, <2>1, <3>1, <3>2
  <2>4. held' = UNION {graph'.res[p] : p \in Running'}
    BY <1>1, <1>6, <2>1
  <2>5. {p \in Procs : state'[p] \in Settled} = {p \in Procs : state[p] \in Settled}
    BY <1>5
  <2>6. KeysVerified'
    BY <1>1, <2>1 DEF KeysVerified, Prereqs
  <2> QED
    BY <1>1, <1>2, <2>1, <2>3, <2>4, <2>5, <2>6 DEF Accounting, Working, Returned
<1>12. StopRecorded'
  <2>1. StopRecorded /\ graph.mandatory \subseteq Procs
    BY <1>3, GraphShape DEF IInv
  <2> QED
    BY <1>1, <1>4, <2>1 DEF StopRecorded, Settled
<1>13. DependenciesFirst'
  <2>1. DependenciesFirst /\ KeysVerified
    BY <1>2 DEF IInv, Accounting
  <2>2. \A p, d \in Procs : state[d] \in Settled => state'[d] = state[d]
    BY <1>2, <1>4 DEF Settled
  <2>3. \A p \in Procs : Prereqs(p) \subseteq Procs /\ graph.dep[p] \subseteq Prereqs(p)
    BY <2>1 DEF KeysVerified, Prereqs
  <2>4. k \notin graph.always => \A d \in graph.dep[k] : state[d] = "SUCCEEDED"
    BY <1>1 DEF Blocked, NotSucceeded
  <2> QED
    BY <1>1, <1>2, <1>4, <2>1, <2>2, <2>3, <2>4 DEF DependenciesFirst, Prereqs
<1>14. ResourcesExclusive'
  <2>1. /\ \A p, q \in Running : p # q => graph.res[p] \cap graph.res[q] = {}
        /\ held = UNION {graph.res[p] : p \in Running}
    BY DEF IInv, Accounting, ResourcesExclusive
  <2>2. \A p \in Running : graph.res[p] \cap graph.res[k] = {}
    BY <1>1, <2>1 DEF MustWait, Busy
  <2>3. \A p, q \in Running' : p # q => graph'.res[p] \cap graph'.res[q] = {}
    BY <1>1, <1>6, <2>1, <2>2
  <2> QED
    BY <1>11, <2>3 DEF ResourcesExclusive, Accounting
<1> QED
  BY <1>7, <1>8, <1>9, <1>10, <1>11, <1>12, <1>13, <1>14 DEF IInv

\* The workers change nothing but their outcome, the data and the completions.
LEMMA RunKeepsIInv == ASSUME IInv, NEW p \in Procs, Run(p) PROVE IInv'
<1>1. PICK o \in Outcomes, w \in SUBSET graph.writes[p] :
        /\ outcome' = [outcome EXCEPT ![p] = o]
        /\ data' = [data EXCEPT ![graph.inv[p]] = @ \cup w]
  BY DEF Run
<1>2. UNCHANGED <<graph, pc, execVars, queueVars, completed, woken, limitVars>>
  BY DEF Run
<1>3. TypeOK /\ CompletedAreRunning
  BY DEF IInv
<1>4. TypeOK'
  <2>1. outcome' \in [Procs -> Outcomes \cup {"none"}] /\ data' \in [Inventories -> SUBSET Types]
    BY <1>1, <1>3, GraphShape DEF TypeOK
  <2> QED
    BY <1>2, <1>3, <2>1 DEF TypeOK, execVars, queueVars, limitVars
<1>5. CompletedAreRunning'
  <2>1. ToSet(completed) \subseteq Procs /\ outcome \in [Procs -> Outcomes \cup {"none"}]
    BY <1>3, LenProperties DEF TypeOK, ToSet
  <2> QED
    BY <1>1, <1>2, <1>3, <2>1 DEF CompletedAreRunning, execVars, Outcomes
<1> QED
  BY <1>2, <1>4, <1>5 DEF IInv, execVars, queueVars, limitVars, PendingCounts, Working, Unsettled,
     Prereqs, ReadyArePending, Accounting, Running, Returned, KeysVerified, StopRecorded,
     DependenciesFirst, ResourcesExclusive

LEMMA PostKeepsIInv == ASSUME IInv, NEW p \in Procs, Post(p) PROVE IInv'
<1>1. /\ pc = "wait" /\ state[p] = "RUNNING" /\ outcome[p] # "none" /\ ~Contains(completed, p)
      /\ completed' = Append(completed, p) /\ woken' = TRUE
      /\ UNCHANGED <<graph, pc, execVars, queueVars, outcome, data, limitVars>>
  BY DEF Post, Notify
<1>2. TypeOK /\ CompletedAreRunning /\ completed \in Seq(Procs)
  BY DEF IInv, TypeOK
<1>3. p \notin ToSet(completed)
  BY <1>1, <1>2, SeqIndices DEF Contains
<1>4. /\ completed' \in Seq(Procs) /\ IsInjective(completed')
      /\ ToSet(completed') = ToSet(completed) \cup {p}
  BY <1>1, <1>2, <1>3, AppendToQueue DEF CompletedAreRunning
<1>5. TypeOK'
  BY <1>1, <1>2, <1>4 DEF TypeOK, execVars, queueVars, limitVars
<1>6. CompletedAreRunning'
  BY <1>1, <1>2, <1>4 DEF CompletedAreRunning, execVars
<1> QED
  BY <1>1, <1>5, <1>6 DEF IInv, execVars, queueVars, limitVars, PendingCounts, Working, Unsettled,
     Prereqs, ReadyArePending, Accounting, Running, Returned, KeysVerified, StopRecorded,
     DependenciesFirst, ResourcesExclusive
\* A verified collection starts with every dependency still to be waited for.
LEMMA StartKeepsIInv == IInv /\ Start => IInv'
<1> SUFFICES ASSUME IInv, Start PROVE IInv'
  OBVIOUS
<1> DEFINE roots == {p \in Procs : Prereqs(p) = {}}
<1>1. /\ pc = "verify" /\ pc' = "drain" /\ VerifyDependencies
      /\ pending' = [p \in Procs |-> Cardinality(Prereqs(p))]
      /\ ready' \in SetToSeqs(roots)
      /\ UNCHANGED <<graph, execVars, left, progressed, finished, poolVars, limitVars>>
  BY DEF Start
<1>2. KeysVerified /\ \A p \in Procs : Prereqs(p) \in SUBSET Procs
  BY <1>1 DEF VerifyDependencies, KeysVerified
<1>3. /\ \A p \in Procs : state[p] = "PENDING"
      /\ finished = 0 /\ completed = << >> /\ TypeOK
  BY <1>1 DEF IInv, Accounting
<1>4. \A p \in Procs : Cardinality(Prereqs(p)) \in Nat /\ IsFiniteSet(Prereqs(p))
  BY <1>2, SetsOfProcs
<1>5. roots \in SUBSET Procs /\ IsFiniteSet(roots)
  BY SetsOfProcs
<1>6. ready' \in Seq(Procs) /\ ToSet(ready') \subseteq roots /\ IsInjective(ready')
  BY <1>1, <1>5, OrderOfSet
<1>7. \A p \in Procs : state'[p] = "PENDING"
  BY <1>1, <1>3 DEF execVars
<1>8. TypeOK'
  <2>1. pending' \in [Procs -> Nat]
    BY <1>1, <1>4
  <2>2. left' = 0 /\ Len(ready') \in Nat
    BY <1>1, <1>6, LenProperties DEF IInv, Accounting
  <2> QED
    BY <1>1, <1>3, <1>6, <2>1, <2>2 DEF TypeOK, execVars, poolVars, limitVars
<1>9. PendingCounts'
  <2>1. \A p \in Procs : Unsettled(p)' = Prereqs(p)
    BY <1>1, <1>2, <1>7 DEF Unsettled, Prereqs, Settled
  <2> QED
    BY <1>1, <1>7, <2>1 DEF PendingCounts
<1>10. ReadyArePending'
  <2>1. \A p \in roots : pending'[p] = 0
    BY <1>1, FS_EmptySet
  <2> QED
    BY <1>5, <1>6, <1>7, <2>1 DEF ReadyArePending
<1>11. CompletedAreRunning'
  BY <1>1, <1>3 DEF CompletedAreRunning, ToSet, IsInjective, poolVars
<1>12. Accounting'
  <2>1. {p \in Procs : state'[p] \in Settled} = {}
    BY <1>7 DEF Settled
  <2> QED
    BY <1>1, <1>2, <1>3, <2>1, FS_EmptySet
       DEF IInv, Accounting, Running, KeysVerified, Prereqs, Returned, execVars, limitVars
<1>13. DependenciesFirst' /\ StopRecorded' /\ ResourcesExclusive'
  BY <1>1 DEF IInv, DependenciesFirst, StopRecorded, ResourcesExclusive, Running, Prereqs,
     execVars, limitVars
<1> QED
  BY <1>8, <1>9, <1>10, <1>11, <1>12, <1>13 DEF IInv

\* When as many have finished as there are processes, every one has settled.
LEMMA EverySettled ==
  ASSUME IInv, Working, AllFinished
  PROVE  \A p \in Procs : state[p] \in Settled
<1> DEFINE S == {p \in Procs : state[p] \in Settled}
<1>1. S \in SUBSET Procs /\ Cardinality(S) = Cardinality(Procs)
  BY DEF IInv, Accounting, AllFinished
<1>2. S = Procs
  BY <1>1, FS_Subset, ConstantsAssumption
<1> QED
  BY <1>2

\* The steps that only move the coordinator's program counter.
LEMMA ControlKeepsIInv ==
  IInv /\ (Refuse \/ BeginPass \/ Return \/ NextPass \/ Wait \/ Wake) => IInv'
<1>1. ASSUME IInv, Refuse PROVE IInv'
  <2>1. Running = {}
    BY <1>1 DEF Refuse, IInv, Accounting, Running
  <2>2. /\ UNCHANGED <<graph, execVars, queueVars, poolVars, limitVars>> /\ pc' = "false"
    BY <1>1 DEF Refuse
  <2>3. TypeOK'
    BY <1>1, <2>2 DEF IInv, TypeOK, execVars, queueVars, poolVars, limitVars
  <2> QED
    BY <1>1, <2>1, <2>2, <2>3, ControlStep DEF Working, queueVars, poolVars
<1>2. ASSUME IInv, BeginPass PROVE IInv'
  <2>1. /\ left' = Len(ready) /\ progressed' = FALSE /\ pc = "drain" /\ pc' = "scan"
        /\ UNCHANGED <<graph, execVars, pending, ready, finished, poolVars, limitVars>>
    BY <1>2 DEF BeginPass, PassLength
  <2>2. TypeOK /\ Len(ready) \in Nat
    BY <1>2, LenProperties DEF IInv, TypeOK
  <2>3. left' \in 0..Len(ready') /\ ready' = ready /\ ready \in Seq(Procs)
    BY <2>1, <2>2 DEF TypeOK
  <2>4. TypeOK'
    BY <2>1, <2>2, <2>3 DEF TypeOK, execVars, poolVars, limitVars
  <2> QED
    BY <1>2, <2>1, <2>4, ControlStep DEF Working, Returned, poolVars
<1>3. ASSUME IInv, Return \/ NextPass \/ Wait PROVE IInv'
  <2>1. /\ pc = "scan" /\ UNCHANGED <<graph, execVars, queueVars, poolVars, limitVars>>
        /\ pc' \in {"true", "false", "drain", "wait"}
        /\ pc' \in {"true", "false"} => AllFinished
    BY <1>3 DEF Return, NextPass, Wait, EndOfPass
  <2>2. AllFinished => Running = {}
    BY <1>3, <2>1, EverySettled DEF Working, Running, Settled
  <2>3. TypeOK'
    BY <1>3, <2>1 DEF IInv, TypeOK, execVars, queueVars, poolVars, limitVars
  <2> QED
    BY <1>3, <2>1, <2>2, <2>3, ControlStep DEF Working, Returned, queueVars, poolVars
<1>4. ASSUME IInv, Wake PROVE IInv'
  <2>1. /\ pc = "wait" /\ pc' = "drain" /\ woken' = FALSE
        /\ UNCHANGED <<graph, execVars, queueVars, outcome, completed, data, limitVars>>
    BY <1>4 DEF Wake
  <2>2. TypeOK'
    BY <1>4, <2>1 DEF IInv, TypeOK, execVars, queueVars, limitVars
  <2> QED
    BY <1>4, <2>1, <2>2, ControlStep DEF Working, Returned, queueVars
<1> QED
  BY <1>1, <1>2, <1>3, <1>4

\* Giving up cancels what is pending; nothing is running then.
LEMMA GiveUpKeepsIInv == IInv /\ GiveUp => IInv'
<1> SUFFICES ASSUME IInv, GiveUp PROVE IInv'
  OBVIOUS
<1>1. /\ pc = "scan" /\ active = 0 /\ pc' = "false" /\ stopped' = TRUE
      /\ state' = [p \in Procs |-> CancelPending(p)]
      /\ UNCHANGED <<graph, causes, level, queueVars, poolVars, limitVars>>
  BY DEF GiveUp, EndOfPass, Stuck
<1>2. Running = {}
  BY <1>1, SetsOfProcs, FS_EmptySet DEF IInv, Accounting, Running
<1>3. TypeOK /\ state \in [Procs -> States]
  BY DEF IInv, TypeOK
<1>4. /\ state' \in [Procs -> States]
      /\ \A p \in Procs : state'[p] = IF state[p] = "PENDING" THEN "CANCELLED" ELSE state[p]
  BY <1>1, <1>3 DEF CancelPending, States
<1>5. Running' = {}
  BY <1>2, <1>4 DEF Running
<1>6. TypeOK'
  BY <1>1, <1>3, <1>4 DEF TypeOK, queueVars, poolVars, limitVars
<1>7. completed = << >> /\ CompletedAreRunning'
  <2>1. ToSet(completed) \subseteq Procs /\ completed \in Seq(Procs)
    BY <1>3, LenProperties DEF TypeOK, ToSet
  <2>2. ToSet(completed) = {}
    BY <1>2, <2>1 DEF IInv, CompletedAreRunning, Running
  <2> QED
    BY <1>1, <2>1, <2>2 DEF IInv, CompletedAreRunning, poolVars, ToSet, IsInjective
<1>8. Accounting'
  BY <1>1, <1>2, <1>5 DEF IInv, Accounting, Working, Returned, limitVars
<1>9. DependenciesFirst'
  <2>1. DependenciesFirst /\ KeysVerified
    BY <1>1 DEF IInv, Accounting, Working
  <2>2. \A p \in Procs : state[p] \in Settled => state'[p] = state[p]
    BY <1>4 DEF Settled
  <2> QED
    BY <1>1, <1>4, <2>1, <2>2 DEF DependenciesFirst, Prereqs, KeysVerified
<1>10. ResourcesExclusive'
  BY <1>2, <1>5, FS_EmptySet, GraphShape DEF IInv, ResourcesExclusive
<1> QED
  BY <1>1, <1>6, <1>7, <1>8, <1>9, <1>10
     DEF IInv, PendingCounts, ReadyArePending, Working, StopRecorded
\* The invariant holds at the start and every step keeps it.
LEMMA InitIInv == Init => IInv
<1> SUFFICES ASSUME Init PROVE IInv
  OBVIOUS
<1> USE ConstantsAssumption DEF Init
<1>1. Running = {}
  BY DEF Running
<1>2. TypeOK
  <2>1. << >> \in Seq(Procs) /\ Len(<< >>) = 0
    BY EmptySeq
  <2>2. ready \in Seq(Procs) /\ completed \in Seq(Procs) /\ left \in 0..Len(ready)
    BY <2>1
  <2> QED
    BY <2>2 DEF TypeOK, States
<1>3. StopRecorded
  BY <1>2, GraphShape DEF StopRecorded, Settled
<1>4. PendingCounts /\ ReadyArePending /\ DependenciesFirst
  BY DEF PendingCounts, ReadyArePending, Working, DependenciesFirst
<1>5. CompletedAreRunning
  BY DEF CompletedAreRunning, ToSet, IsInjective
<1>6. Accounting /\ ResourcesExclusive
  BY <1>1, FS_EmptySet DEF Accounting, Working, Returned, ResourcesExclusive
<1> QED
  BY <1>2, <1>3, <1>4, <1>5, <1>6 DEF IInv

LEMMA NextKeepsIInv == IInv /\ [Next]_vars => IInv'
<1> SUFFICES ASSUME IInv, [Next]_vars PROVE IInv'
  OBVIOUS
<1>1. CASE Coordinator
  BY <1>1, DrainKeepsIInv, BlockKeepsIInv, CancelKeepsIInv, DeferKeepsIInv, DispatchKeepsIInv,
     StartKeepsIInv, ControlKeepsIInv, GiveUpKeepsIInv DEF Coordinator
<1>2. CASE \E p \in Procs : Run(p) \/ Post(p)
  BY <1>2, RunKeepsIInv, PostKeepsIInv
<1>3. CASE UNCHANGED vars
  <2>1. /\ UNCHANGED <<graph, pc, execVars, queueVars, poolVars, limitVars>>
    BY <1>3 DEF vars
  <2>2. StopRecorded' /\ DependenciesFirst' /\ ResourcesExclusive' /\ Running' = Running
        /\ (KeysVerified' <=> KeysVerified) /\ \A p \in Procs : Unsettled(p)' = Unsettled(p)
    BY <2>1, Frame
  <2>3. TypeOK'
    BY <2>1 DEF IInv, TypeOK, execVars, queueVars, poolVars, limitVars
  <2>4. /\ PendingCounts' /\ ReadyArePending' /\ CompletedAreRunning' /\ Accounting'
    BY <2>1, <2>2 DEF IInv, PendingCounts, ReadyArePending, CompletedAreRunning, Accounting,
       Working, Returned, execVars, queueVars, poolVars, limitVars
  <2> QED
    BY <2>2, <2>3, <2>4 DEF IInv
<1> QED
  BY <1>1, <1>2, <1>3 DEF Next, Done

\* Every reachable state satisfies the inductive invariant.
THEOREM Invariance == Spec => []IInv
  BY InitIInv, NextKeepsIInv, PTL DEF Spec

\* The executor's variables have the types they are declared with; the count of
\* open dependencies, in particular, never goes below zero.
THEOREM TypeCorrect == Spec => []TypeOK
<1>1. IInv => TypeOK
  BY DEF IInv
<1> QED
  BY <1>1, Invariance, PTL

\* No two running processes share a resource, and no more run than there are threads.
THEOREM Exclusion == Spec => []ResourcesExclusive
<1>1. IInv => ResourcesExclusive
  BY DEF IInv
<1> QED
  BY <1>1, Invariance, PTL

\* A process is dispatched or found blocked only after all that it waits for.
THEOREM Order == Spec => []DependenciesFirst
<1>1. IInv => DependenciesFirst
  BY DEF IInv
<1> QED
  BY <1>1, Invariance, PTL
-----------------------------------------------------------------------------
(***************************************************************************)
(* The executor implements DagExecution: a drained completion ends a       *)
(* process, a visit starts or skips one, and all the rest is stuttering.   *)
(***************************************************************************)
\* The coordinator's step is also a step of the contract.
LEMMA SettlementRefines ==
  ASSUME IInv, Working, pc' = pc, graph' = graph, NEW k \in Procs, NEW s \in Settled,
         state' = [state EXCEPT ![k] = s],
         \/ state[k] = "RUNNING" /\ s \in {"SUCCEEDED", "FAILED"}
         \/ /\ state[k] = "PENDING" /\ \A d \in Prereqs(k) : state[d] \in Settled
            /\ s = IF Blocked(k) THEN "BLOCKED" ELSE "CANCELLED"
  PROVE  Contract!Next
<1>1. ~Returned /\ ~Returned'
  BY DEF Working, Returned
<1>2. CASE state[k] = "RUNNING" /\ s \in {"SUCCEEDED", "FAILED"}
  <2>1. Contract!End(k)
    BY <1>1, <1>2 DEF Contract!End, Contract!Move
  <2> QED
    BY <2>1 DEF Contract!Next
<1>3. CASE /\ state[k] = "PENDING" /\ \A d \in Prereqs(k) : state[d] \in Settled
           /\ s = IF Blocked(k) THEN "BLOCKED" ELSE "CANCELLED"
  <2>1. Contract!Waited(k)
    BY <1>3 DEF Contract!Waited, Contract!Settled, Settled, Prereqs
  <2>2. Contract!Allowed(k) <=> ~Blocked(k)
    BY DEF Contract!Allowed, Blocked, NotSucceeded
  <2>3. Contract!Block(k) \/ Contract!Cancel(k)
    BY <1>1, <1>3, <2>1, <2>2 DEF Contract!Block, Contract!Cancel, Contract!Move
  <2> QED
    BY <2>3 DEF Contract!Next
<1> QED
  BY <1>2, <1>3

LEMMA DispatchRefines ==
  ASSUME IInv, NEW k \in Procs, Dispatch(k)
  PROVE  Contract!Next
<1>1. /\ Visit(k) /\ ~Blocked(k) /\ ~stopped /\ ~MustWait(k) /\ graph' = graph /\ pc' = pc
      /\ state' = [state EXCEPT ![k] = "RUNNING"]
  BY DEF Dispatch
<1>2. /\ Working /\ state[k] = "PENDING" /\ \A d \in Prereqs(k) : state[d] \in Settled
  BY <1>1, VisitedKey
<1>3. ~Returned /\ ~Returned'
  BY <1>1, <1>2 DEF Working, Returned
<1>4. Contract!Waited(k) /\ Contract!Allowed(k)
  BY <1>1, <1>2 DEF Contract!Waited, Contract!Allowed, Contract!Settled, Settled, Prereqs,
     Blocked, NotSucceeded
<1>5. ~Contract!Halted
  BY <1>1 DEF IInv, StopRecorded, Contract!Halted, Contract!Settled, Settled
<1>6. Contract!Running = Running
  BY DEF Contract!Running, Running
<1>7. Cardinality(Running) < Workers
  <2>1. active = Cardinality(Running) /\ ~(active >= Workers)
    BY <1>1 DEF IInv, Accounting, MustWait
  <2>2. Cardinality(Running) \in Nat /\ Workers \in Nat
    BY SetsOfProcs, ConstantsAssumption DEF Running
  <2> QED
    BY <2>1, <2>2
<1>8. \A q \in Running : graph.res[k] \cap graph.res[q] = {}
  BY <1>1 DEF IInv, Accounting, MustWait, Busy
<1>9. Contract!Move(k, "PENDING", "RUNNING")
  BY <1>1, <1>2, <1>3 DEF Contract!Move
<1>10. Contract!Cardinality(Running) = Cardinality(Running)
  BY Zenon DEF Contract!Cardinality, Contract!IsFiniteSet, Cardinality, IsFiniteSet
<1>11. Contract!Start(k)
  BY <1>4, <1>5, <1>6, <1>7, <1>8, <1>9, <1>10 DEF Contract!Start
<1> QED
  BY <1>11 DEF Contract!Next

\* The steps that end the execution.
LEMMA EndingRefines ==
  ASSUME IInv, Refuse \/ Return \/ GiveUp
  PROVE  Contract!Next
<1>1. CASE Refuse
  <2>1. \A p \in Procs : state[p] = "PENDING"
    BY <1>1 DEF Refuse, IInv, Accounting
  <2>2. Contract!Refuse
    BY <1>1, <2>1 DEF Refuse, Contract!Refuse, Returned, execVars
  <2> QED
    BY <2>2 DEF Contract!Next
<1>2. CASE Return
  <2>1. \A p \in Procs : state[p] \in Settled
    BY <1>2, EverySettled DEF Return, EndOfPass, Working
  <2>2. Contract!Return
    BY <1>2, <2>1 DEF Return, EndOfPass, Contract!Return, Contract!Settled, Settled, Returned, execVars
  <2> QED
    BY <2>2 DEF Contract!Next
<1>3. CASE GiveUp
  <2>1. active = 0 /\ Running \in SUBSET Procs /\ active = Cardinality(Running)
    BY <1>3 DEF GiveUp, Stuck, IInv, Accounting, Running
  <2>2. Running = {}
    BY <2>1, SetsOfProcs, FS_EmptySet
  <2>3. Contract!Abandon
    BY <1>3, <2>2 DEF GiveUp, EndOfPass, CancelPending, Contract!Abandon, Contract!Running, Running,
       Returned
  <2> QED
    BY <2>3 DEF Contract!Next
<1> QED
  BY <1>1, <1>2, <1>3

LEMMA StepRefines == IInv /\ [Next]_vars => [Contract!Next]_(Contract!vars)
<1> SUFFICES ASSUME IInv, [Next]_vars PROVE [Contract!Next]_(Contract!vars)
  OBVIOUS
<1>1. CASE Drain
  <2> DEFINE k == Head(completed)
             s == IF outcome[k] = "ok" /\ ~DfxStop(k) THEN "SUCCEEDED" ELSE "FAILED"
  <2>1. k \in Procs /\ state[k] = "RUNNING"
    <3>1. completed \in Seq(Procs) /\ completed # << >> /\ CompletedAreRunning
      BY <1>1 DEF Drain, IInv, TypeOK
    <3>2. k \in Procs /\ k \in ToSet(completed)
      BY <3>1, TailOfQueue DEF CompletedAreRunning
    <3> QED
      BY <3>1, <3>2 DEF CompletedAreRunning
  <2>2. state' = [state EXCEPT ![k] = s] /\ graph' = graph /\ pc' = pc /\ Working
    BY <1>1 DEF Drain, Finish, Working
  <2>3. s \in {"SUCCEEDED", "FAILED"} /\ s \in Settled
    BY DEF Settled
  <2> HIDE DEF k, s
  <2> QED
    BY <2>1, <2>2, <2>3, SettlementRefines
<1>2. ASSUME NEW k \in Procs, Block(k) \/ Cancel(k) PROVE Contract!Next
  <2>1. Visit(k) /\ graph' = graph /\ pc' = pc
    BY <1>2 DEF Block, Cancel
  <2>2. Working /\ state[k] = "PENDING" /\ \A d \in Prereqs(k) : state[d] \in Settled
    BY <2>1, VisitedKey
  <2> DEFINE s == IF Blocked(k) THEN "BLOCKED" ELSE "CANCELLED"
  <2>3. state' = [state EXCEPT ![k] = s] /\ s \in Settled
    BY <1>2 DEF Block, Cancel, Finish, Settled
  <2> QED
    BY <2>1, <2>2, <2>3, SettlementRefines
<1>3. ASSUME NEW k \in Procs, Dispatch(k) PROVE Contract!Next
  BY <1>3, DispatchRefines
<1>4. CASE Refuse \/ Return \/ GiveUp
  BY <1>4, EndingRefines
<1>5. ASSUME UNCHANGED <<graph, state>>, Returned' <=> Returned, pc' = pc \/ ~Returned
      PROVE  UNCHANGED Contract!vars
  BY <1>5 DEF Contract!vars
<1>6. CASE Start \/ BeginPass \/ NextPass \/ Wait \/ Wake
  BY <1>5, <1>6 DEF Start, BeginPass, NextPass, Wait, Wake, EndOfPass, Returned, execVars
<1>7. ASSUME NEW k \in Procs, Defer(k) \/ Run(k) \/ Post(k) PROVE UNCHANGED Contract!vars
  BY <1>5, <1>7 DEF Defer, Run, Post, Returned, execVars
<1>8. CASE UNCHANGED vars
  BY <1>5, <1>8 DEF vars, execVars, Returned
<1> QED
  BY <1>1, <1>2, <1>3, <1>4, <1>6, <1>7, <1>8 DEF Next, Coordinator, Done

\* Whatever the graph and the options, ExecuteProcess keeps the contract of
\* DagExecution: order, exclusion, blocking, stopping and the verdict.
THEOREM Implementation == Spec => ImplementsContract
<1>1. Init => Contract!Init
  BY DEF Init, Contract!Init, Returned
<1>2. IInv /\ [Next]_vars => [Contract!Next]_(Contract!vars)
  BY StepRefines
<1> QED
  BY <1>1, <1>2, Invariance, PTL DEF Spec, ImplementsContract, Contract!Spec
-----------------------------------------------------------------------------
(***************************************************************************)
(* Stopping, and the data of the inventories.                              *)
(***************************************************************************)
\* A DFX stop that a worker reported is in stopped once it is drained.
DfxRecorded ==
  ~stopped => \A p \in StopAt : ~(state[p] = "FAILED" /\ outcome[p] \in {"ok", "error"})

\* Once all have settled, nobody wants any data.
NothingWanted ==
  ReleaseUnusedData /\ AllFinished => \A i \in Inventories : data[i] = {}

DInv == DfxRecorded /\ SucceededDataKept /\ NothingWanted

\* What Drain, Block and Cancel have in common: somebody settles.
Settles(k, s) ==
  /\ state[k] \in {"PENDING", "RUNNING"} /\ (s = "FAILED" => state[k] = "RUNNING")
  /\ state' = [state EXCEPT ![k] = s] /\ finished' = finished + 1
  /\ stopped' = (stopped \/ StopsRun(k, s)) /\ data' = ReleaseUnused(s, state')
  /\ UNCHANGED <<graph, pc, outcome>> /\ Working

\* Every step settles a process, dispatches one, runs one, gives up, or leaves alone
\* what these are about.
LEMMA KindsOfSteps ==
  ASSUME IInv, [Next]_vars
  PROVE  \/ \E k \in Procs, s \in Settled : Settles(k, s)
         \/ \E k \in Procs : Dispatch(k) \/ Run(k)
         \/ GiveUp
         \/ /\ UNCHANGED <<graph, state, stopped, outcome, data, finished>>
            /\ pc' = "true" => pc = "true" \/ Return
<1>1. CASE Drain
  <2>1. completed \in Seq(Procs) /\ completed # << >> /\ CompletedAreRunning
    BY <1>1 DEF Drain, IInv, TypeOK
  <2>2. Head(completed) \in Procs /\ Head(completed) \in ToSet(completed)
    BY <2>1, TailOfQueue DEF CompletedAreRunning
  <2>3. state[Head(completed)] = "RUNNING"
    BY <2>1, <2>2 DEF CompletedAreRunning
  <2>4. \E s \in Settled : Settles(Head(completed), s)
    BY <1>1, <2>3 DEF Drain, Finish, Settles, Settled, Working
  <2> QED
    BY <2>2, <2>4
<1>2. ASSUME NEW k \in Procs, Block(k) \/ Cancel(k) PROVE \E s \in Settled : Settles(k, s)
  <2>1. Visit(k)
    BY <1>2 DEF Block, Cancel
  <2>2. state[k] = "PENDING" /\ Working
    BY <2>1, VisitedKey
  <2> QED
    BY <1>2, <2>2 DEF Block, Cancel, Finish, Settles, Settled
<1>3. CASE Refuse \/ Start \/ BeginPass \/ Return \/ NextPass \/ Wait \/ Wake
  BY <1>3 DEF Refuse, Start, BeginPass, Return, NextPass, Wait, Wake, execVars, queueVars,
              poolVars
<1>4. ASSUME NEW k \in Procs, Defer(k) \/ Post(k)
      PROVE  UNCHANGED <<graph, state, stopped, outcome, data, finished, pc>>
  BY <1>4 DEF Defer, Post, execVars, queueVars, poolVars
<1>5. CASE UNCHANGED vars
  BY <1>5 DEF vars, execVars, queueVars, poolVars
<1> QED
  BY <1>1, <1>2, <1>3, <1>4, <1>5 DEF Next, Coordinator, Done

LEMMA InitDInv == Init => DInv
<1> SUFFICES ASSUME Init PROVE DInv
  OBVIOUS
<1>1. /\ \A p \in Procs : state[p] = "PENDING" /\ outcome[p] = "none"
      /\ \A i \in Inventories : data[i] = {}
  BY DEF Init
<1> QED
  BY <1>1, ConstantsAssumption DEF DInv, DfxRecorded, SucceededDataKept, NothingWanted

\* What is released when k settles: all that no pending or running process reads.
LEMMA SettlesKeepsDInv ==
  ASSUME IInv, IInv', DInv, NEW k \in Procs, NEW s \in Settled, Settles(k, s)
  PROVE  DInv'
<1>1. /\ state \in [Procs -> States] /\ state' = [state EXCEPT ![k] = s]
      /\ data \in [Inventories -> SUBSET Types] /\ graph' = graph /\ outcome' = outcome
      /\ graph.inv \in [Procs -> Inventories]
  BY GraphShape DEF IInv, TypeOK, Settles
<1>2. s \notin {"PENDING", "RUNNING"}
  BY DEF Settled
<1>3. \/ data' = data /\ ~ReleaseUnusedData
      \/ data' = [i \in Inventories |-> data[i] \cap Kept(i, state')] /\ ReleaseUnusedData
  BY DEF Settles, ReleaseUnused
<1>4. DfxRecorded'
  <2> SUFFICES ASSUME ~stopped', NEW p \in StopAt
               PROVE  ~(state'[p] = "FAILED" /\ outcome[p] \in {"ok", "error"})
    BY <1>1 DEF DfxRecorded
  <2>1. ~stopped /\ ~StopsRun(k, s) /\ p \in Procs
    BY ConstantsAssumption DEF Settles
  <2>2. CASE p = k
    BY <2>1, <2>2 DEF StopsRun, DfxStop
  <2>3. CASE p # k
    BY <1>1, <2>1, <2>3 DEF DInv, DfxRecorded
  <2> QED
    BY <2>2, <2>3
<1>5. SucceededDataKept'
  <2> SUFFICES ASSUME NEW p \in Procs, NEW c \in Procs, outcome[p] = "ok",
                      graph.inv[p] = graph.inv[c], state'[c] \in {"PENDING", "RUNNING"}
               PROVE  graph.writes[p] \cap graph.reads[c] \subseteq data'[graph.inv[c]]
    BY <1>1 DEF SucceededDataKept
  <2>1. state[c] = state'[c]
    BY <1>1, <1>2
  <2>2. graph.writes[p] \cap graph.reads[c] \subseteq data[graph.inv[c]]
    BY <2>1 DEF DInv, SucceededDataKept
  <2>3. graph.reads[c] \subseteq Kept(graph.inv[c], state')
    BY DEF Kept
  <2> QED
    BY <1>1, <1>3, <2>2, <2>3
<1>6. NothingWanted'
  <2> SUFFICES ASSUME ReleaseUnusedData, AllFinished', NEW i \in Inventories
               PROVE  data'[i] = {}
    BY DEF NothingWanted
  <2>1. Working'
    BY DEF Settles, Working
  <2>2. \A p \in Procs : state'[p] \in Settled
    <3> DEFINE S == {p \in Procs : state'[p] \in Settled}
    <3>1. S \in SUBSET Procs /\ Cardinality(S) = Cardinality(Procs)
      BY <2>1 DEF IInv, Accounting, AllFinished
    <3>2. S = Procs
      BY <3>1, FS_Subset, ConstantsAssumption
    <3> QED
      BY <3>2
  <2>3. Kept(i, state') = {}
    BY <2>2 DEF Kept, Settled
  <2> QED
    BY <1>3, <2>3
<1> QED
  BY <1>4, <1>5, <1>6 DEF DInv

LEMMA RunKeepsDInv ==
  ASSUME IInv, DInv, NEW k \in Procs, Run(k)
  PROVE  DInv'
<1>1. /\ state \in [Procs -> States] /\ data \in [Inventories -> SUBSET Types]
      /\ graph.inv \in [Procs -> Inventories] /\ outcome \in [Procs -> Outcomes \cup {"none"}]
  BY GraphShape DEF IInv, TypeOK
<1>2. /\ UNCHANGED <<graph, state, stopped, finished>> /\ state[k] = "RUNNING"
      /\ \E o \in Outcomes, w \in SUBSET graph.writes[k] :
           /\ o = "ok" => w = graph.writes[k]
           /\ outcome' = [outcome EXCEPT ![k] = o]
           /\ data' = [data EXCEPT ![graph.inv[k]] = @ \cup w]
  BY DEF Run, execVars, queueVars
<1>3. DfxRecorded'
  BY <1>1, <1>2, ConstantsAssumption DEF DInv, DfxRecorded
<1>4. SucceededDataKept'
  BY <1>1, <1>2 DEF DInv, SucceededDataKept
<1>5. NothingWanted'
  <2>1. ~AllFinished
    <3>1. Working
      BY <1>2 DEF IInv, Accounting, Running, TypeOK, Working, Returned
    <3> QED
      BY <1>2, <3>1, EverySettled DEF Settled
  <2> QED
    BY <1>2, <2>1 DEF NothingWanted, AllFinished
<1> QED
  BY <1>3, <1>4, <1>5 DEF DInv

LEMMA NextKeepsDInv == IInv /\ IInv' /\ DInv /\ [Next]_vars => DInv'
<1> SUFFICES ASSUME IInv, IInv', DInv, [Next]_vars PROVE DInv'
  OBVIOUS
<1>1. ASSUME NEW k \in Procs, Dispatch(k) PROVE DInv'
  <2>1. /\ state \in [Procs -> States] /\ state' = [state EXCEPT ![k] = "RUNNING"]
        /\ UNCHANGED <<graph, stopped, outcome, data, finished>>
    BY <1>1 DEF IInv, TypeOK, Dispatch, poolVars
  <2>2. state[k] = "PENDING"
    BY <1>1, VisitedKey DEF Dispatch
  <2> QED
    BY <2>1, <2>2, ConstantsAssumption
       DEF DInv, DfxRecorded, SucceededDataKept, NothingWanted, AllFinished
<1>2. CASE GiveUp
  <2>1. /\ state' = [p \in Procs |-> CancelPending(p)] /\ stopped'
        /\ UNCHANGED <<graph, outcome, data, finished>>
    BY <1>2 DEF GiveUp, queueVars, poolVars
  <2> QED
    BY <2>1 DEF CancelPending, DInv, DfxRecorded, SucceededDataKept, NothingWanted, AllFinished
<1>3. CASE UNCHANGED <<graph, state, stopped, outcome, data, finished>>
  BY <1>3 DEF DInv, DfxRecorded, SucceededDataKept, NothingWanted, AllFinished
<1> QED
  BY <1>1, <1>2, <1>3, KindsOfSteps, SettlesKeepsDInv, RunKeepsDInv

LEMMA DataInvariance == Spec => []DInv
  BY InitDInv, NextKeepsDInv, Invariance, PTL DEF Spec

\* What a successful process injected for another is there until that one has run,
\* whatever was released in between.
THEOREM DataKept == Spec => []SucceededDataKept
<1>1. DInv => SucceededDataKept
  BY DEF DInv
<1> QED
  BY <1>1, DataInvariance, PTL

\* When everything has settled, no data is left in any inventory.
THEOREM Released == Spec => []AllReleased
<1>1. DInv => AllReleased
  BY DEF DInv, NothingWanted, AllReleased
<1> QED
  BY <1>1, DataInvariance, PTL

\* After a mandatory failure, or a DFX stop that was reported, nothing is started and
\* the run does not return true.
THEOREM StopIsFinal == Spec => NoStartAfterStop
<1>1. IInv /\ DInv /\ [Next]_vars => [MustStop => Running' \subseteq Running /\ pc' # "true"]_vars
  <2> SUFFICES ASSUME IInv, DInv, Next, MustStop, ~UNCHANGED vars
               PROVE  Running' \subseteq Running /\ pc' # "true"
    OBVIOUS
  <2>1. stopped
    BY DEF MustStop, IInv, StopRecorded, DInv, DfxRecorded
  <2>2. pc # "true"
    <3> SUFFICES ASSUME pc = "true" PROVE FALSE
      OBVIOUS
    <3>1. Running = {}
      BY DEF IInv, Accounting, Returned
    <3>2. ~Coordinator
      BY DEF Coordinator, Refuse, Start, Drain, BeginPass, Block, Cancel, Defer, Dispatch, Visit,
             Return, NextPass, GiveUp, Wait, Wake, EndOfPass
    <3>3. \A p \in Procs : ~Run(p) /\ ~Post(p)
      BY <3>1 DEF Run, Post, Running
    <3> QED
      BY <3>2, <3>3 DEF Next, Done
  <2>3. ASSUME NEW k \in Procs, NEW s \in Settled, Settles(k, s)
        PROVE  Running' \subseteq Running /\ pc' # "true"
    BY <2>2, <2>3 DEF Settles, Settled, Running, IInv, TypeOK
  <2>4. ASSUME NEW k \in Procs, Dispatch(k) PROVE FALSE
    BY <2>1, <2>4 DEF Dispatch
  <2>5. ASSUME NEW k \in Procs, Run(k) PROVE Running' \subseteq Running /\ pc' # "true"
    BY <2>2, <2>5 DEF Run, execVars, Running
  <2>6. CASE GiveUp
    BY <2>6 DEF GiveUp, CancelPending, Running
  <2>7. ~Return \/ pc' # "true"
    BY <2>1 DEF Return
  <2>8. CASE UNCHANGED state /\ (pc' = "true" => pc = "true" \/ Return)
    BY <2>2, <2>7, <2>8 DEF Running
  <2> QED
    BY <2>3, <2>4, <2>5, <2>6, <2>8, KindsOfSteps
<1> QED
  BY <1>1, Invariance, DataInvariance, PTL DEF Spec, NoStartAfterStop
-----------------------------------------------------------------------------
(***************************************************************************)
(* The graph.  Kahn's algorithm, which the verification runs, leaves no    *)
(* room for a cycle: arguments along chains of dependencies may start from *)
(* a first process of any set.                                             *)
(***************************************************************************)
Grounded == \A S \in SUBSET Procs : S # {} => \E p \in S : Prereqs(p) \cap S = {}

\* What a round of Kahn's algorithm makes of the set removed so far.
Round(S) == {p \in Procs : Prereqs(p) \subseteq S}

\* The rounds are a function on the natural numbers.
LEMMA RoundsExist ==
  \E f : f = [n \in Nat |-> IF n = 0 THEN {} ELSE {p \in Procs : Prereqs(p) \subseteq f[n - 1]}]
<1> DEFINE V == SUBSET Procs
           F == [S \in V |-> Round(S)]
<1>1. F \in [V -> V] /\ {} \in V
  BY DEF Round
<1> HIDE DEF F, V
<1>2. PICK f \in [Nat -> V] : f[0] = {} /\ \A n \in Nat : f[n + 1] = F[f[n]]
  <2>1. \A W : \A a \in W : \A G \in [W -> W] :
          \E f \in [Nat -> W] : f[0] = a /\ \A n \in Nat : f[n + 1] = G[f[n]]
    BY Iteration
  <2>2. \A a \in V : \A G \in [V -> V] :
          \E f \in [Nat -> V] : f[0] = a /\ \A n \in Nat : f[n + 1] = G[f[n]]
    BY <2>1
  <2>3. \A G \in [V -> V] :
          \E f \in [Nat -> V] : f[0] = {} /\ \A n \in Nat : f[n + 1] = G[f[n]]
    BY <1>1, <2>2, Zenon
  <2> QED
    BY <1>1, <2>3, Zenon
<1>3. ASSUME NEW n \in Nat, n # 0 PROVE f[n] = {p \in Procs : Prereqs(p) \subseteq f[n - 1]}
  <2>1. n - 1 \in Nat /\ (n - 1) + 1 = n
    BY <1>3
  <2>2. f[n] = F[f[n - 1]] /\ f[n - 1] \in V
    BY <1>2, <2>1
  <2> QED
    BY <2>2 DEF F, V, Round
<1>4. f = [n \in Nat |-> IF n = 0 THEN {} ELSE {p \in Procs : Prereqs(p) \subseteq f[n - 1]}]
  BY <1>2, <1>3
<1> QED
  BY <1>4

\* Nothing that some round removes is on a cycle, or behind one.
LEMMA VerifiedIsGrounded == VerifyDependencies => KeysVerified /\ Grounded
<1> SUFFICES ASSUME VerifyDependencies PROVE KeysVerified /\ Grounded
  OBVIOUS
<1> DEFINE removed == CHOOSE f : f = [n \in Nat |-> IF n = 0 THEN {}
                                        ELSE {p \in Procs : Prereqs(p) \subseteq f[n - 1]}]
<1>1. removed = [n \in Nat |-> IF n = 0 THEN {}
                                 ELSE {p \in Procs : Prereqs(p) \subseteq removed[n - 1]}]
  BY RoundsExist, Zenon
<1>2. KahnRemoved = removed[Cardinality(Procs)]
  BY Zenon DEF KahnRemoved
<1> HIDE DEF removed
<1>3. Cardinality(Procs) \in Nat
  BY SetsOfProcs
<1>4. removed[Cardinality(Procs)] = Procs /\ KeysVerified
  BY <1>2 DEF VerifyDependencies
<1>5. ASSUME NEW S \in SUBSET Procs, S # {} PROVE \E p \in S : Prereqs(p) \cap S = {}
  <2> DEFINE hit == {n \in Nat : removed[n] \cap S # {}}
  <2>1. Cardinality(Procs) \in hit
    BY <1>3, <1>4, <1>5
  <2>2. PICK n \in hit : \A m \in hit : n <= m
    <3>1. hit \in SUBSET Nat /\ hit # {}
      BY <2>1
    <3> HIDE DEF hit
    <3> QED
      BY <3>1, LeastNatural
  <2>3. n # 0 /\ n - 1 \in Nat /\ n - 1 \notin hit
    <3>1. removed[0] = {}
      BY <1>1
    <3>2. n \in Nat /\ n # 0
      BY <2>2, <3>1
    <3>3. n - 1 \in Nat /\ ~(n <= n - 1)
      BY <3>2
    <3> HIDE DEF hit
    <3> QED
      BY <2>2, <3>2, <3>3
  <2>4. removed[n] = {p \in Procs : Prereqs(p) \subseteq removed[n - 1]}
    BY <1>1, <2>2, <2>3
  <2> QED
    BY <2>2, <2>3, <2>4
<1> QED
  BY <1>4, <1>5 DEF Grounded

\* The fields about device scopes.
LEMMA ScopeShape ==
  ASSUME TypeOK
  PROVE  /\ graph.opens \subseteq Procs /\ graph.closes \subseteq Procs
         /\ graph.scope \in [Procs -> Scopes]
         /\ MaxActiveDevices \in Nat /\ StopAt \subseteq Procs
  BY ConstantsAssumption DEF TypeOK, GraphType

\* A dispatched process leaves the queue and takes its place among the running ones.
LEMMA DispatchedKey ==
  ASSUME IInv, NEW k \in Procs, Dispatch(k)
  PROVE  /\ Working /\ state[k] = "PENDING" /\ \A d \in Prereqs(k) : state[d] \in Settled
         /\ state \in [Procs -> States] /\ state' = [state EXCEPT ![k] = "RUNNING"]
         /\ UNCHANGED <<graph, pc, causes, stopped, pending, finished>>
  BY VisitedKey DEF Dispatch, IInv, TypeOK

-----------------------------------------------------------------------------
\* Everything a settlement does, by whichever action.
Settling(k, s) ==
  /\ Working /\ state[k] \in {"PENDING", "RUNNING"} /\ pending[k] = 0
  /\ \A d \in Prereqs(k) : state[d] \in Settled
  /\ UNCHANGED <<graph, pc, outcome>>
  /\ \/ /\ state[k] = "RUNNING" /\ s \in {"SUCCEEDED", "FAILED"} /\ pc = "drain"
        /\ Finish(k, s, ready) /\ UNCHANGED causes
     \/ /\ state[k] = "PENDING" /\ s = "BLOCKED" /\ Block(k)
     \/ /\ state[k] = "PENDING" /\ s = "CANCELLED" /\ Cancel(k)

\* Steps that leave the results, the counts and the limits alone.
Idle ==
  /\ UNCHANGED <<graph, execVars, pending, ready, finished, limitVars>>
  /\ \/ UNCHANGED <<pc, left, progressed>>
     \/ Refuse \/ BeginPass \/ Return \/ NextPass \/ Wait \/ Wake

LEMMA StepsTaken ==
  ASSUME IInv, [Next]_vars
  PROVE  \/ \E k \in Procs, s \in Settled : Settling(k, s)
         \/ \E k \in Procs : Dispatch(k) \/ Defer(k)
         \/ Start \/ GiveUp \/ Idle
<1>1. CASE Drain
  <2> DEFINE k == Head(completed)
             s == IF outcome[k] = "ok" /\ ~DfxStop(k) THEN "SUCCEEDED" ELSE "FAILED"
  <2>1. completed \in Seq(Procs) /\ completed # << >> /\ CompletedAreRunning
    BY <1>1 DEF Drain, IInv, TypeOK
  <2>2. k \in Procs /\ k \in ToSet(completed)
    BY <2>1, TailOfQueue DEF CompletedAreRunning
  <2>3. state[k] = "RUNNING"
    BY <2>1, <2>2 DEF CompletedAreRunning
  <2>4. Working /\ pc = "drain" /\ UNCHANGED <<graph, pc, outcome, causes>> /\ Finish(k, s, ready)
    BY <1>1 DEF Drain, Working
  <2>5. pending[k] = 0 /\ \A d \in Prereqs(k) : state[d] \in Settled
    BY <2>2, <2>3, <2>4 DEF IInv, PendingCounts, DependenciesFirst
  <2>6. s \in {"SUCCEEDED", "FAILED"} /\ s \in Settled
    BY DEF Settled
  <2> HIDE DEF k, s
  <2>7. Settling(k, s)
    BY <2>3, <2>4, <2>5, <2>6 DEF Settling
  <2> QED
    BY <2>2, <2>6, <2>7
<1>2. ASSUME NEW k \in Procs, Block(k) \/ Cancel(k) PROVE \E s \in Settled : Settling(k, s)
  <2>1. Visit(k)
    BY <1>2 DEF Block, Cancel
  <2>2. /\ state[k] = "PENDING" /\ Working /\ pending[k] = 0
        /\ \A d \in Prereqs(k) : state[d] \in Settled
    BY <2>1, VisitedKey
  <2>3. UNCHANGED <<graph, pc, outcome>>
    BY <1>2 DEF Block, Cancel
  <2> QED
    BY <1>2, <2>2, <2>3 DEF Settling, Settled
<1>3. CASE Refuse \/ BeginPass \/ Return \/ NextPass \/ Wait \/ Wake
  <2>1. UNCHANGED <<graph, execVars, pending, ready, finished, limitVars>>
    BY <1>3 DEF Refuse, BeginPass, Return, NextPass, Wait, Wake, queueVars
  <2> QED
    BY <1>3, <2>1 DEF Idle
<1>4. ASSUME NEW k \in Procs, Run(k) \/ Post(k) PROVE Idle
  BY <1>4 DEF Run, Post, queueVars, Idle
<1>5. CASE UNCHANGED vars
  BY <1>5 DEF vars, queueVars, Idle
<1> QED
  BY <1>1, <1>2, <1>3, <1>4, <1>5 DEF Next, Coordinator, Done

\* The results after a settlement; only k's change, and it had not settled before.
LEMMA Settlement ==
  ASSUME IInv, NEW k \in Procs, NEW s \in Settled, Settling(k, s)
  PROVE  /\ state \in [Procs -> States] /\ state' = [state EXCEPT ![k] = s]
         /\ state[k] \notin Settled /\ graph' = graph /\ pc' = pc
         /\ devices' = DevicesAfter(k) /\ finished' = finished + 1
         /\ stopped' = (stopped \/ StopsRun(k, s))
         /\ KeysVerified /\ Prereqs(k) \subseteq Procs /\ graph.dep[k] \subseteq Prereqs(k)
         /\ causes \in [Procs -> SUBSET Procs]
         /\ s = "BLOCKED" => Blocked(k) /\ causes' = [causes EXCEPT ![k] = RootCauses(k)]
         /\ s # "BLOCKED" => causes' = causes
         /\ s = "CANCELLED" => stopped
<1>1. state[k] \notin Settled
  BY DEF Settling, Settled
<1>2. KeysVerified /\ state \in [Procs -> States] /\ causes \in [Procs -> SUBSET Procs]
  BY DEF Settling, IInv, Accounting, TypeOK
<1> QED
  BY <1>1, <1>2 DEF Settling, Finish, Block, Cancel, KeysVerified, Prereqs
-----------------------------------------------------------------------------
(***************************************************************************)
(* Blocking and its causes.                                                *)
(***************************************************************************)
\* Nothing moves in a collection that is not verified.
Started == Working \/ \E p \in Procs : state[p] # "PENDING"
VerifiedGraph == Started => KeysVerified /\ Grounded

\* A blocked process has the causes of the dependencies that did not succeed.
CausesOf(d) == IF state[d] = "BLOCKED" THEN causes[d] ELSE {d}
LocalCauses ==
  \A p \in Procs :
    /\ state[p] = "BLOCKED" => /\ p \notin graph.always /\ causes[p] # {}
                               /\ causes[p] = UNION {CausesOf(d) : d \in NotSucceeded(p)}
    /\ state[p] # "BLOCKED" => causes[p] = {}

\* Without a reason to stop nothing is cancelled.
NothingCancelled ==
  ~StopOnMandatory /\ StopAt = {} =>
    /\ ~Returned => ~stopped
    /\ ~Returned \/ AllFinished => \A p \in Procs : state[p] # "CANCELLED"

EndSettled == Returned /\ AllFinished => \A p \in Procs : state[p] \in Settled

GraphInv == VerifiedGraph /\ LocalCauses /\ NothingCancelled /\ EndSettled

LEMMA InitGraphInv == Init => GraphInv
<1> SUFFICES ASSUME Init PROVE GraphInv
  OBVIOUS
<1>1. /\ \A p \in Procs : state[p] = "PENDING" /\ causes[p] = {}
      /\ pc = "verify" /\ stopped = FALSE
  BY DEF Init
<1> QED
  BY <1>1 DEF GraphInv, VerifiedGraph, Started, Working, LocalCauses, NothingCancelled,
              EndSettled, Returned

\* What a blocked process waited for has settled and is a process.
LEMMA BlockedWaited ==
  ASSUME IInv, VerifiedGraph, NEW p \in Procs, state[p] = "BLOCKED"
  PROVE  /\ KeysVerified /\ Grounded
         /\ \A d \in NotSucceeded(p) : /\ d \in Procs /\ d \in Prereqs(p)
                                       /\ state[d] \in Settled /\ state[d] # "SUCCEEDED"
<1>1. KeysVerified /\ Grounded
  BY DEF VerifiedGraph, Started
<1> QED
  BY <1>1 DEF IInv, DependenciesFirst, NotSucceeded, KeysVerified, Prereqs

\* Steps that block nobody keep the causes.
LEMMA CausesKept ==
  ASSUME IInv, VerifiedGraph, LocalCauses, graph' = graph, causes' = causes,
         \A p \in Procs : state[p] \in Settled => state'[p] = state[p],
         \A p \in Procs : state'[p] = "BLOCKED" => state[p] = "BLOCKED"
  PROVE  LocalCauses'
<1> SUFFICES ASSUME NEW p \in Procs
             PROVE  /\ state'[p] = "BLOCKED" =>
                         /\ p \notin graph.always /\ causes[p] # {}
                         /\ causes[p] = UNION {CausesOf(d)' : d \in NotSucceeded(p)'}
                    /\ state'[p] # "BLOCKED" => causes[p] = {}
  BY DEF LocalCauses
<1>1. CASE state'[p] = "BLOCKED"
  <2>1. state[p] = "BLOCKED"
    BY <1>1
  <2>2. \A d \in NotSucceeded(p) : d \in Procs /\ state[d] \in Settled
    BY <2>1, BlockedWaited
  <2>3. \A d \in graph.dep[p] : d \in Procs /\ state'[d] = state[d]
    BY <2>1, BlockedWaited DEF NotSucceeded, KeysVerified, Prereqs, IInv, DependenciesFirst
  <2>4. NotSucceeded(p)' = NotSucceeded(p)
    BY <2>3 DEF NotSucceeded
  <2>5. \A d \in NotSucceeded(p) : CausesOf(d)' = CausesOf(d)
    BY <2>3 DEF CausesOf, NotSucceeded
  <2>6. UNION {CausesOf(d)' : d \in NotSucceeded(p)'} = UNION {CausesOf(d) : d \in NotSucceeded(p)}
    BY <2>4, <2>5
  <2> QED
    BY <1>1, <2>1, <2>6 DEF LocalCauses
<1>2. CASE state'[p] # "BLOCKED"
  <2>1. state[p] # "BLOCKED"
    BY <1>2 DEF Settled
  <2> QED
    BY <1>2, <2>1 DEF LocalCauses
<1> QED
  BY <1>1, <1>2

\* A process found blocked takes over the causes of its dependencies.
LEMMA CausesTaken ==
  ASSUME IInv, VerifiedGraph, LocalCauses, NEW k \in Procs, Settling(k, "BLOCKED")
  PROVE  LocalCauses'
<1>1. /\ state \in [Procs -> States] /\ state' = [state EXCEPT ![k] = "BLOCKED"]
      /\ state[k] \notin Settled /\ graph' = graph /\ KeysVerified
      /\ causes \in [Procs -> SUBSET Procs]
      /\ Blocked(k) /\ causes' = [causes EXCEPT ![k] = RootCauses(k)]
  <2>1. "BLOCKED" \in Settled
    BY DEF Settled
  <2> QED
    BY <2>1, Settlement
<1>2. \A d \in Prereqs(k) : state[d] \in Settled /\ d \in Procs /\ d # k
  BY <1>1 DEF Settling, KeysVerified
<1>3. \A p \in Procs \ {k} : state'[p] = state[p] /\ causes'[p] = causes[p]
  BY <1>1
<1>4. \A d \in Procs \ {k} : /\ CausesOf(d)' = CausesOf(d)
                             /\ CausesOf(d) = IF causes[d] = {} THEN {d} ELSE causes[d]
  BY <1>3 DEF CausesOf, LocalCauses
<1>5. ASSUME NEW p \in Procs, p = k
      PROVE  /\ state'[p] = "BLOCKED" /\ p \notin graph.always /\ causes'[p] # {}
             /\ causes'[p] = UNION {CausesOf(d)' : d \in NotSucceeded(p)'}
  <2>1. graph.dep[k] \subseteq Prereqs(k)
    BY DEF Prereqs
  <2>2. NotSucceeded(k)' = NotSucceeded(k) /\ NotSucceeded(k) \subseteq Procs \ {k}
    BY <1>1, <1>2, <1>3, <2>1 DEF NotSucceeded
  <2>3. \A d \in NotSucceeded(k) : CausesOf(d)' = IF causes[d] = {} THEN {d} ELSE causes[d]
    BY <1>4, <2>2
  <2>4. RootCauses(k) = UNION {CausesOf(d)' : d \in NotSucceeded(k)'}
    BY <2>2, <2>3 DEF RootCauses
  <2>5. RootCauses(k) # {}
    <3>1. PICK d \in NotSucceeded(k) : TRUE
      BY <1>1 DEF Blocked
    <3>2. (IF causes[d] = {} THEN {d} ELSE causes[d]) # {}
      OBVIOUS
    <3> QED
      BY <3>1, <3>2 DEF RootCauses
  <2> QED
    BY <1>1, <1>5, <2>4, <2>5 DEF Blocked
<1>6. ASSUME NEW p \in Procs, p # k
      PROVE  /\ state'[p] = "BLOCKED" =>
                  /\ p \notin graph.always /\ causes'[p] # {}
                  /\ causes'[p] = UNION {CausesOf(d)' : d \in NotSucceeded(p)'}
             /\ state'[p] # "BLOCKED" => causes'[p] = {}
  <2>1. CASE state[p] = "BLOCKED"
    <3>1. \A d \in graph.dep[p] : d \in Procs \ {k}
      BY <1>1, <2>1, BlockedWaited DEF KeysVerified, Prereqs, IInv, DependenciesFirst
    <3>2. NotSucceeded(p)' = NotSucceeded(p) /\ NotSucceeded(p) \subseteq Procs \ {k}
      BY <1>1, <1>3, <3>1 DEF NotSucceeded
    <3>3. UNION {CausesOf(d)' : d \in NotSucceeded(p)'} = UNION {CausesOf(d) : d \in NotSucceeded(p)}
      BY <1>4, <3>2
    <3> QED
      BY <1>3, <1>6, <2>1, <3>3 DEF LocalCauses
  <2>2. CASE state[p] # "BLOCKED"
    BY <1>3, <1>6, <2>2 DEF LocalCauses
  <2> QED
    BY <2>1, <2>2
<1> QED
  BY <1>1, <1>5, <1>6 DEF LocalCauses

LEMMA SettlingKeepsGraphInv ==
  ASSUME IInv, GraphInv, NEW k \in Procs, NEW s \in Settled, Settling(k, s)
  PROVE  GraphInv'
<1>1. /\ state \in [Procs -> States] /\ state' = [state EXCEPT ![k] = s]
      /\ state[k] \notin Settled /\ graph' = graph /\ pc' = pc
      /\ stopped' = (stopped \/ StopsRun(k, s)) /\ Working /\ Working' /\ ~Returned'
      /\ s = "CANCELLED" => stopped
      /\ s # "BLOCKED" => causes' = causes
  BY Settlement DEF Settling, Working, Returned
<1>2. VerifiedGraph /\ LocalCauses /\ NothingCancelled
  BY DEF GraphInv
<1>3. VerifiedGraph'
  BY <1>1, <1>2 DEF VerifiedGraph, Started, KeysVerified, Grounded, Prereqs
<1>4. LocalCauses'
  <2>1. CASE s = "BLOCKED"
    BY <1>2, <2>1, CausesTaken
  <2>2. CASE s # "BLOCKED"
    BY <1>1, <1>2, <2>2, CausesKept
  <2> QED
    BY <2>1, <2>2
<1>5. NothingCancelled'
  <2>1. ~StopOnMandatory /\ StopAt = {} => ~StopsRun(k, s)
    BY DEF StopsRun, DfxStop
  <2> QED
    BY <1>1, <1>2, <2>1 DEF NothingCancelled, Returned, Working
<1> QED
  BY <1>1, <1>3, <1>4, <1>5 DEF GraphInv, EndSettled

\* The other steps block nobody.
LEMMA NextKeepsGraphInv == IInv /\ GraphInv /\ [Next]_vars => GraphInv'
<1> SUFFICES ASSUME IInv, GraphInv, [Next]_vars PROVE GraphInv'
  OBVIOUS
<1>0. VerifiedGraph /\ LocalCauses /\ NothingCancelled /\ EndSettled
  BY DEF GraphInv
<1>1. ASSUME NEW k \in Procs, Dispatch(k) PROVE GraphInv'
  <2>1. /\ Working /\ state[k] = "PENDING" /\ state \in [Procs -> States]
        /\ state' = [state EXCEPT ![k] = "RUNNING"]
        /\ UNCHANGED <<graph, pc, causes, stopped, pending, finished>>
    BY <1>1, DispatchedKey
  <2>2. LocalCauses'
    BY <1>0, <2>1, CausesKept DEF Settled
  <2>3. VerifiedGraph'
    BY <1>0, <2>1 DEF VerifiedGraph, Started, KeysVerified, Grounded, Prereqs
  <2>4. NothingCancelled' /\ EndSettled'
    BY <1>0, <2>1 DEF NothingCancelled, EndSettled, Returned, Working, AllFinished
  <2> QED
    BY <2>2, <2>3, <2>4 DEF GraphInv
<1>2. CASE GiveUp
  <2>1. /\ state \in [Procs -> States] /\ Working /\ ~AllFinished
        /\ \A p \in Procs : state'[p] = IF state[p] = "PENDING" THEN "CANCELLED" ELSE state[p]
        /\ UNCHANGED <<graph, causes, finished>> /\ pc' = "false"
    BY <1>2 DEF GiveUp, EndOfPass, CancelPending, Working, IInv, TypeOK, queueVars
  <2>2. LocalCauses'
    BY <1>0, <2>1, CausesKept DEF Settled
  <2>3. VerifiedGraph'
    BY <1>0, <2>1 DEF VerifiedGraph, Started, KeysVerified, Grounded, Prereqs
  <2>4. NothingCancelled' /\ EndSettled'
    BY <2>1 DEF NothingCancelled, EndSettled, Returned, AllFinished
  <2> QED
    BY <2>2, <2>3, <2>4 DEF GraphInv
<1>3. CASE Start
  <2>1. /\ UNCHANGED <<graph, state, causes, stopped, finished>> /\ pc = "verify" /\ pc' = "drain"
        /\ VerifyDependencies
    BY <1>3 DEF Start, execVars
  <2>2. LocalCauses'
    BY <1>0, <2>1, CausesKept
  <2>3. VerifiedGraph'
    BY <2>1, VerifiedIsGrounded DEF VerifiedGraph, KeysVerified, Grounded, Prereqs
  <2>4. NothingCancelled' /\ EndSettled'
    BY <1>0, <2>1 DEF NothingCancelled, EndSettled, Returned, AllFinished
  <2> QED
    BY <2>2, <2>3, <2>4 DEF GraphInv
<1>4. CASE (\E k \in Procs : Defer(k)) \/ Idle
  <2>1. UNCHANGED <<graph, state, causes, stopped, finished>>
    BY <1>4 DEF Defer, Idle, execVars
  <2>2. /\ Working' => Working
        /\ ~Returned' => ~Returned
        /\ Returned' => Returned \/ Refuse \/ Return
    BY <1>4 DEF Defer, Idle, Refuse, BeginPass, Return, NextPass, Wait, Wake, EndOfPass,
                Working, Returned
  <2>3. Refuse => ~AllFinished
    <3>1. Refuse => finished = 0
      BY DEF Refuse, IInv, Accounting
    <3>2. Cardinality(Procs) # 0
      BY FS_EmptySet, ConstantsAssumption
    <3> QED
      BY <3>1, <3>2 DEF AllFinished
  <2>4. Return => \A p \in Procs : state[p] \in Settled
    BY EverySettled DEF Return, EndOfPass, Working
  <2>5. Return => ~Returned
    BY DEF Return, EndOfPass, Returned
  <2>6. LocalCauses'
    BY <1>0, <2>1, CausesKept
  <2>7. VerifiedGraph'
    BY <1>0, <2>1, <2>2 DEF VerifiedGraph, Started, KeysVerified, Grounded, Prereqs
  <2>8. NothingCancelled' /\ EndSettled'
    BY <1>0, <2>1, <2>2, <2>3, <2>4, <2>5 DEF NothingCancelled, EndSettled, AllFinished
  <2> QED
    BY <2>6, <2>7, <2>8 DEF GraphInv
<1> QED
  BY <1>1, <1>2, <1>3, <1>4, StepsTaken, SettlingKeepsGraphInv

LEMMA GraphInvariance == Spec => []GraphInv
  BY InitGraphInv, NextKeepsGraphInv, Invariance, PTL DEF Spec

\* The causes of a blocked process failed or were cancelled.
LEMMA CausesFailed ==
  ASSUME IInv, GraphInv, NEW p \in Procs, state[p] = "BLOCKED", NEW c \in causes[p]
  PROVE  c \in Procs /\ state[c] \in {"FAILED", "CANCELLED"}
<1> DEFINE Fine(q) == \A e \in causes[q] : e \in Procs /\ state[e] \in {"FAILED", "CANCELLED"}
           bad == {q \in Procs : state[q] = "BLOCKED" /\ ~Fine(q)}
<1> SUFFICES ASSUME bad # {} PROVE FALSE
  OBVIOUS
<1>1. VerifiedGraph /\ LocalCauses /\ Grounded
  BY BlockedWaited DEF GraphInv
<1>2. PICK q \in bad : Prereqs(q) \cap bad = {}
  <2> HIDE DEF bad
  <2>1. bad \in SUBSET Procs
    BY DEF bad
  <2> QED
    BY <1>1, <2>1 DEF Grounded
<1>3. causes[q] = UNION {CausesOf(d) : d \in NotSucceeded(q)}
  BY <1>1, <1>2 DEF LocalCauses
<1>4. ASSUME NEW e \in causes[q] PROVE e \in Procs /\ state[e] \in {"FAILED", "CANCELLED"}
  <2>1. PICK d \in NotSucceeded(q) : e \in CausesOf(d)
    BY <1>3, <1>4
  <2>2. d \in Procs /\ d \in Prereqs(q) /\ state[d] \in Settled /\ state[d] # "SUCCEEDED"
    BY <1>1, <1>2, BlockedWaited
  <2>3. CASE state[d] = "BLOCKED"
    BY <1>2, <2>1, <2>2, <2>3 DEF CausesOf
  <2>4. CASE state[d] # "BLOCKED"
    BY <2>1, <2>2, <2>4 DEF CausesOf, Settled
  <2> QED
    BY <2>3, <2>4
<1> QED
  BY <1>2, <1>4

\* They lie in every set that the chain of blocked dependencies stays in.
LEMMA CausesReached ==
  ASSUME IInv, GraphInv, NEW S \in SUBSET Procs, NEW p \in S, state[p] = "BLOCKED",
         \A q \in S : state[q] = "BLOCKED" => NotSucceeded(q) \subseteq S
  PROVE  causes[p] \subseteq S
<1> DEFINE bad == {q \in S : state[q] = "BLOCKED" /\ ~(causes[q] \subseteq S)}
<1> SUFFICES ASSUME bad # {} PROVE FALSE
  OBVIOUS
<1>1. VerifiedGraph /\ LocalCauses /\ Grounded
  BY BlockedWaited DEF GraphInv
<1>2. PICK q \in bad : Prereqs(q) \cap bad = {}
  <2> HIDE DEF bad
  <2>1. bad \in SUBSET Procs
    BY DEF bad
  <2> QED
    BY <1>1, <2>1 DEF Grounded
<1>3. causes[q] = UNION {CausesOf(d) : d \in NotSucceeded(q)}
  BY <1>1, <1>2 DEF LocalCauses
<1>4. ASSUME NEW d \in NotSucceeded(q) PROVE CausesOf(d) \subseteq S
  <2>1. d \in S
    BY <1>2
  <2>2. d \in Prereqs(q)
    BY <1>1, <1>2, BlockedWaited
  <2> QED
    BY <1>2, <2>1, <2>2 DEF CausesOf
<1> QED
  BY <1>2, <1>3, <1>4

LEMMA CausesAreBlamed ==
  ASSUME IInv, GraphInv, NEW p \in Procs, state[p] = "BLOCKED"
  PROVE  causes[p] # {} /\ causes[p] = BlamedOn(p)
<1>1. VerifiedGraph /\ LocalCauses
  BY DEF GraphInv
<1>2. causes[p] # {}
  BY <1>1 DEF LocalCauses
<1>3. causes[p] \subseteq BlamedOn(p)
  BY CausesFailed, CausesReached DEF BlamedOn
<1>4. ASSUME NEW c \in BlamedOn(p) PROVE c \in causes[p]
  <2> DEFINE S == {q \in Procs : \/ q = p \/ q \in causes[p]
                                 \/ state[q] = "BLOCKED" /\ causes[q] \subseteq causes[p]}
  <2>1. S \in SUBSET Procs /\ p \in S
    OBVIOUS
  <2>2. ASSUME NEW q \in S, state[q] = "BLOCKED" PROVE NotSucceeded(q) \subseteq S
    <3>1. causes[q] \subseteq causes[p]
      BY <2>2, CausesFailed
    <3>2. ASSUME NEW d \in NotSucceeded(q) PROVE d \in S
      <4>1. d \in Procs
        BY <1>1, <2>2, BlockedWaited
      <4>2. CausesOf(d) \subseteq causes[q]
        BY <1>1, <2>2 DEF LocalCauses
      <4> QED
        BY <3>1, <4>1, <4>2 DEF CausesOf
    <3> QED
      BY <3>2
  <2>3. c \in S /\ state[c] \in {"FAILED", "CANCELLED"}
    <3> HIDE DEF S
    <3> QED
      BY <2>1, <2>2 DEF BlamedOn
  <2> QED
    BY <2>3
<1> QED
  BY <1>2, <1>3, <1>4

\* failedDependencies of a blocked process are exactly the processes that failed or were
\* cancelled and that blocked ones lead to, whatever the order in which they were found.
THEOREM Causes == Spec => []CausesAreRoots
<1>1. IInv /\ GraphInv => CausesAreRoots
  BY CausesAreBlamed DEF CausesAreRoots
<1> QED
  BY <1>1, Invariance, GraphInvariance, PTL

\* In a run with nothing to stop it, a process that did not run depends on one that did
\* not succeed, and one that depends on such a process did not run.
LEMMA ContainedAtEnd ==
  ASSUME IInv, GraphInv, ~StopOnMandatory, StopAt = {}, Returned, AllFinished
  PROVE  {p \in Procs : state[p] \in {"BLOCKED", "CANCELLED"}} = Doomed
<1>1. /\ VerifiedGraph /\ LocalCauses
      /\ \A p \in Procs : state[p] \in Settled /\ state[p] # "CANCELLED"
  BY DEF GraphInv, NothingCancelled, EndSettled
<1>2. KeysVerified /\ Grounded
  <2>1. \E p \in Procs : state[p] # "PENDING"
    BY <1>1, ConstantsAssumption DEF Settled
  <2> QED
    BY <1>1, <2>1 DEF VerifiedGraph, Started
<1>3. \A p \in Procs : graph.dep[p] \subseteq Prereqs(p) /\ graph.dep[p] \subseteq Procs
  BY <1>2 DEF KeysVerified, Prereqs
<1> DEFINE B == {p \in Procs : state[p] = "BLOCKED"}
           Contagious(S) == \A q \in Procs \ graph.always :
                        (\E d \in graph.dep[q] : state[d] = "FAILED" \/ d \in S) => q \in S
<1>4. {p \in Procs : state[p] \in {"BLOCKED", "CANCELLED"}} = B
  BY <1>1
<1>5. ASSUME NEW q \in Procs \ graph.always, NEW d \in graph.dep[q],
             state[d] = "FAILED" \/ d \in B
      PROVE  q \in B
  <2>1. state[d] # "SUCCEEDED"
    BY <1>5
  <2>2. DependenciesFirst /\ state[q] \notin {"PENDING", "CANCELLED"}
    BY <1>1 DEF IInv, Settled
  <2> QED
    BY <1>5, <2>1, <2>2 DEF DependenciesFirst
<1>6. Doomed \subseteq B
  BY <1>5 DEF Doomed
<1>7. ASSUME NEW S \in SUBSET Procs, Contagious(S) PROVE B \subseteq S
  <2> SUFFICES ASSUME B \ S # {} PROVE FALSE
    OBVIOUS
  <2>1. PICK p \in B \ S : Prereqs(p) \cap (B \ S) = {}
    BY <1>2 DEF Grounded
  <2>2. PICK c \in causes[p] : TRUE
    BY <1>1, <2>1 DEF LocalCauses
  <2>3. PICK d \in NotSucceeded(p) : TRUE
    BY <1>1, <2>1, <2>2 DEF LocalCauses
  <2>4. /\ p \notin graph.always /\ d \in graph.dep[p] /\ d \in Procs /\ d \in Prereqs(p)
        /\ state[d] \in {"FAILED", "BLOCKED"}
    BY <1>1, <2>1, <2>3, BlockedWaited DEF LocalCauses, Settled, NotSucceeded
  <2>5. state[d] = "FAILED" \/ d \in S
    BY <2>1, <2>4
  <2> QED
    BY <1>7, <2>1, <2>4, <2>5
<1>8. B \subseteq Doomed
  BY <1>7 DEF Doomed
<1> QED
  BY <1>4, <1>6, <1>8

\* With CONTINUE_INDEPENDENT and no DFX stop, what did not run is exactly what some chain
\* of dependencies leads to from a failure, up to processes that run on failure.
THEOREM Containment == Spec => []FailureContained
<1>1. IInv /\ GraphInv => FailureContained
  BY ContainedAtEnd DEF FailureContained
<1> QED
  BY <1>1, Invariance, GraphInvariance, PTL
-----------------------------------------------------------------------------
(***************************************************************************)
(* The device limit.                                                       *)
(***************************************************************************)
\* A device counted was opened by somebody whom no closer that waits for it has
\* followed yet.
DevicesOpened ==
  Working => \A s \in devices : \E p \in graph.opens :
    /\ graph.scope[p] = s /\ state[p] # "PENDING"
    /\ \A q \in graph.closes : graph.scope[q] = s /\ p \in Prereqs(q) => state[q] \notin Settled

\* A device that was opened is counted until one of its closers has settled.
DevicesKept ==
  Working => \A p \in graph.opens :
    /\ state[p] \in {"RUNNING", "SUCCEEDED", "FAILED"}
    /\ \A q \in graph.closes : graph.scope[q] = graph.scope[p] => state[q] \notin Settled
    => graph.scope[p] \in devices

DevicesCounted ==
  IsFiniteSet(devices) /\ (MaxActiveDevices # 0 => Cardinality(devices) <= MaxActiveDevices)

DeviceInv ==
  /\ DevicesOpened /\ DevicesKept /\ DevicesCounted
  /\ pc = "verify" => devices = {}

LEMMA InitDeviceInv == Init => DeviceInv
<1> SUFFICES ASSUME Init PROVE DeviceInv
  OBVIOUS
<1>1. devices = {} /\ ~Working
  BY DEF Init, Working
<1> QED
  BY <1>1, FS_EmptySet, ConstantsAssumption
     DEF DeviceInv, DevicesOpened, DevicesKept, DevicesCounted

LEMMA SettlingKeepsDeviceInv ==
  ASSUME IInv, DeviceInv, NEW k \in Procs, NEW s \in Settled, Settling(k, s)
  PROVE  DeviceInv'
<1>1. /\ state \in [Procs -> States] /\ state' = [state EXCEPT ![k] = s]
      /\ state[k] \notin Settled /\ graph' = graph /\ pc' = pc /\ Working
      /\ devices' = DevicesAfter(k) /\ KeysVerified
      /\ s \in {"SUCCEEDED", "FAILED"} => state[k] = "RUNNING"
  BY Settlement DEF Settling
<1>2. TypeOK /\ graph.opens \subseteq Procs /\ graph.closes \subseteq Procs
  BY ScopeShape DEF IInv
<1>3. \A p \in Procs \ {k} : state'[p] = state[p]
  BY <1>1
<1>4. \A q \in Procs : Prereqs(q)' = Prereqs(q)
  BY <1>1 DEF Prereqs
<1>5. devices' \subseteq devices
  BY <1>1 DEF DevicesAfter
<1>6. DevicesOpened'
  <2> SUFFICES ASSUME NEW t \in devices'
               PROVE  \E p \in graph.opens :
                        /\ graph.scope[p] = t /\ state'[p] # "PENDING"
                        /\ \A q \in graph.closes : graph.scope[q] = t /\ p \in Prereqs(q)
                             => state'[q] \notin Settled
    BY <1>1, <1>4, <1>2 DEF DevicesOpened
  <2>1. PICK p \in graph.opens :
          /\ graph.scope[p] = t /\ state[p] # "PENDING"
          /\ \A q \in graph.closes : graph.scope[q] = t /\ p \in Prereqs(q)
               => state[q] \notin Settled
    BY <1>1, <1>5 DEF DeviceInv, DevicesOpened
  <2>2. state'[p] # "PENDING"
    BY <1>1, <1>2, <2>1 DEF Settled
  <2>3. k \in graph.closes => graph.scope[k] # t
    BY <1>1 DEF DevicesAfter
  <2> QED
    BY <1>2, <1>3, <2>1, <2>2, <2>3
<1>7. DevicesKept'
  <2> SUFFICES ASSUME NEW p \in graph.opens, state'[p] \in {"RUNNING", "SUCCEEDED", "FAILED"},
                      \A q \in graph.closes : graph.scope[q] = graph.scope[p]
                        => state'[q] \notin Settled
               PROVE  graph.scope[p] \in devices'
    BY <1>1 DEF DevicesKept
  <2>1. k \in graph.closes => graph.scope[k] # graph.scope[p]
    BY <1>1
  <2>2. state[p] \in {"RUNNING", "SUCCEEDED", "FAILED"}
    BY <1>1, <1>2 DEF Settled
  <2>3. \A q \in graph.closes : graph.scope[q] = graph.scope[p] => state[q] \notin Settled
    BY <1>2, <1>3, <2>1
  <2>4. graph.scope[p] \in devices
    BY <1>1, <2>2, <2>3 DEF DeviceInv, DevicesKept
  <2> QED
    BY <1>1, <2>1, <2>4 DEF DevicesAfter
<1>8. DevicesCounted'
  <2>1. IsFiniteSet(devices) /\ (MaxActiveDevices # 0 => Cardinality(devices) <= MaxActiveDevices)
    BY DEF DeviceInv, DevicesCounted
  <2>2. IsFiniteSet(devices') /\ Cardinality(devices') <= Cardinality(devices)
    BY <1>5, <2>1, FS_Subset
  <2>3. Cardinality(devices') \in Nat /\ Cardinality(devices) \in Nat /\ MaxActiveDevices \in Nat
    BY <2>1, <2>2, FS_CardinalityType, ConstantsAssumption
  <2> QED
    BY <2>1, <2>2, <2>3 DEF DevicesCounted
<1> QED
  BY <1>1, <1>6, <1>7, <1>8 DEF DeviceInv, Working

\* A dispatched process takes a slot for its device only if one is free.
LEMMA DispatchKeepsDeviceInv ==
  ASSUME IInv, DeviceInv, NEW k \in Procs, Dispatch(k)
  PROVE  DeviceInv'
<1>1. /\ Working /\ state[k] = "PENDING" /\ state \in [Procs -> States]
      /\ state' = [state EXCEPT ![k] = "RUNNING"] /\ UNCHANGED <<graph, pc>>
  BY DispatchedKey
<1>2. /\ devices' = IF k \in graph.opens THEN devices \cup {graph.scope[k]} ELSE devices
      /\ ~DeviceLimit(k)
  BY DEF Dispatch, MustWait
<1>3. /\ TypeOK /\ graph.opens \subseteq Procs /\ graph.closes \subseteq Procs
      /\ MaxActiveDevices \in Nat
  BY ScopeShape DEF IInv
<1>4. /\ \A q \in Procs : state'[q] \in Settled <=> state[q] \in Settled
      /\ \A q \in Procs \ {k} : state'[q] = state[q]
      /\ \A q \in Procs : Prereqs(q)' = Prereqs(q)
  BY <1>1 DEF Settled, Prereqs
<1>5. \A q \in Procs : k \in Prereqs(q) => state[q] \notin Settled
  <2> SUFFICES ASSUME NEW q \in Procs, k \in Prereqs(q), state[q] \in Settled PROVE FALSE
    OBVIOUS
  <2>1. pending[q] = 0 /\ pending[q] = Cardinality(Unsettled(q))
    BY <1>1 DEF IInv, PendingCounts, Settled
  <2>2. Unsettled(q) \in SUBSET Procs
    BY <1>1 DEF IInv, Accounting, KeysVerified, Prereqs, Unsettled
  <2>3. Unsettled(q) = {}
    BY <2>1, <2>2, SetsOfProcs, FS_EmptySet
  <2> QED
    BY <1>1, <2>3 DEF Unsettled, Settled
<1>6. DevicesOpened'
  <2> SUFFICES ASSUME NEW t \in devices'
               PROVE  \E p \in graph.opens :
                        /\ graph.scope[p] = t /\ state'[p] # "PENDING"
                        /\ \A q \in graph.closes : graph.scope[q] = t /\ p \in Prereqs(q)
                             => state[q] \notin Settled
    BY <1>1, <1>3, <1>4 DEF DevicesOpened
  <2>1. CASE t \in devices
    <3>1. PICK p \in graph.opens :
            /\ graph.scope[p] = t /\ state[p] # "PENDING"
            /\ \A q \in graph.closes : graph.scope[q] = t /\ p \in Prereqs(q)
                 => state[q] \notin Settled
      BY <1>1, <2>1 DEF DeviceInv, DevicesOpened
    <3>2. state'[p] # "PENDING"
      BY <1>1, <1>3, <1>4, <3>1
    <3> QED
      BY <3>1, <3>2
  <2>2. CASE t \notin devices
    <3>1. k \in graph.opens /\ t = graph.scope[k] /\ state'[k] = "RUNNING"
      BY <1>1, <1>2, <2>2
    <3> QED
      BY <1>3, <1>5, <3>1
  <2> QED
    BY <2>1, <2>2
<1>7. DevicesKept'
  <2> SUFFICES ASSUME NEW p \in graph.opens, state'[p] \in {"RUNNING", "SUCCEEDED", "FAILED"},
                      \A q \in graph.closes : graph.scope[q] = graph.scope[p]
                        => state[q] \notin Settled
               PROVE  graph.scope[p] \in devices'
    BY <1>1, <1>3, <1>4 DEF DevicesKept
  <2>1. CASE p = k
    BY <1>2, <2>1
  <2>2. CASE p # k
    BY <1>1, <1>2, <1>3, <1>4, <2>2 DEF DeviceInv, DevicesKept
  <2> QED
    BY <2>1, <2>2
<1>8. DevicesCounted'
  <2> DEFINE t == graph.scope[k]
  <2>1. IsFiniteSet(devices) /\ (MaxActiveDevices # 0 => Cardinality(devices) <= MaxActiveDevices)
    BY DEF DeviceInv, DevicesCounted
  <2>2. /\ IsFiniteSet(devices \cup {t}) /\ Cardinality(devices) \in Nat
        /\ Cardinality(devices \cup {t}) =
             IF t \in devices THEN Cardinality(devices) ELSE Cardinality(devices) + 1
    BY <2>1, FS_AddElement, FS_CardinalityType
  <2>3. k \in graph.opens /\ MaxActiveDevices # 0 /\ t \notin devices
          => Cardinality(devices) < MaxActiveDevices
    BY <1>2, <1>3, <2>2 DEF DeviceLimit
  <2> HIDE DEF t
  <2>4. devices' = devices \/ (devices' = devices \cup {t} /\ k \in graph.opens)
    BY <1>2 DEF t
  <2>5. CASE devices' = devices
    BY <2>1, <2>5 DEF DevicesCounted
  <2>6. CASE devices' = devices \cup {t} /\ k \in graph.opens
    <3>1. /\ IsFiniteSet(devices')
          /\ MaxActiveDevices # 0 => Cardinality(devices \cup {t}) <= MaxActiveDevices
      BY <1>3, <2>1, <2>2, <2>3, <2>6
    <3> QED
      BY <2>6, <3>1 DEF DevicesCounted
  <2> QED
    BY <2>4, <2>5, <2>6
<1> QED
  BY <1>1, <1>6, <1>7, <1>8 DEF DeviceInv, Working

LEMMA NextKeepsDeviceInv == IInv /\ DeviceInv /\ [Next]_vars => DeviceInv'
<1> SUFFICES ASSUME IInv, DeviceInv, [Next]_vars PROVE DeviceInv'
  OBVIOUS
<1>1. CASE GiveUp
  <2>1. devices' = devices /\ ~Working' /\ pc' # "verify"
    BY <1>1 DEF GiveUp, limitVars, Working
  <2> QED
    BY <2>1 DEF DeviceInv, DevicesOpened, DevicesKept, DevicesCounted
<1>2. CASE Start
  <2>1. /\ UNCHANGED <<graph, state, devices>> /\ \A p \in Procs : state[p] = "PENDING"
        /\ graph.opens \subseteq Procs /\ devices = {}
    <3>1. pc = "verify" /\ UNCHANGED <<graph, state, devices>>
      BY <1>2 DEF Start, execVars, limitVars
    <3> QED
      BY <3>1, ScopeShape DEF IInv, Accounting, DeviceInv
  <2> QED
    BY <2>1 DEF DeviceInv, DevicesOpened, DevicesKept, DevicesCounted
<1>3. CASE (\E k \in Procs : Defer(k)) \/ Idle
  <2>1. UNCHANGED <<graph, state, devices>>
    BY <1>3 DEF Defer, Idle, execVars, limitVars
  <2>2. (Working' => Working) /\ (pc' = "verify" => pc = "verify")
    BY <1>3 DEF Defer, Idle, Refuse, BeginPass, Return, NextPass, Wait, Wake, EndOfPass, Working
  <2> QED
    BY <2>1, <2>2 DEF DeviceInv, DevicesOpened, DevicesKept, DevicesCounted, Prereqs
<1> QED
  BY <1>1, <1>2, <1>3, StepsTaken, SettlingKeepsDeviceInv, DispatchKeepsDeviceInv

LEMMA DeviceInvariance == Spec => []DeviceInv
  BY InitDeviceInv, NextKeepsDeviceInv, Invariance, PTL DEF Spec

\* While the coordinator works, all that a moved process waits for has settled.
LEMMA MovedWaited ==
  ASSUME IInv, Working, NEW p \in Procs, state[p] # "PENDING" \/ pending[p] = 0
  PROVE  \A d \in Prereqs(p) : d \in Procs /\ state[d] \in Settled
<1>1. pending[p] = 0 /\ pending[p] = Cardinality(Unsettled(p))
  BY DEF IInv, PendingCounts
<1>2. Prereqs(p) \subseteq Procs /\ Unsettled(p) \in SUBSET Procs
  BY DEF IInv, Accounting, KeysVerified, Prereqs, Unsettled
<1>3. Unsettled(p) = {}
  BY <1>1, <1>2, SetsOfProcs, FS_EmptySet
<1> QED
  BY <1>2, <1>3 DEF Unsettled

\* So has all that leads to it.
LEMMA MovedWaitedForAll ==
  ASSUME IInv, Working, NEW p \in Procs, state[p] # "PENDING" \/ pending[p] = 0
  PROVE  \A d \in Before(p) : state[d] \in Settled
<1> DEFINE S == {d \in Procs : state[d] \in Settled}
<1>1. Prereqs(p) \subseteq S
  BY MovedWaited
<1>2. \A e \in S : Prereqs(e) \subseteq S
  BY MovedWaited DEF Settled
<1> QED
  BY <1>1, <1>2 DEF Before

\* A running process of a bracketed device has its device counted.
LEMMA RunningCounted ==
  ASSUME IInv, DeviceInv, NEW p \in Running,
         Opened(graph.scope[p]), ClosedLast(graph.scope[p])
  PROVE  graph.scope[p] \in devices
<1> DEFINE s == graph.scope[p]
<1>1. /\ p \in Procs /\ state[p] = "RUNNING"
      /\ graph.opens \subseteq Procs /\ graph.closes \subseteq Procs
  BY ScopeShape DEF IInv, Running
<1>2. Working
  BY <1>1 DEF IInv, Accounting, TypeOK, Returned, Working, Running
<1>3. \A q \in graph.closes : graph.scope[q] = s => state[q] \notin Settled
  <2> SUFFICES ASSUME NEW q \in graph.closes, graph.scope[q] = s, state[q] \in Settled
               PROVE  FALSE
    OBVIOUS
  <2>1. q # p /\ q \in Procs /\ state[q] # "PENDING"
    BY <1>1 DEF Settled
  <2>2. p \in Before(q)
    BY <1>1, <2>1 DEF ClosedLast
  <2>3. state[p] \in Settled
    BY <1>2, <2>1, <2>2, MovedWaitedForAll
  <2> QED
    BY <1>1, <2>3 DEF Settled
<1>4. CASE p \in graph.opens
  BY <1>1, <1>2, <1>3, <1>4 DEF DeviceInv, DevicesKept
<1>5. CASE p \notin graph.opens
  <2>1. PICK o \in graph.opens \cap graph.dep[p] : graph.scope[o] = s /\ p \notin graph.always
    BY <1>1, <1>5 DEF Opened
  <2>2. state[o] = "SUCCEEDED"
    BY <1>1, <2>1 DEF IInv, DependenciesFirst
  <2> QED
    BY <1>2, <1>3, <2>1, <2>2 DEF DeviceInv, DevicesKept
<1> QED
  BY <1>4, <1>5

\* At any time the processes of no more than maxActiveDevices devices run, if each is opened
\* by a process that the others require and closed by one that comes after them.
THEOREM Slots == Spec => []DeviceSlots
<1>1. ASSUME IInv, DeviceInv PROVE DeviceSlots
  <2> DEFINE bracketed == {s \in Scopes : Opened(s) /\ ClosedLast(s)}
             busy == {graph.scope[p] : p \in Running}
                       \cap ({graph.scope[p] : p \in graph.opens} \cap bracketed)
  <2>1. busy \subseteq devices
    BY <1>1, RunningCounted
  <2>2. IsFiniteSet(devices) /\ (MaxActiveDevices # 0 => Cardinality(devices) <= MaxActiveDevices)
    BY <1>1 DEF DeviceInv, DevicesCounted
  <2>3. IsFiniteSet(busy) /\ Cardinality(busy) <= Cardinality(devices)
    BY <2>1, <2>2, FS_Subset
  <2>4. Cardinality(busy) \in Nat /\ Cardinality(devices) \in Nat /\ MaxActiveDevices \in Nat
    BY <2>2, <2>3, FS_CardinalityType, ConstantsAssumption
  <2>5. MaxActiveDevices # 0 => Cardinality(busy) <= MaxActiveDevices
    <3> HIDE DEF busy
    <3> QED
      BY <2>2, <2>3, <2>4
  <2> QED
    BY <2>5 DEF DeviceSlots
<1> QED
  BY <1>1, Invariance, DeviceInvariance, PTL
-----------------------------------------------------------------------------
(***************************************************************************)
(* Progress: the executor gives up only for want of a device slot that     *)
(* nothing frees.                                                          *)
(***************************************************************************)
\* Whatever may be visited is in the queue.
ReadyComplete ==
  Working => \A p \in Procs : state[p] = "PENDING" /\ pending[p] = 0 => p \in ToSet(ready)

\* A pass that came to nothing has found a reason to wait for each key it visited.
PassInVain ==
  pc = "scan" /\ ~progressed => \A i \in 1..Len(ready) : i > left => MustWait(ready[i])

Ended ==
  Returned => AllFinished \/ (\A p \in Procs : state[p] = "PENDING") \/ ~ScopesClosed

ProgressInv == ReadyComplete /\ PassInVain /\ Ended

\* An order of a finite set names all of it.
LEMMA WholeOrder ==
  ASSUME NEW T, NEW S \in SUBSET T, IsFiniteSet(S), NEW s \in SetToSeqs(S)
  PROVE  ToSet(s) = S
<1>1. Cardinality(S) \in Nat
  BY FS_CardinalityType
<1>2. s \in [1..Cardinality(S) -> S] /\ \A i, j \in 1..Cardinality(S) : s[i] = s[j] => i = j
  BY DEF SetToSeqs, IsInjective
<1>3. IsFiniteSet(1..Cardinality(S)) /\ Cardinality(1..Cardinality(S)) = Cardinality(S)
  BY <1>1, FS_Interval
<1>4. s \in Injection(1..Cardinality(S), S)
  BY <1>2 DEF Injection, IsInjective
<1>5. s \in Surjection(1..Cardinality(S), S)
  BY <1>3, <1>4, FS_Injection
<1>6. \A x \in S : \E i \in 1..Cardinality(S) : s[i] = x
  BY <1>5 DEF Surjection
<1>7. s \in Seq(T) /\ Len(s) = Cardinality(S)
  <2>1. s \in Seq(S) /\ Len(s) = Cardinality(S)
    BY <1>1, <1>2
  <2> QED
    BY <2>1, SeqMonotonic
<1>8. \A x : x \in ToSet(s) <=> \E i \in 1..Len(s) : x = s[i]
  BY <1>7, SeqIndices
<1>9. ToSet(s) \subseteq S
  BY <1>2, <1>7, <1>8
<1>10. S \subseteq ToSet(s)
  BY <1>6, <1>7, <1>8
<1> QED
  BY <1>9, <1>10

\* Both parts of a concatenation are in it, and a queue without its head has the rest.
LEMMA PartsOfQueue ==
  ASSUME NEW T, NEW s \in Seq(T), NEW t \in Seq(T)
  PROVE  ToSet(s) \cup ToSet(t) \subseteq ToSet(s \o t)
<1> DEFINE u == s \o t
<1>1. /\ u \in Seq(T) /\ Len(u) = Len(s) + Len(t) /\ Len(s) \in Nat /\ Len(t) \in Nat
      /\ \A i \in 1..Len(s) + Len(t) : u[i] = IF i <= Len(s) THEN s[i] ELSE t[i - Len(s)]
  BY ConcatProperties, LenProperties
<1> HIDE DEF u
<1>2. /\ \A x : x \in ToSet(s) <=> \E i \in 1..Len(s) : x = s[i]
      /\ \A x : x \in ToSet(t) <=> \E i \in 1..Len(t) : x = t[i]
  BY SeqIndices
<1>5. \A x : x \in ToSet(u) <=> \E i \in 1..Len(u) : x = u[i]
  BY <1>1, SeqIndices
<1>3. ASSUME NEW x \in ToSet(s) PROVE x \in ToSet(u)
  <2>1. PICK i \in 1..Len(s) : x = s[i]
    BY <1>2
  <2>2. i \in 1..Len(s) + Len(t) /\ i <= Len(s)
    BY <1>1, <2>1
  <2>3. i \in 1..Len(u) /\ u[i] = x
    BY <1>1, <2>1, <2>2
  <2> QED
    BY <1>5, <2>3
<1>4. ASSUME NEW x \in ToSet(t) PROVE x \in ToSet(u)
  <2>1. PICK i \in 1..Len(t) : x = t[i]
    BY <1>2
  <2>2. /\ Len(s) + i \in 1..Len(s) + Len(t)
        /\ ~(Len(s) + i <= Len(s)) /\ (Len(s) + i) - Len(s) = i
    BY <1>1
  <2>3. u[Len(s) + i] = x
    BY <1>1, <2>1, <2>2
  <2> QED
    BY <1>1, <1>5, <2>2, <2>3
<1> QED
  BY <1>3, <1>4 DEF u

LEMMA RestOfQueue ==
  ASSUME NEW T, NEW s \in Seq(T), s # << >>
  PROVE  /\ ToSet(s) \ {Head(s)} \subseteq ToSet(Tail(s))
         /\ Tail(s) \in Seq(T) /\ Len(Tail(s)) = Len(s) - 1 /\ Len(s) \in Nat
         /\ \A i \in 1..Len(Tail(s)) : Tail(s)[i] = s[i + 1]
<1>1. /\ Tail(s) \in Seq(T) /\ Len(Tail(s)) = Len(s) - 1 /\ Len(s) \in Nat /\ Len(s) >= 1
      /\ \A i \in 1..Len(Tail(s)) : Tail(s)[i] = s[i + 1]
  BY HeadTailProperties, LenProperties, EmptySeq
<1>2. /\ \A x : x \in ToSet(s) <=> \E i \in 1..Len(s) : x = s[i]
      /\ \A x : x \in ToSet(Tail(s)) <=> \E i \in 1..Len(Tail(s)) : x = Tail(s)[i]
  BY <1>1, SeqIndices
<1>3. Head(s) = s[1]
  BY <1>1
<1>4. ASSUME NEW x \in ToSet(s), x # Head(s) PROVE x \in ToSet(Tail(s))
  <2>1. PICK i \in 1..Len(s) : x = s[i]
    BY <1>2
  <2>2. i # 1
    BY <1>3, <1>4, <2>1
  <2>3. i - 1 \in 1..Len(Tail(s)) /\ (i - 1) + 1 = i
    BY <1>1, <2>2
  <2>4. Tail(s)[i - 1] = x
    BY <1>1, <2>1, <2>3
  <2> QED
    BY <1>2, <2>3, <2>4
<1> QED
  BY <1>1, <1>4

LEMMA InitProgressInv == Init => ProgressInv
  BY DEF Init, ProgressInv, ReadyComplete, PassInVain, Ended, Working, Returned

\* A settlement queues all that it leaves with nothing to wait for.
LEMMA SettlingKeepsProgressInv ==
  ASSUME IInv, ProgressInv, NEW k \in Procs, NEW s \in Settled, Settling(k, s)
  PROVE  ProgressInv'
<1>1. /\ state \in [Procs -> States] /\ state' = [state EXCEPT ![k] = s]
      /\ graph' = graph /\ pc' = pc /\ Working
  BY Settlement DEF Settling
<1>2. ready \in Seq(Procs) /\ pending \in [Procs -> Nat]
  BY DEF IInv, TypeOK
<1>3. PICK queue \in Seq(Procs) : Finish(k, s, queue) /\ ToSet(ready) \ {k} \subseteq ToSet(queue)
  <2>1. CASE Finish(k, s, ready)
    BY <1>2, <2>1
  <2>2. CASE \/ s = "BLOCKED" /\ Block(k)
             \/ s = "CANCELLED" /\ Cancel(k)
    <3>1. Visit(k) /\ Finish(k, s, Tail(ready))
      BY <2>2 DEF Block, Cancel
    <3>2. k = Head(ready) /\ ready # << >>
      BY <3>1, VisitedKey DEF Visit
    <3> QED
      BY <1>2, <3>1, <3>2, RestOfQueue
  <2> QED
    BY <2>1, <2>2 DEF Settling
<1> DEFINE released == {c \in Dependents(k) : pending[c] = 1}
<1>4. PICK t \in SetToSeqs(released) : ready' = queue \o t
  BY <1>3 DEF Finish
<1>5. released \in SUBSET Procs /\ IsFiniteSet(released)
  BY SetsOfProcs DEF Dependents
<1>6. t \in Seq(Procs) /\ ToSet(t) = released
  BY <1>5, WholeOrder, OrderOfSet
<1>7. ToSet(queue) \cup released \subseteq ToSet(ready')
  BY <1>4, <1>6, PartsOfQueue
<1>8. pending' = [c \in Procs |-> IF c \in Dependents(k) THEN pending[c] - 1 ELSE pending[c]]
  BY <1>3 DEF Finish
<1>9. ReadyComplete'
  <2> SUFFICES ASSUME NEW p \in Procs, state'[p] = "PENDING", pending'[p] = 0
               PROVE  p \in ToSet(ready')
    BY DEF ReadyComplete
  <2>1. p # k /\ state[p] = "PENDING"
    BY <1>1 DEF Settled
  <2>2. CASE p \in Dependents(k)
    <3>1. pending[p] = 1
      BY <1>2, <1>8, <2>2
    <3> QED
      BY <1>7, <2>2, <3>1
  <2>3. CASE p \notin Dependents(k)
    <3>1. pending[p] = 0
      BY <1>8, <2>3
    <3>2. p \in ToSet(ready)
      BY <1>1, <2>1, <3>1 DEF ProgressInv, ReadyComplete
    <3> QED
      BY <1>3, <1>7, <2>1, <3>2
  <2> QED
    BY <2>2, <2>3
<1>10. PassInVain'
  <2>1. pc' = "drain" \/ progressed'
    BY <1>1 DEF Settling, Block, Cancel
  <2> QED
    BY <2>1 DEF PassInVain
<1>11. Ended'
  BY <1>1 DEF Ended, Returned, Working
<1> QED
  BY <1>9, <1>10, <1>11 DEF ProgressInv

\* A key that has to wait keeps its place in the queue, with its reason.
LEMMA DeferKeepsProgressInv ==
  ASSUME IInv, ProgressInv, NEW k \in Procs, Defer(k)
  PROVE  ProgressInv'
<1>1. /\ Visit(k) /\ ready' = Append(Tail(ready), k) /\ MustWait(k)
      /\ UNCHANGED <<graph, pc, state, pending, progressed, active, held, devices>>
  BY DEF Defer, execVars, limitVars
<1>2. /\ Working /\ pc = "scan" /\ ready # << >> /\ ready \in Seq(Procs)
      /\ left' = left - 1 /\ k = Head(ready) /\ left \in 0..Len(ready)
  BY <1>1, VisitedKey DEF Visit, IInv, TypeOK
<1>3. /\ ToSet(ready) \ {k} \subseteq ToSet(Tail(ready))
      /\ Tail(ready) \in Seq(Procs) /\ Len(Tail(ready)) = Len(ready) - 1 /\ Len(ready) \in Nat
      /\ \A i \in 1..Len(Tail(ready)) : Tail(ready)[i] = ready[i + 1]
  BY <1>2, RestOfQueue
<1> DEFINE tail == Tail(ready)
<1>4. /\ ready' \in Seq(Procs) /\ Len(ready') = Len(tail) + 1 /\ ready'[Len(tail) + 1] = k
      /\ \A i \in 1..Len(tail) : ready'[i] = tail[i]
  BY <1>1, <1>3, AppendProperties
<1>5. tail \in Seq(Procs) /\ Len(tail) \in Nat
  BY <1>3, LenProperties
<1> HIDE DEF tail
<1>6. <<k>> \in Seq(Procs) /\ ToSet(<<k>>) = {k}
  BY DEF ToSet
<1>7. ready' = tail \o <<k>>
  BY <1>1, <1>5 DEF tail
<1>8. ToSet(tail) \cup {k} \subseteq ToSet(ready')
  BY <1>5, <1>6, <1>7, PartsOfQueue
<1>9. ReadyComplete'
  BY <1>1, <1>2, <1>3, <1>8 DEF ProgressInv, ReadyComplete, Working, tail
<1>10. ASSUME ~progressed, NEW i \in 1..Len(ready'), i > left' PROVE MustWait(ready'[i])
  <2>1. CASE i = Len(tail) + 1
    BY <1>1, <1>4, <2>1
  <2>2. CASE i # Len(tail) + 1
    <3>1. i \in 1..Len(tail)
      BY <1>4, <1>5, <2>2
    <3>2. i + 1 \in 1..Len(ready) /\ i + 1 > left
      BY <1>2, <1>3, <1>10, <3>1 DEF tail
    <3>3. ready'[i] = ready[i + 1]
      BY <1>3, <1>4, <3>1 DEF tail
    <3>4. MustWait(ready[i + 1])
      BY <1>2, <1>10, <3>2 DEF ProgressInv, PassInVain
    <3> QED
      BY <3>3, <3>4
  <2> QED
    BY <2>1, <2>2
<1>11. PassInVain'
  BY <1>1, <1>10 DEF PassInVain, MustWait, DeviceLimit, Busy
<1>12. Ended'
  BY <1>1, <1>2 DEF Ended, Returned
<1> QED
  BY <1>9, <1>11, <1>12 DEF ProgressInv

\* What leads to a prerequisite leads to the process.
LEMMA BeforeIsClosed ==
  ASSUME KeysVerified, NEW q \in Procs
  PROVE  /\ Prereqs(q) \subseteq Before(q) /\ Before(q) \subseteq Procs
         /\ \A d \in Before(q) : Prereqs(d) \subseteq Before(q)
<1>1. \A p \in Procs : Prereqs(p) \subseteq Procs
  BY DEF KeysVerified
<1>2. Prereqs(q) \subseteq Before(q) /\ Before(q) \subseteq Procs
  BY <1>1 DEF Before
<1>3. ASSUME NEW d \in Before(q), NEW e \in Prereqs(d) PROVE e \in Before(q)
  <2>1. e \in Procs
    BY <1>1, <1>2
  <2>2. ASSUME NEW S \in SUBSET Procs, Prereqs(q) \subseteq S, \A c \in S : Prereqs(c) \subseteq S
        PROVE  e \in S
    <3>1. d \in S
      BY <2>2 DEF Before
    <3> QED
      BY <2>2, <3>1
  <2> QED
    BY <2>1, <2>2 DEF Before
<1> QED
  BY <1>2, <1>3

\* A verified graph gets stuck only when some device that was opened stays open: a pass in
\* vain with nothing running leaves the device limit as the only reason to wait.
LEMMA StuckMeansUnclosed ==
  ASSUME IInv, GraphInv, DeviceInv, ProgressInv,
         pc = "scan", left = 0, ~progressed, active = 0, ~AllFinished
  PROVE  ~ScopesClosed
<1> SUFFICES ASSUME ScopesClosed PROVE FALSE
  OBVIOUS
<1>1. /\ Working /\ KeysVerified /\ Grounded /\ TypeOK /\ state \in [Procs -> States]
      /\ graph.opens \subseteq Procs /\ graph.closes \subseteq Procs /\ MaxActiveDevices \in Nat
      /\ Workers \in Nat \ {0}
  <2>1. TypeOK /\ Working
    BY DEF IInv, Working
  <2> QED
    BY <2>1, ScopeShape, GraphShape DEF TypeOK, GraphInv, VerifiedGraph, Started
<1>2. Running = {}
  <2>1. active = Cardinality(Running) /\ Running \in SUBSET Procs
    BY DEF IInv, Accounting, Running
  <2> QED
    BY <2>1, SetsOfProcs, FS_EmptySet
<1>3. \A p \in Procs : state[p] \in Settled \/ state[p] = "PENDING"
  BY <1>1, <1>2 DEF Running, States, Settled
<1>4. ASSUME NEW u \in Procs, state[u] = "PENDING", \A d \in Prereqs(u) : state[d] \in Settled
      PROVE  DeviceLimit(u)
  <2>1. Unsettled(u) = {}
    BY <1>4 DEF Unsettled
  <2>2. pending[u] = 0
    BY <1>1, <2>1, FS_EmptySet DEF IInv, PendingCounts
  <2>3. u \in ToSet(ready)
    BY <1>1, <1>4, <2>2 DEF ProgressInv, ReadyComplete
  <2>4. PICK i \in 1..Len(ready) : u = ready[i]
    BY <1>1, <2>3, SeqIndices DEF TypeOK
  <2>5. MustWait(u)
    BY <2>4 DEF ProgressInv, PassInVain
  <2>6. ~(active >= Workers)
    BY <1>1
  <2>7. held = {}
    BY <1>2 DEF IInv, Accounting
  <2> QED
    BY <2>5, <2>6, <2>7 DEF MustWait, Busy
<1>5. PICK s \in devices : TRUE
  <2> DEFINE P == {p \in Procs : state[p] = "PENDING"}
  <2>1. P # {}
    <3> SUFFICES ASSUME P = {} PROVE FALSE
      OBVIOUS
    <3>1. {p \in Procs : state[p] \in Settled} = Procs
      BY <1>3
    <3> QED
      BY <1>1, <3>1 DEF IInv, Accounting, AllFinished
  <2>2. PICK u \in P : Prereqs(u) \cap P = {}
    BY <1>1, <2>1 DEF Grounded
  <2>3. DeviceLimit(u)
    <3>1. \A d \in Prereqs(u) : d \in Procs /\ state[d] \in Settled
      BY <1>1, <1>3, <2>2 DEF KeysVerified
    <3> QED
      BY <1>4, <2>2, <3>1
  <2>4. devices # {}
    BY <1>1, <2>3, FS_EmptySet DEF DeviceLimit
  <2> QED
    BY <2>4
<1>6. PICK p \in graph.opens :
        /\ graph.scope[p] = s /\ state[p] # "PENDING"
        /\ \A q \in graph.closes : graph.scope[q] = s /\ p \in Prereqs(q) => state[q] \notin Settled
  BY <1>1 DEF DeviceInv, DevicesOpened
<1>7. PICK q \in graph.closes :
        /\ graph.scope[q] = s /\ p \in Prereqs(q)
        /\ Before(q) \cap OpensOther(p) \subseteq Before(p)
  BY <1>6 DEF ScopesClosed
<1> DEFINE W == {d \in Procs : state[d] = "PENDING" /\ (d = q \/ d \in Before(q))}
<1>8. q \in W
  BY <1>1, <1>3, <1>6, <1>7
<1>9. PICK u \in W : Prereqs(u) \cap W = {}
  BY <1>1, <1>8 DEF Grounded
<1>10. Prereqs(u) \subseteq Before(q) /\ Before(q) \subseteq Procs
  BY <1>1, <1>7, <1>9, BeforeIsClosed
<1>11. \A d \in Prereqs(u) : state[d] \in Settled
  BY <1>3, <1>9, <1>10
<1>12. u \in graph.opens /\ graph.scope[u] \notin devices
  BY <1>4, <1>9, <1>11 DEF DeviceLimit
<1>13. u # q /\ graph.scope[u] # s
  BY <1>7, <1>12
<1>14. u \in Before(p)
  BY <1>6, <1>7, <1>9, <1>12, <1>13 DEF OpensOther
<1>15. state[u] \in Settled
  BY <1>1, <1>6, <1>14, MovedWaitedForAll
<1> QED
  BY <1>9, <1>15 DEF Settled

LEMMA NextKeepsProgressInv ==
  IInv /\ GraphInv /\ DeviceInv /\ ProgressInv /\ [Next]_vars => ProgressInv'
<1> SUFFICES ASSUME IInv, GraphInv, DeviceInv, ProgressInv, [Next]_vars PROVE ProgressInv'
  OBVIOUS
<1>1. ASSUME NEW k \in Procs, Dispatch(k) PROVE ProgressInv'
  <2>1. /\ Visit(k) /\ ready' = Tail(ready) /\ progressed' = TRUE
    BY <1>1 DEF Dispatch
  <2>2. /\ Working /\ state \in [Procs -> States] /\ state' = [state EXCEPT ![k] = "RUNNING"]
        /\ UNCHANGED <<graph, pc, pending, finished>>
    BY <1>1, DispatchedKey
  <2>3. ToSet(ready) \ {k} \subseteq ToSet(ready')
    BY <2>1, VisitedKey, RestOfQueue DEF Visit
  <2>4. ReadyComplete'
    BY <2>2, <2>3 DEF ProgressInv, ReadyComplete
  <2> QED
    BY <2>1, <2>2, <2>4 DEF ProgressInv, PassInVain, Ended, Returned, Working
<1>2. CASE GiveUp
  <2>1. /\ pc = "scan" /\ left = 0 /\ ~progressed /\ active = 0 /\ ~AllFinished
        /\ pc' = "false" /\ graph' = graph
    BY <1>2 DEF GiveUp, EndOfPass, Stuck
  <2>2. ~ScopesClosed
    BY <2>1, StuckMeansUnclosed
  <2>3. ScopesClosed' <=> ScopesClosed
    BY <2>1 DEF ScopesClosed, Before, Prereqs, OpensOther
  <2> QED
    BY <2>1, <2>2, <2>3 DEF ProgressInv, ReadyComplete, PassInVain, Ended, Working
<1>3. CASE Start
  <2> DEFINE roots == {p \in Procs : Prereqs(p) = {}}
  <2>1. /\ pc' = "drain" /\ VerifyDependencies /\ graph' = graph
        /\ pending' = [p \in Procs |-> Cardinality(Prereqs(p))]
        /\ ready' \in SetToSeqs(roots)
    BY <1>3 DEF Start
  <2>2. roots \in SUBSET Procs /\ IsFiniteSet(roots)
    BY SetsOfProcs
  <2>3. ToSet(ready') = roots
    BY <2>1, <2>2, WholeOrder
  <2>4. \A p \in Procs : Cardinality(Prereqs(p)) = 0 => Prereqs(p) = {}
    <3>1. \A p \in Procs : IsFiniteSet(Prereqs(p))
      BY <2>1, SetsOfProcs DEF VerifyDependencies, KeysVerified
    <3> QED
      BY <3>1, FS_EmptySet
  <2>5. ReadyComplete'
    BY <2>1, <2>3, <2>4 DEF ReadyComplete
  <2> QED
    BY <2>1, <2>5 DEF ProgressInv, PassInVain, Ended, Returned
<1>4. CASE Idle
  <2>1. UNCHANGED <<graph, state, pending, ready, finished, active, held, devices>>
    BY <1>4 DEF Idle, execVars, limitVars
  <2>2. /\ Working' => Working
        /\ \/ UNCHANGED <<pc, left, progressed>> \/ pc' # "scan" \/ left' = Len(ready)
        /\ Returned' => Returned \/ Refuse \/ Return
    BY <1>4 DEF Idle, Refuse, BeginPass, PassLength, Return, NextPass, Wait, Wake, EndOfPass,
                Working, Returned
  <2>3. ReadyComplete'
    BY <2>1, <2>2 DEF ProgressInv, ReadyComplete
  <2>4. PassInVain'
    <3>1. CASE UNCHANGED <<pc, left, progressed>>
      BY <2>1, <3>1 DEF ProgressInv, PassInVain, MustWait, DeviceLimit, Busy
    <3>2. CASE pc' # "scan"
      BY <3>2 DEF PassInVain
    <3>3. CASE left' = Len(ready)
      <4>1. Len(ready) \in Nat
        BY LenProperties DEF IInv, TypeOK
      <4> QED
        BY <2>1, <3>3, <4>1 DEF PassInVain
    <3> QED
      BY <2>2, <3>1, <3>2, <3>3
  <2>5. Ended'
    <3>1. Refuse => \A p \in Procs : state[p] = "PENDING"
      BY DEF Refuse, IInv, Accounting
    <3>2. Return => AllFinished
      BY DEF Return
    <3>3. (AllFinished' <=> AllFinished) /\ (ScopesClosed' <=> ScopesClosed)
      BY <2>1 DEF AllFinished, ScopesClosed, Before, Prereqs, OpensOther
    <3> QED
      BY <2>1, <2>2, <3>1, <3>2, <3>3 DEF ProgressInv, Ended
  <2> QED
    BY <2>3, <2>4, <2>5 DEF ProgressInv
<1> QED
  BY <1>1, <1>2, <1>3, <1>4, StepsTaken, SettlingKeepsProgressInv, DeferKeepsProgressInv

LEMMA ProgressInvariance == Spec => []ProgressInv
  BY InitProgressInv, NextKeepsProgressInv, Invariance, GraphInvariance, DeviceInvariance,
     PTL DEF Spec

\* The executor settles everything before it returns, unless it refused the collection or
\* some device is opened that no process closes; nothing is left running then.
THEOREM SettlesAll == Spec => []RefusedOrFinished
<1>1. ASSUME IInv, ProgressInv PROVE RefusedOrFinished
  <2> SUFFICES ASSUME Returned PROVE Running = {} /\ completed = << >>
    BY <1>1 DEF RefusedOrFinished, ProgressInv, Ended
  <2>1. Running = {}
    BY <1>1 DEF IInv, Accounting
  <2>2. completed \in Seq(Procs) /\ \A p \in ToSet(completed) : state[p] = "RUNNING"
    BY <1>1 DEF IInv, TypeOK, CompletedAreRunning
  <2>3. ASSUME completed # << >> PROVE FALSE
    <3>1. Len(completed) \in Nat /\ Len(completed) # 0
      BY <2>2, <2>3, LenProperties, EmptySeq
    <3>2. completed[1] \in ToSet(completed) /\ completed[1] \in Procs
      BY <2>2, <3>1, SeqIndices, ElementOfSeq
    <3> QED
      BY <2>1, <2>2, <3>2 DEF Running
  <2> QED
    BY <2>1, <2>3
<1> QED
  BY <1>1, Invariance, ProgressInvariance, PTL
=============================================================================
