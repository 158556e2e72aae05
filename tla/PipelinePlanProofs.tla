-------------------------- MODULE PipelinePlanProofs --------------------------
(***************************************************************************)
(* Theorems about TopoGraph as PipelinePlan uses it, for every set of       *)
(* definitions, every resolver, every request and every call.               *)
(***************************************************************************)
EXTENDS PipelinePlan, InductionFacts, SequenceTheorems, FiniteSetTheorems, TLAPS

-----------------------------------------------------------------------------
(***************************************************************************)
(* Sequences of which nothing is known but that they are sequences.         *)
(***************************************************************************)
IsSequence(s) == \E S : s \in Seq(S)

LEMMA Appended ==
  ASSUME NEW s, NEW e, IsSequence(s)
  PROVE  /\ IsSequence(Append(s, e))
         /\ Len(s) \in Nat /\ Len(Append(s, e)) = Len(s) + 1
         /\ \A k \in 1..Len(s) : Append(s, e)[k] = s[k]
         /\ Append(s, e)[Len(s) + 1] = e
  <1>1. PICK S : s \in Seq(S)
    BY DEF IsSequence
  <1>2. s \in Seq(S \cup {e}) /\ e \in S \cup {e}
    BY <1>1
  <1>3. Append(s, e) \in Seq(S \cup {e})
    BY <1>2
  <1> QED
    BY <1>2, <1>3 DEF IsSequence

LEMMA WithoutLast ==
  ASSUME NEW s, IsSequence(s), s # << >>
  PROVE  /\ IsSequence(Front(s))
         /\ Len(s) \in Nat \ {0} /\ Len(Front(s)) = Len(s) - 1
         /\ \A k \in 1..(Len(s) - 1) : Front(s)[k] = s[k]
  <1>1. PICK S : s \in Seq(S)
    BY DEF IsSequence
  <1>2. Len(s) \in Nat \ {0}
    BY <1>1
  <1>3. Front(s) \in Seq(S)
    BY <1>1, <1>2 DEF Front
  <1>4. Len(Front(s)) = Len(s) - 1 /\ \A k \in 1..(Len(s) - 1) : Front(s)[k] = s[k]
    BY <1>1, <1>2 DEF Front
  <1> QED
    BY <1>2, <1>3, <1>4 DEF IsSequence

\* A call changed where it is.
LEMMA Replaced ==
  ASSUME NEW calls, IsSequence(calls), NEW i \in 1..Len(calls), NEW g
  PROVE  /\ IsSequence([calls EXCEPT ![i] = g])
         /\ Len([calls EXCEPT ![i] = g]) = Len(calls)
         /\ \A k \in 1..Len(calls) :
              [calls EXCEPT ![i] = g][k] = IF k = i THEN g ELSE calls[k]
  <1>1. PICK S : calls \in Seq(S)
    BY DEF IsSequence
  <1>2. calls \in Seq(S \cup {g}) /\ g \in S \cup {g}
    BY <1>1
  <1>3. [calls EXCEPT ![i] = g] \in Seq(S \cup {g})
    BY <1>2
  <1> QED
    BY <1>2, <1>3 DEF IsSequence

\* Appending what is new keeps the elements of a list distinct.
LEMMA Kept ==
  ASSUME NEW n \in Nat, NEW s \in Seq(1..n), Distinct(s),
         NEW key \in 1..n, key \notin Range(s)
  PROVE  /\ Append(s, key) \in Seq(1..n) /\ Distinct(Append(s, key))
         /\ Range(Append(s, key)) = Range(s) \cup {key}
  <1>1. Append(s, key) \in Seq(1..n) /\ Len(Append(s, key)) = Len(s) + 1
    OBVIOUS
  <1>2. \A k \in 1..Len(s) : Append(s, key)[k] = s[k] /\ s[k] # key
    BY DEF Range
  <1>3. Append(s, key)[Len(s) + 1] = key
    OBVIOUS
  <1>4. Distinct(Append(s, key))
    BY <1>1, <1>2, <1>3 DEF Distinct
  <1>5. DOMAIN s = 1..Len(s) /\ DOMAIN Append(s, key) = 1..(Len(s) + 1) /\ Len(s) \in Nat
    BY <1>1
  <1>6. ASSUME NEW x \in Range(Append(s, key)) PROVE x \in Range(s) \cup {key}
    <2>1. PICK k \in 1..(Len(s) + 1) : x = Append(s, key)[k]
      BY <1>5, <1>6 DEF Range
    <2> QED
      BY <2>1, <1>2, <1>3, <1>5 DEF Range
  <1>7. ASSUME NEW x \in Range(s) \cup {key} PROVE x \in Range(Append(s, key))
    <2>1. CASE x = key
      BY <2>1, <1>3, <1>5 DEF Range
    <2>2. CASE x \in Range(s)
      <3>1. PICK k \in 1..Len(s) : x = s[k]
        BY <2>2, <1>5 DEF Range
      <3>2. x = Append(s, key)[k] /\ k \in 1..(Len(s) + 1)
        BY <3>1, <1>2, <1>5
      <3> QED
        BY <3>2, <1>5 DEF Range
    <2> QED
      BY <2>1, <2>2, <1>7
  <1> QED
    BY <1>1, <1>4, <1>6, <1>7

-----------------------------------------------------------------------------
(***************************************************************************)
(* The inductive invariant.  The keys a call of Add has collected are those *)
(* of processes that exist, each once; the dependencies come first.         *)
(***************************************************************************)
Collected(f, n) ==
  /\ f = [id |-> f.id, deps |-> f.deps, comps |-> f.comps, dep |-> f.dep, comp |-> f.comp]
  /\ f.dep \in Seq(1..n) /\ f.comp \in Seq(1..n)
  /\ Distinct(f.dep) /\ Distinct(f.comp)
  /\ Range(f.dep) \cap Range(f.comp) = {}
  /\ f.deps # << >> => f.comp = << >>

\* An instance is visited once, and not after it became a process.
CallsWell(calls, ps) ==
  /\ IsSequence(calls)
  /\ \A k \in 1..Len(calls) :
       Collected(calls[k], Len(ps)) /\ \A j \in 1..Len(ps) : calls[k].id # ps[j].id
  /\ \A j, k \in 1..Len(calls) : calls[j].id = calls[k].id => j = k
GraphWell(ps) == IsSequence(ps) /\ WellFounded(ps)

IInv == GraphWell(processes) /\ CallsWell(stack, processes)

LEMMA EmptyWell == GraphWell(<< >>) /\ \A ps : CallsWell(<< >>, ps)
  <1>1. << >> \in Seq({}) /\ Len(<< >>) = 0
    OBVIOUS
  <1> QED
    BY <1>1 DEF GraphWell, CallsWell, IsSequence, WellFounded

LEMMA ReceivedWell ==
  ASSUME NEW n \in Nat, NEW f, Collected(f, n), NEW key \in 1..n
  PROVE  Collected(Received(f, key), n) /\ Received(f, key).id = f.id
  <1> DEFINE D == IF key \in Range(f.dep) THEN f.dep ELSE Append(f.dep, key)
             C == IF key \in Range(f.dep) \cup Range(f.comp) THEN f.comp
                  ELSE Append(f.comp, key)
             onDep == [id |-> f.id, deps |-> Tail(f.deps), comps |-> f.comps,
                       dep |-> D, comp |-> f.comp]
             onComp == [id |-> f.id, deps |-> f.deps, comps |-> Tail(f.comps),
                        dep |-> f.dep, comp |-> C]
  <1>1. CASE f.deps # << >>
    <2>1. Received(f, key) = onDep
      BY <1>1 DEF Received, Collected
    <2>2. D \in Seq(1..n) /\ Distinct(D) /\ f.comp = << >>
      BY <1>1, Kept DEF Collected
    <2>3. Range(f.comp) = {}
      BY <2>2 DEF Range
    <2> HIDE DEF D
    <2> QED
      BY <2>1, <2>2, <2>3 DEF Collected
  <1>2. CASE f.deps = << >>
    <2>1. Received(f, key) = onComp
      BY <1>2 DEF Received, Collected
    <2>2. C \in Seq(1..n) /\ Distinct(C)
      BY Kept DEF Collected
    <2>3. Range(f.dep) \cap Range(C) = {}
      <3>1. CASE key \in Range(f.dep) \cup Range(f.comp)
        BY <3>1 DEF Collected
      <3>2. CASE key \notin Range(f.dep) \cup Range(f.comp)
        <4>1. Range(C) = Range(f.comp) \cup {key}
          BY <3>2, Kept DEF Collected
        <4> QED
          BY <4>1, <3>2 DEF Collected
      <3> QED
        BY <3>1, <3>2
    <2> HIDE DEF C
    <2> QED
      BY <2>1, <2>2, <2>3, <1>2 DEF Collected
  <1> QED
    BY <1>1, <1>2

\* Giving a key to the innermost call, or to none, keeps the calls well formed.
LEMMA DeliverKeeps ==
  ASSUME NEW calls, NEW ps, GraphWell(ps), CallsWell(calls, ps), NEW key \in 1..Len(ps),
         Deliver(calls, key)
  PROVE  CallsWell(stack', ps)
  <1> Len(ps) \in Nat
    BY Appended DEF GraphWell
  <1>1. CASE calls = << >>
    BY <1>1 DEF Deliver
  <1>2. CASE calls # << >>
    <2>1. Len(calls) \in 1..Len(calls)
      BY <1>2, WithoutLast DEF CallsWell
    <2> DEFINE f == calls[Len(calls)]
               g == Received(f, key)
    <2>2. Collected(f, Len(ps)) /\ \A j \in 1..Len(ps) : f.id # ps[j].id
      BY <2>1 DEF CallsWell
    <2>3. Collected(g, Len(ps)) /\ g.id = f.id
      BY <2>2, ReceivedWell
    <2> HIDE DEF g
    <2>4. stack' = [calls EXCEPT ![Len(calls)] = g]
      BY <1>2 DEF Deliver, g
    <2>5. /\ IsSequence(stack') /\ Len(stack') = Len(calls)
          /\ \A k \in 1..Len(calls) : stack'[k] = IF k = Len(calls) THEN g ELSE calls[k]
      <3>1. IsSequence(calls) /\ Len(calls) \in 1..Len(calls)
        BY <2>1 DEF CallsWell
      <3> HIDE DEF f
      <3>2. \A i \in 1..Len(calls) :
              /\ IsSequence([calls EXCEPT ![i] = g])
              /\ Len([calls EXCEPT ![i] = g]) = Len(calls)
              /\ \A k \in 1..Len(calls) :
                   [calls EXCEPT ![i] = g][k] = IF k = i THEN g ELSE calls[k]
        BY <3>1, Replaced
      <3> QED
        BY <2>1, <2>4, <3>2
    <2>6. \A k \in 1..Len(calls) : stack'[k].id = calls[k].id
      BY <2>3, <2>5
    <2>7. \A k \in 1..Len(calls) : Collected(stack'[k], Len(ps))
      BY <2>3, <2>5 DEF CallsWell
    <2> QED
      BY <2>5, <2>6, <2>7 DEF CallsWell
  <1> QED
    BY <1>1, <1>2

-----------------------------------------------------------------------------
(***************************************************************************)
(* Every step keeps it.                                                     *)
(***************************************************************************)
\* A call that goes on has collected nothing.
LEMMA FrameWell ==
  ASSUME NEW i, NEW n \in Nat
  PROVE  Collected(Frame(i), n) /\ Frame(i).id = i
  <1> DEFINE deps == Frame(i).deps
             comps == Frame(i).comps
  <1>1. Frame(i) = [id |-> i, deps |-> deps, comps |-> comps, dep |-> << >>, comp |-> << >>]
    BY DEF Frame
  <1> HIDE DEF deps, comps
  <1>2. << >> \in Seq(1..n) /\ Distinct(<< >>) /\ Range(<< >>) = {}
    BY DEF Distinct, Range
  <1> QED
    BY <1>1, <1>2 DEF Collected

LEMMA EnterKeeps == IInv /\ Enter => IInv'
  <1> SUFFICES ASSUME IInv, Enter PROVE IInv'
    OBVIOUS
  <1> DEFINE i == Instance
             f == Frame(Instance)
  <1>1. processes' = processes /\ GraphWell(processes) /\ Len(processes) \in Nat
    BY Appended DEF IInv, Enter, GraphWell
  <1>2. stack' = Append(stack, f) /\ i \notin Ids \cup Visiting
    BY DEF Enter
  <1>3. Collected(f, Len(processes)) /\ f.id = i
    BY <1>1, FrameWell
  <1> HIDE DEF f, i
  <1>4. /\ IsSequence(stack') /\ Len(stack) \in Nat /\ Len(stack') = Len(stack) + 1
        /\ \A k \in 1..Len(stack) : stack'[k] = stack[k]
        /\ stack'[Len(stack) + 1] = f
    BY <1>2, Appended DEF IInv, CallsWell
  <1>5. \A k \in 1..Len(stack) : stack[k].id # i
    BY <1>2 DEF Visiting
  <1>6. \A j \in 1..Len(processes) : processes[j].id # i
    BY <1>2 DEF Ids
  <1>7. \A k \in 1..Len(stack') :
          /\ Collected(stack'[k], Len(processes))
          /\ \A j \in 1..Len(processes) : stack'[k].id # processes[j].id
    BY <1>3, <1>4, <1>6 DEF IInv, CallsWell
  <1>8. \A j, k \in 1..Len(stack') : stack'[j].id = stack'[k].id => j = k
    BY <1>3, <1>4, <1>5 DEF IInv, CallsWell
  <1> QED
    BY <1>1, <1>4, <1>7, <1>8 DEF IInv, CallsWell

LEMMA KnownKeeps == IInv /\ Known => IInv'
  <1> SUFFICES ASSUME IInv, Known PROVE IInv'
    OBVIOUS
  <1>1. PICK k \in 1..Len(processes) : processes[k].id = Instance
    BY DEF Known, Ids
  <1>2. KeyOf(Instance) \in 1..Len(processes)
    BY <1>1 DEF KeyOf
  <1>3. CallsWell(stack', processes)
    BY <1>2, DeliverKeeps DEF IInv, Known
  <1> QED
    BY <1>3 DEF IInv, Known

\* The innermost call leaves what it collected as a process of its own.
LEMMA LeaveGraph ==
  ASSUME IInv, stack # << >>,
         NEW p, p = [id |-> Top.id, dep |-> Top.dep, comp |-> Top.comp]
  PROVE  /\ GraphWell(Append(processes, p)) /\ CallsWell(Front(stack), Append(processes, p))
         /\ Len(processes) + 1 \in 1..Len(Append(processes, p))
  <1> DEFINE n == Len(processes)
             f == stack[Len(stack)]
             calls == Front(stack)
             ps == Append(processes, p)
  <1>1. /\ Len(stack) \in Nat \ {0} /\ IsSequence(calls) /\ Len(calls) = Len(stack) - 1
        /\ \A k \in 1..(Len(stack) - 1) : calls[k] = stack[k]
    BY WithoutLast DEF IInv, CallsWell
  <1>3. /\ Collected(f, n) /\ \A j \in 1..n : f.id # processes[j].id
        /\ \A k \in 1..(Len(stack) - 1) : stack[k].id # f.id
    BY <1>1 DEF IInv, CallsWell
  <1>4. p.id = f.id /\ p.dep = f.dep /\ p.comp = f.comp
    BY DEF Top
  <1> HIDE DEF calls, f
  <1>5. /\ IsSequence(ps) /\ n \in Nat /\ Len(ps) = n + 1
        /\ \A k \in 1..n : ps[k] = processes[k]
        /\ ps[n + 1] = p
    BY Appended DEF IInv, GraphWell
  <1> HIDE DEF ps
  <1>6. GraphWell(ps)
    <2>1. Inputs(p) \subseteq 1..n
      <3>1. DOMAIN f.dep = 1..Len(f.dep) /\ DOMAIN f.comp = 1..Len(f.comp)
        BY <1>3, <1>5 DEF Collected
      <3>2. \A k \in 1..Len(f.dep) : f.dep[k] \in 1..n
        BY <1>3 DEF Collected
      <3>3. \A k \in 1..Len(f.comp) : f.comp[k] \in 1..n
        BY <1>3 DEF Collected
      <3> QED
        BY <3>1, <3>2, <3>3, <1>4 DEF Inputs, Range
    <2>2. \A k \in 1..(n + 1) :
            /\ Inputs(ps[k]) \subseteq 1..(k - 1)
            /\ Distinct(ps[k].dep) /\ Distinct(ps[k].comp)
            /\ Range(ps[k].dep) \cap Range(ps[k].comp) = {}
      <3> TAKE k \in 1..(n + 1)
      <3>1. CASE k \in 1..n
        BY <3>1, <1>5 DEF IInv, GraphWell, WellFounded
      <3>2. CASE k = n + 1
        BY <3>2, <1>3, <1>4, <1>5, <2>1 DEF Collected
      <3> QED
        BY <3>1, <3>2, <1>5
    <2>3. \A j, k \in 1..(n + 1) : ps[j].id = ps[k].id => j = k
      BY <1>3, <1>4, <1>5 DEF IInv, GraphWell, WellFounded
    <2> QED
      BY <1>5, <2>2, <2>3 DEF GraphWell, WellFounded
  <1>7. CallsWell(calls, ps)
    <2>1. \A k \in 1..Len(calls) : Collected(stack[k], n + 1)
      <3> TAKE k \in 1..Len(calls)
      <3>1. Collected(stack[k], n)
        BY <1>1 DEF IInv, CallsWell
      <3>2. 1..n \subseteq 1..(n + 1)
        BY <1>5
      <3> QED
        BY <3>1, <3>2 DEF Collected
    <2>2. \A k \in 1..Len(calls) : \A j \in 1..(n + 1) : stack[k].id # ps[j].id
      BY <1>1, <1>3, <1>4, <1>5 DEF IInv, CallsWell
    <2>3. \A j, k \in 1..Len(calls) : stack[j].id = stack[k].id => j = k
      BY <1>1 DEF IInv, CallsWell
    <2> QED
      BY <1>1, <1>5, <2>1, <2>2, <2>3 DEF CallsWell
  <1> QED
    BY <1>5, <1>6, <1>7 DEF ps, calls

LEMMA LeaveKeeps == IInv /\ Leave => IInv'
  <1> SUFFICES ASSUME IInv, Leave PROVE IInv'
    OBVIOUS
  <1> DEFINE p == [id |-> Top.id, dep |-> Top.dep, comp |-> Top.comp]
             calls == Front(stack)
  <1>1. /\ processes' = Append(processes, p) /\ Deliver(calls, Len(processes) + 1)
        /\ stack # << >>
    BY DEF Leave
  <1> HIDE DEF p
  <1>2. /\ GraphWell(Append(processes, p)) /\ CallsWell(calls, Append(processes, p))
        /\ Len(processes) + 1 \in 1..Len(Append(processes, p))
    BY <1>1, LeaveGraph DEF p
  <1> HIDE DEF calls
  <1>3. CallsWell(stack', Append(processes, p))
    BY <1>1, <1>2, DeliverKeeps
  <1> QED
    BY <1>1, <1>2, <1>3 DEF IInv

-----------------------------------------------------------------------------
LEMMA InitIInv == Init => IInv
  BY EmptyWell DEF Init, Start, IInv

LEMMA NextKeepsIInv == IInv /\ [Next]_vars => IInv'
  <1> SUFFICES ASSUME IInv, [Next]_vars PROVE IInv'
    OBVIOUS
  <1>1. CASE Known
    BY <1>1, KnownKeeps
  <1>2. CASE Enter
    BY <1>2, EnterKeeps
  <1>3. CASE Leave
    BY <1>3, LeaveKeeps
  <1>4. CASE Fail
    BY <1>4, EmptyWell DEF Fail, IInv
  <1>5. CASE Finish
    BY <1>5 DEF Finish, IInv
  <1>6. CASE Complete
    BY <1>6, EmptyWell DEF Complete, Begin, IInv
  <1>7. CASE UNCHANGED vars
    BY <1>7 DEF vars, graphVars, buildVars, IInv
  <1> QED
    BY <1>1, <1>2, <1>3, <1>4, <1>5, <1>6, <1>7 DEF Next, Compiling, Compile

THEOREM Invariance == Spec => []IInv
  BY InitIInv, NextKeepsIInv, PTL DEF Spec

\* Whatever the definitions say, of any number of devices and chips, and whatever the
\* resolvers return: a graph that Build returns has no cycle, no missing key and no
\* key twice, and no instance is two of its processes (topo_graph.cpp:142).
THEOREM GraphVerifiable == Spec => []Verifiable
  <1>1. IInv => Verifiable
    BY DEF IInv, GraphWell, Verifiable
  <1> QED
    BY <1>1, Invariance, PTL

-----------------------------------------------------------------------------
(***************************************************************************)
(* What a well-formed call gives to Build.                                  *)
(***************************************************************************)
\* The elements of a finite set, listed.
LEMMA ListedAll ==
  ASSUME NEW S, IsFiniteSet(S)
  PROVE  Listed(S) \in Seq(S) /\ Range(Listed(S)) = S
  <1> DEFINE f == CHOOSE f : f = [s \in SUBSET S |-> IF s = {} THEN << >>
                                   ELSE Append(f[s \ {ANY(s)}], ANY(s))]
  <1>1. Listed(S) = f[S]
    BY Zenon DEF Listed, FoldSet, MapThenFoldSet, ANY
  <1>2. f = [s \in SUBSET S |-> IF s = {} THEN << >>
                                ELSE Append(f[s \ {ANY(s)}], ANY(s))]
    BY FoldExists, Zenon
  <1> HIDE DEF f
  <1> QED
    BY <1>1, <1>2, FoldLists

\* The definition found for an id is one of the call.
LEMMA Given ==
  ASSUME WellFormed(job), NEW e, Defined(e)
  PROVE  Shaped(Definition(e)) /\ Answers(Definition(e), job)
  <1>1. \A i \in DOMAIN job.overlay : Shaped(job.overlay[i]) /\ Answers(job.overlay[i], job)
    BY DEF WellFormed, Collection
  <1>2. \A i \in DOMAIN Registry : Shaped(Registry[i]) /\ Answers(Registry[i], job)
    BY DEF WellFormed, Collection, Registry
  <1> QED
    BY <1>1, <1>2 DEF Defined, Definition

LEMMA IdParts ==
  ASSUME NEW e, IsId(e)
  PROVE  /\ Unscoped(e) = [stage |-> e.stage, name |-> e.name, scope |-> NoScope]
         /\ \A s : InstanceOn(e, s) = [stage |-> e.stage, name |-> e.name, scope |-> s]
         /\ \A s : IsId(InstanceOn(e, s))
         /\ e.scope = NoScope => Unscoped(e) = e
         /\ IsId(Unscoped(e))
  <1> DEFINE r(s) == [stage |-> e.stage, name |-> e.name, scope |-> s]
  <1>1. e = r(e.scope)
    BY DEF IsId
  <1>2. Unscoped(e) = [r(e.scope) EXCEPT !.scope = NoScope]
    BY <1>1 DEF Unscoped
  <1>3. Unscoped(e) = r(NoScope)
    BY <1>2
  <1>4. \A s : InstanceOn(e, s) = [r(e.scope) EXCEPT !.scope = s]
    BY <1>1 DEF InstanceOn
  <1>5. \A s : InstanceOn(e, s) = r(s)
    BY <1>4
  <1>6. \A s : IsId(r(s))
    BY DEF IsId
  <1>7. e.scope = NoScope => Unscoped(e) = e
    BY <1>1, <1>3
  <1> QED
    BY <1>3, <1>5, <1>6, <1>7

LEMMA InstanceKnown ==
  ASSUME WellFormed(job), NEW e, IsId(e), NEW parent, Resolves(e, parent)
  PROVE  /\ Resolved(e, parent) \in Universe /\ IsId(Resolved(e, parent))
         /\ Resolved(e, parent) = InstanceOn(e, ScopeOf(e, parent))
  <1> DEFINE s == ScopeOf(e, parent)
             i == Resolved(e, parent)
             scopes == DOMAIN job.chips \cup {"profile", "host", "export"}
  <1>1. Defined(e) /\ Shaped(Definition(e)) /\ e.scope \in {NoScope, s}
    BY Given DEF Resolves
  <1>2. s \in ScopesFor(Definition(e), job) /\ s \in scopes
    BY <1>1 DEF Resolves, ScopesFor, ScopeOf, Shaped
  <1>3. s # NoScope
    <2>1. NoScope \notin DOMAIN job.chips
      BY DEF WellFormed, Scopes
    <2>2. NoScope \notin {"profile", "host", "export"}
      BY DEF NoScope
    <2> QED
      BY <1>2, <2>1, <2>2
  <1>4. i = InstanceOn(e, s)
    BY DEF Resolved, InstanceOn
  <1> HIDE DEF s, i
  <1>5. i = [stage |-> e.stage, name |-> e.name, scope |-> s] /\ IsId(i)
    BY <1>4, IdParts
  <1>6. i.scope = s /\ Unscoped(i) = Unscoped(e) /\ (e.scope = s => i = e)
    <2>1. Unscoped(i) = [stage |-> i.stage, name |-> i.name, scope |-> NoScope]
      BY <1>5, IdParts
    <2>2. Unscoped(e) = [stage |-> e.stage, name |-> e.name, scope |-> NoScope]
      BY IdParts
    <2>3. e.scope = s => i = e
      BY <1>5 DEF IsId
    <2>4. i.scope = s /\ i.stage = e.stage /\ i.name = e.name
      BY <1>5
    <2> QED
      BY <2>1, <2>2, <2>3, <2>4
  <1>7. \E n \in DOMAIN Registry \cup DOMAIN job.overlay : i = InstanceOn(n, s)
    <2>1. e \in DOMAIN job.overlay \/ Unscoped(e) \in DOMAIN Registry \cup DOMAIN job.overlay
      BY <1>1 DEF Defined
    <2>2. InstanceOn(Unscoped(e), s) = InstanceOn(e, s)
      <3>1. IsId(Unscoped(e)) /\ Unscoped(e).stage = e.stage /\ Unscoped(e).name = e.name
        <4>1. Unscoped(e) = [stage |-> e.stage, name |-> e.name, scope |-> NoScope]
          BY IdParts
        <4> QED
          BY <4>1, IdParts
      <3>2. \A u : IsId(u) => InstanceOn(u, s) = [stage |-> u.stage, name |-> u.name, scope |-> s]
        BY IdParts
      <3> QED
        BY <3>1, <3>2
    <2> QED
      BY <1>4, <2>1, <2>2
  <1>8. Defined(i)
    <2>1. e \in DOMAIN job.overlay => {i, Unscoped(i)} \cap DOMAIN job.overlay # {}
      <3>1. e.scope = NoScope => Unscoped(e) = e
        BY IdParts
      <3> QED
        BY <1>1, <1>6, <3>1
    <2> QED
      BY <2>1, <1>1, <1>6 DEF Defined
  <1>9. i.scope \in ScopesFor(Definition(i), job)
    <2>1. CASE i \in DOMAIN job.overlay
      <3>1. Definition(i) = job.overlay[i]
        BY <2>1 DEF Definition
      <3> QED
        BY <2>1, <3>1, <1>3, <1>6 DEF WellFormed
    <2>2. CASE i \notin DOMAIN job.overlay
      <3>1. e \notin DOMAIN job.overlay \/ e = Unscoped(e)
        BY <1>1, <1>6, <2>2, IdParts
      <3>2. Definition(i) = Definition(e)
        BY <1>6, <2>2, <3>1 DEF Definition
      <3> QED
        BY <3>2, <1>2, <1>6
    <2> QED
      BY <2>1, <2>2
  <1>10. i \in Universe
    BY <1>2, <1>7, <1>8, <1>9 DEF Universe
  <1> QED
    BY <1>4, <1>5, <1>10 DEF i, s

LEMMA UniverseOfIds ==
  ASSUME WellFormed(job)
  PROVE  (\A i \in Universe : IsId(i)) /\ IsFiniteSet(Universe)
  <1> DEFINE defs == DOMAIN Registry \cup DOMAIN job.overlay
             scopes == DOMAIN job.chips \cup {"profile", "host", "export"}
             f == [x \in defs \X scopes |-> InstanceOn(x[1], x[2])]
             T == {f[x] : x \in DOMAIN f}
  <1>1. /\ IsFiniteSet(DOMAIN Registry) /\ IsFiniteSet(DOMAIN job.overlay)
        /\ \A n \in defs : IsId(n)
        /\ IsFiniteSet(DOMAIN job.chips)
    BY DEF WellFormed, Collection, Scopes, Registry
  <1>2. IsFiniteSet({"profile", "host", "export"})
    <2>1. IsFiniteSet({"profile"}) /\ IsFiniteSet({"profile"} \cup {"host"})
      BY FS_Singleton, FS_AddElement
    <2>2. IsFiniteSet(({"profile"} \cup {"host"}) \cup {"export"})
      BY <2>1, FS_AddElement
    <2>3. ({"profile"} \cup {"host"}) \cup {"export"} = {"profile", "host", "export"}
      OBVIOUS
    <2> QED
      BY <2>2, <2>3
  <1>3. IsFiniteSet(defs) /\ IsFiniteSet(scopes)
    BY <1>1, <1>2, FS_Union
  <1>4. DOMAIN f = defs \X scopes
    OBVIOUS
  <1>5. \A n \in defs, s \in scopes : <<n, s>> \in DOMAIN f /\ f[<<n, s>>] = InstanceOn(n, s)
    OBVIOUS
  <1>6. \A i \in Universe : \E n \in defs, s \in scopes : i = InstanceOn(n, s)
    BY DEF Universe
  <1> HIDE DEF defs, scopes, f
  <1>7. IsFiniteSet(T)
    <2>1. IsFiniteSet(DOMAIN f)
      BY <1>3, <1>4, FS_Product
    <2> QED
      BY <2>1, FiniteImage
  <1>8. ASSUME NEW i \in Universe PROVE i \in T /\ IsId(i)
    <2>1. PICK n \in defs, s \in scopes : i = InstanceOn(n, s)
      BY <1>6
    <2>2. <<n, s>> \in DOMAIN f /\ f[<<n, s>>] = i
      BY <2>1, <1>5
    <2>3. IsId(i)
      BY <1>1, <2>1, IdParts
    <2> QED
      BY <2>2, <2>3
  <1>9. Universe \in SUBSET T
    BY <1>8
  <1> QED
    BY <1>7, <1>8, <1>9, FS_Subset

-----------------------------------------------------------------------------
(***************************************************************************)
(* Lists of ids.                                                            *)
(***************************************************************************)
LEMMA IdListOf ==
  ASSUME NEW S, NEW s \in Seq(S), \A e \in S : IsId(e)
  PROVE  IdList(s) /\ Range(s) \subseteq S
  BY SeqOfRange, RangeOfSeq DEF IdList

LEMMA IdListEmpty == IdList(<< >>) /\ Range(<< >>) = {}
  BY DEF IdList, Range

LEMMA IdListConcat ==
  ASSUME NEW s, NEW t, IdList(s), IdList(t)
  PROVE  IdList(s \o t) /\ Range(s \o t) = Range(s) \cup Range(t)
  <1> DEFINE S == Range(s) \cup Range(t)
  <1>1. s \in Seq(S) /\ t \in Seq(S)
    <2>1. s \in Seq(Range(s)) /\ t \in Seq(Range(t))
      BY DEF IdList
    <2> QED
      BY <2>1, SeqMonotonic
  <1>2. \A e \in S : IsId(e)
    BY DEF IdList
  <1> HIDE DEF S
  <1>3. s \o t \in Seq(S) /\ Range(s \o t) = Range(s) \cup Range(t)
    BY <1>1, ConcatProperties, RangeConcatenation
  <1> QED
    BY <1>2, <1>3, IdListOf

LEMMA IdListHead ==
  ASSUME NEW s, IdList(s), s # << >>
  PROVE  /\ Head(s) \in Range(s) /\ IsId(Head(s)) /\ IdList(Tail(s))
         /\ Range(s) = {Head(s)} \cup Range(Tail(s))
  <1> DEFINE S == Range(s)
  <1>1. s \in Seq(S) /\ \A e \in S : IsId(e)
    BY DEF IdList
  <1>2. Head(s) \in S /\ Tail(s) \in Seq(S) /\ s = <<Head(s)>> \o Tail(s)
    <2> HIDE DEF S
    <2> QED
      BY <1>1, HeadTailProperties, SMT
  <1>3. IdList(Tail(s)) /\ Range(Tail(s)) \subseteq S
    BY <1>1, <1>2, IdListOf
  <1>4. \A x \in S : Range(<<x>>) = {x} /\ <<x>> \in Seq(S)
    BY DEF Range
  <1>5. Range(<<Head(s)>> \o Tail(s)) = {Head(s)} \cup Range(Tail(s))
    <2>1. \A a, b \in Seq(S) : Range(a \o b) = Range(a) \cup Range(b)
      BY RangeConcatenation
    <2> HIDE DEF S
    <2>2. /\ Head(s) \in S /\ Tail(s) \in Seq(S) /\ <<Head(s)>> \in Seq(S)
          /\ Range(<<Head(s)>>) = {Head(s)}
      BY <1>2, <1>4
    <2> QED
      BY <2>1, <2>2
  <1>6. Range(s) = Range(<<Head(s)>> \o Tail(s))
    BY <1>2
  <1> QED
    BY <1>1, <1>2, <1>3, <1>5, <1>6

LEMMA DependenciesListed ==
  ASSUME WellFormed(job), NEW i \in Universe
  PROVE  IdList(Dependencies(i)) /\ IdList(Definition(i).comps)
  <1> DEFINE d == Definition(i)
             more == IF Resolver(d) = NoResolver THEN << >>
                     ELSE Resolve(Resolver(d), i.scope, View(job))
  <1>1. Shaped(d) /\ Answers(d, job) /\ i.scope \in ScopesFor(d, job)
    BY Given DEF Universe
  <1>2. IdList(more)
    BY <1>1, IdListEmpty DEF Answers
  <1>3. Dependencies(i) = d.deps \o more
    BY DEF Dependencies
  <1> HIDE DEF d, more
  <1> QED
    BY <1>1, <1>2, <1>3, IdListConcat DEF Shaped, d

-----------------------------------------------------------------------------
(***************************************************************************)
(* Expanding names (ExpandDeviceDependencies).                              *)
(***************************************************************************)
Expanded(e) ==
  IF e.stage # "DEVICE_PROCESSING" \/ e.scope # NoScope THEN {e} ELSE OnEachDevice(e)

LEMMA OnEachDeviceOfIds ==
  ASSUME WellFormed(job), NEW e, IsId(e)
  PROVE  IsFiniteSet(OnEachDevice(e)) /\ \A i \in OnEachDevice(e) : IsId(i)
  <1> DEFINE f == [s \in DOMAIN job.chips |-> InstanceOn(e, s)]
             T == {f[s] : s \in DOMAIN f}
  <1>1. IsFiniteSet(T)
    <2>1. DOMAIN f = DOMAIN job.chips
      OBVIOUS
    <2>2. IsFiniteSet(DOMAIN f)
      BY <2>1 DEF WellFormed, Scopes
    <2> QED
      BY <2>2, FiniteImage
  <1>2. OnEachDevice(e) \in SUBSET T
    BY DEF OnEachDevice
  <1>3. \A i \in T : IsId(i)
    BY IdParts
  <1> QED
    BY <1>1, <1>2, <1>3, FS_Subset

LEMMA ExpandLists ==
  ASSUME WellFormed(job), NEW ids, IdList(ids)
  PROVE  /\ IdList(Expand(ids))
         /\ Range(Expand(ids)) = UNION {Expanded(e) : e \in Range(ids)}
  <1> DEFINE part(e) == IF e.stage # "DEVICE_PROCESSING" \/ e.scope # NoScope
                        THEN <<e>> ELSE Listed(OnEachDevice(e))
             parts == [k \in 1..Len(ids) |-> part(ids[k])]
             S == UNION {Expanded(e) : e \in Range(ids)}
  <1>1. Expand(ids) = FlattenSeq(parts)
    BY Zenon DEF Expand
  <1>2. Len(ids) \in Nat /\ \A k \in 1..Len(ids) : ids[k] \in Range(ids) /\ IsId(ids[k])
    BY DEF IdList, Range
  <1>3. ASSUME NEW e \in Range(ids)
        PROVE  part(e) \in Seq(S) /\ Range(part(e)) = Expanded(e)
    <2>1. Expanded(e) \subseteq S
      BY <1>3
    <2>2. part(e) \in Seq(Expanded(e)) /\ Range(part(e)) = Expanded(e)
      <3>1. CASE e.stage # "DEVICE_PROCESSING" \/ e.scope # NoScope
        <4>1. part(e) = <<e>> /\ Expanded(e) = {e}
          BY <3>1 DEF Expanded
        <4>2. <<e>> \in Seq({e}) /\ Range(<<e>>) = {e}
          BY DEF Range
        <4> QED
          BY <4>1, <4>2
      <3>2. CASE ~(e.stage # "DEVICE_PROCESSING" \/ e.scope # NoScope)
        <4>1. part(e) = Listed(OnEachDevice(e)) /\ Expanded(e) = OnEachDevice(e)
          BY <3>2 DEF Expanded
        <4>2. IsFiniteSet(OnEachDevice(e))
          BY <1>3, OnEachDeviceOfIds DEF IdList
        <4>3. Listed(OnEachDevice(e)) \in Seq(OnEachDevice(e))
              /\ Range(Listed(OnEachDevice(e))) = OnEachDevice(e)
          BY <4>2, ListedAll
        <4> HIDE DEF part
        <4> QED
          BY <4>1, <4>3
      <3> QED
        BY <3>1, <3>2
    <2> HIDE DEF part, S
    <2> QED
      BY <2>1, <2>2, SeqMonotonic
  <1> HIDE DEF part, S
  <1>4. parts \in Seq(Seq(S)) /\ Len(parts) = Len(ids)
    BY <1>2, <1>3
  <1>5. \A k \in 1..Len(ids) : parts[k] = part(ids[k])
    OBVIOUS
  <1> HIDE DEF parts
  <1>6. /\ FlattenSeq(parts) \in Seq(S)
        /\ Range(FlattenSeq(parts)) = UNION {Range(parts[k]) : k \in 1..Len(ids)}
    BY <1>4, FlattenRange
  <1>7. \A k \in 1..Len(ids) : Range(parts[k]) = Expanded(ids[k])
    BY <1>2, <1>3, <1>5
  <1>8. \A e \in Range(ids) : \E k \in 1..Len(ids) : ids[k] = e
    BY DEF IdList, Range
  <1>9. UNION {Range(parts[k]) : k \in 1..Len(ids)} = S
    BY <1>2, <1>7, <1>8 DEF S
  <1>10. \A e \in S : IsId(e)
    <2> SUFFICES ASSUME NEW e \in Range(ids), NEW i \in Expanded(e) PROVE IsId(i)
      BY DEF S
    <2> QED
      BY OnEachDeviceOfIds DEF Expanded, IdList
  <1> QED
    BY <1>1, <1>6, <1>9, <1>10, IdListOf DEF S

\* The names of a list are what the source expands it to.
LEMMA NamedIsListed ==
  ASSUME WellFormed(job), NEW i, NEW ids, IdList(ids)
  PROVE  /\ Definition(i).kind = "device" => Named(i, ids) = Range(ids)
         /\ Definition(i).kind # "device" => Named(i, ids) = Range(Expand(ids))
  <1>1. CASE Definition(i).kind = "device"
    <2>1. Named(i, ids) = UNION {{e} : e \in Range(ids)}
      BY <1>1, Zenon DEF Named
    <2> QED
      BY <1>1, <2>1
  <1>2. CASE Definition(i).kind # "device"
    <2> DEFINE on(e) == {x \in {InstanceOn(e, s) : s \in DOMAIN job.chips} :
                           /\ x.scope \notin job.reuse
                           /\ Defined(x) => Supports(Definition(x), job.chips[x.scope])}
               name(e) == IF e.stage = "DEVICE_PROCESSING" /\ e.scope = NoScope THEN on(e) ELSE {e}
    <2>1. Named(i, ids) = UNION {name(e) : e \in Range(ids)}
      BY <1>2, Zenon DEF Named
    <2>2. \A e \in Range(ids) : on(e) = OnEachDevice(e)
      <3> SUFFICES ASSUME NEW e \in Range(ids) PROVE on(e) = OnEachDevice(e)
        OBVIOUS
      <3>1. \A s : InstanceOn(e, s).scope = s
        <4>1. \A s : InstanceOn(e, s) = [stage |-> e.stage, name |-> e.name, scope |-> s]
          BY IdParts DEF IdList
        <4> QED
          BY <4>1
      <3> QED
        BY <3>1 DEF OnEachDevice
    <2> HIDE DEF on
    <2>3. \A e \in Range(ids) : name(e) = Expanded(e)
      BY <2>2 DEF Expanded
    <2> HIDE DEF name
    <2>4. Named(i, ids) = UNION {Expanded(e) : e \in Range(ids)}
      BY <2>1, <2>3
    <2> QED
      BY <1>2, <2>4, ExpandLists
  <1> QED
    BY <1>1, <1>2

\* A call of Add goes through exactly the names its instance depends on.
LEMMA FrameLists ==
  ASSUME WellFormed(job), NEW i \in Universe
  PROVE  /\ IdList(Frame(i).deps) /\ Range(Frame(i).deps) = DepNames(i)
         /\ IdList(Frame(i).comps) /\ Range(Frame(i).comps) = CompNames(i)
         /\ Frame(i).dep = << >> /\ Frame(i).comp = << >> /\ Frame(i).id = i
  <1> DEFINE deps == Dependencies(i)
             comps == Definition(i).comps
             device == Definition(i).kind = "device"
             ds == IF device THEN deps ELSE Expand(deps)
             cs == IF device THEN comps ELSE Expand(comps)
  <1>1. Frame(i) = [id |-> i, deps |-> ds, comps |-> cs, dep |-> << >>, comp |-> << >>]
    BY Zenon DEF Frame
  <1>2. IdList(deps) /\ IdList(comps)
    BY DependenciesListed
  <1>3. DepNames(i) = Named(i, deps) /\ CompNames(i) = Named(i, comps)
    BY DEF DepNames, CompNames
  <1> HIDE DEF deps, comps
  <1>4. IdList(ds) /\ Range(ds) = Named(i, deps)
    <2>1. CASE device
      BY <2>1, <1>2, NamedIsListed
    <2>2. CASE ~device
      BY <2>2, <1>2, NamedIsListed, ExpandLists
    <2> QED
      BY <2>1, <2>2
  <1>5. IdList(cs) /\ Range(cs) = Named(i, comps)
    <2>1. CASE device
      BY <2>1, <1>2, NamedIsListed
    <2>2. CASE ~device
      BY <2>2, <1>2, NamedIsListed, ExpandLists
    <2> QED
      BY <2>1, <2>2
  <1> HIDE DEF ds, cs
  <1>6. /\ Frame(i).deps = ds /\ Frame(i).comps = cs
        /\ Frame(i).dep = << >> /\ Frame(i).comp = << >> /\ Frame(i).id = i
    BY <1>1
  <1> QED
    BY <1>3, <1>4, <1>5, <1>6

\* What an instance needs is an instance again.
LEMMA NeededKnown ==
  ASSUME WellFormed(job), NEW i \in Universe
  PROVE  /\ \A e \in DepNames(i) \cup CompNames(i) : IsId(e)
         /\ Needed(i) \in SUBSET Universe
  <1>1. \A e \in DepNames(i) \cup CompNames(i) : IsId(e)
    BY FrameLists DEF IdList
  <1> QED
    BY <1>1, InstanceKnown DEF Needed, Instances

-----------------------------------------------------------------------------
(***************************************************************************)
(* What the roots need, as a least set: the recursive definitions of        *)
(* TopoGraph say the same.                                                  *)
(***************************************************************************)
Closed(S) ==
  Instances(Range(job.roots), NoScope) \subseteq S /\ \A i \in S : Needed(i) \subseteq S
Reached(i) == i \in Universe /\ \A S \in SUBSET Universe : Closed(S) => i \in S

\* Why Build cannot succeed: some instances that are needed each need another of them,
\* or one is missing, on the wrong chip or not bound.
Refuted ==
  \/ job.roots = << >>
  \/ \E r \in Range(job.roots) : ~Resolves(r, NoScope)
  \/ \E i \in Universe :
       /\ Reached(i)
       /\ \/ \E e \in DepNames(i) \cup CompNames(i) : ~Resolves(e, i.scope)
          \/ ~RunsOnItsChip(i) \/ ~Bound(i)
  \/ \E C \in SUBSET Universe : C # {} /\ \A i \in C : Reached(i) /\ Needed(i) \cap C # {}

NeededOf == [i \in Universe |-> Needed(i)]

LEMMA NeededOfType ==
  WellFormed(job) => NeededOf \in [Universe -> SUBSET Universe]
  BY NeededKnown DEF NeededOf

LEMMA ClosureDefined == WellFormed(job) => IsClosure(Closure, Universe, NeededOf)
  <1> SUFFICES ASSUME WellFormed(job) PROVE IsClosure(Closure, Universe, NeededOf)
    OBVIOUS
  <1> DEFINE wide(S) == S \cup UNION {Needed(i) : i \in S}
             is(c) == c = [S \in SUBSET Universe |-> IF wide(S) = S THEN S ELSE c[wide(S)]]
  <1>1. Closure = CHOOSE c : is(c)
    BY Zenon DEF Closure
  <1>2. \A S \in SUBSET Universe : wide(S) = Widened(NeededOf, S)
    BY DEF Widened, NeededOf
  <1>3. ASSUME NEW c PROVE is(c) <=> IsClosure(c, Universe, NeededOf)
    <2> DEFINE f == [S \in SUBSET Universe |-> IF wide(S) = S THEN S ELSE c[wide(S)]]
               g == [S \in SUBSET Universe |-> IF Widened(NeededOf, S) = S THEN S
                                               ELSE c[Widened(NeededOf, S)]]
    <2>1. f = g
      <3> HIDE DEF wide
      <3> QED
        BY <1>2
    <2>2. is(c) <=> c = f
      OBVIOUS
    <2>3. IsClosure(c, Universe, NeededOf) <=> c = g
      BY DEF IsClosure
    <2> QED
      BY <2>1, <2>2, <2>3
  <1> HIDE DEF is
  <1>4. \E c : IsClosure(c, Universe, NeededOf)
    BY NeededOfType, ClosureExists
  <1>5. is(Closure)
    BY <1>1, <1>3, <1>4, Zenon
  <1> QED
    BY <1>3, <1>5

LEMMA CoreDefined == WellFormed(job) => IsCore(Core, Universe, NeededOf)
  <1> SUFFICES ASSUME WellFormed(job) PROVE IsCore(Core, Universe, NeededOf)
    OBVIOUS
  <1> DEFINE trim(S) == {i \in S : Needed(i) \cap S # {}}
             is(c) == c = [S \in SUBSET Universe |-> IF trim(S) = S THEN S ELSE c[trim(S)]]
  <1>1. Core = CHOOSE c : is(c)
    BY Zenon DEF Core
  <1>2. \A S \in SUBSET Universe : trim(S) = Trimmed(NeededOf, S)
    BY DEF Trimmed, NeededOf
  <1>3. ASSUME NEW c PROVE is(c) <=> IsCore(c, Universe, NeededOf)
    <2> DEFINE f == [S \in SUBSET Universe |-> IF trim(S) = S THEN S ELSE c[trim(S)]]
               g == [S \in SUBSET Universe |-> IF Trimmed(NeededOf, S) = S THEN S
                                               ELSE c[Trimmed(NeededOf, S)]]
    <2>1. f = g
      <3> HIDE DEF trim
      <3> QED
        BY <1>2
    <2>2. is(c) <=> c = f
      OBVIOUS
    <2>3. IsCore(c, Universe, NeededOf) <=> c = g
      BY DEF IsCore
    <2> QED
      BY <2>1, <2>2, <2>3
  <1> HIDE DEF is
  <1>4. \E c : IsCore(c, Universe, NeededOf)
    BY NeededOfType, CoreExists
  <1>5. is(Core)
    BY <1>1, <1>3, <1>4, Zenon
  <1> QED
    BY <1>3, <1>5

LEMMA DemandedIsReached ==
  ASSUME WellFormed(job)
  PROVE  Demanded \in SUBSET Universe /\ \A i : i \in Demanded <=> Reached(i)
  <1> DEFINE S0 == Instances(Range(job.roots), NoScope)
             D == Closure[S0]
  <1>1. S0 \in SUBSET Universe /\ \A i \in Universe : Needed(i) \in SUBSET Universe
    <2>1. S0 \in SUBSET Universe
      <3>1. \A e \in Range(job.roots) : IsId(e)
        BY DEF WellFormed, IdList
      <3> QED
        BY <3>1, InstanceKnown DEF Instances
    <2> QED
      BY <2>1, NeededKnown
  <1>2. Demanded = D
    BY Zenon DEF Demanded
  <1>3. \A i \in Universe : NeededOf[i] = Needed(i)
    BY DEF NeededOf
  <1> HIDE DEF S0
  <1>4. /\ D \in SUBSET Universe /\ S0 \subseteq D
        /\ \A i \in D : NeededOf[i] \subseteq D
        /\ \A X \in SUBSET Universe :
             S0 \subseteq X /\ (\A i \in X : NeededOf[i] \subseteq X) => D \subseteq X
    BY <1>1, ClosureDefined, NeededOfType, UniverseOfIds, ClosureIsLeast
  <1> HIDE DEF D
  <1>5. \A X \in SUBSET Universe :
          Closed(X) <=> S0 \subseteq X /\ (\A i \in X : NeededOf[i] \subseteq X)
    BY <1>3 DEF Closed, S0
  <1>6. Closed(D)
    BY <1>4, <1>5
  <1> QED
    BY <1>2, <1>4, <1>5, <1>6 DEF Reached

LEMMA BuildableUnlessRefuted ==
  ASSUME WellFormed(job)
  PROVE  Buildable <=> ~Refuted
  <1>1. Demanded \in SUBSET Universe /\ \A i : i \in Demanded <=> Reached(i)
    BY DemandedIsReached
  <1>2. Core[Demanded] # {} <=>
          \E C \in SUBSET Demanded : C # {} /\ \A i \in C : NeededOf[i] \cap C # {}
    BY <1>1, CoreDefined, NeededOfType, UniverseOfIds, CoreIsLeft
  <1>3. \A i \in Universe : NeededOf[i] = Needed(i)
    BY DEF NeededOf
  <1>4. Core[Demanded] # {} <=>
          \E C \in SUBSET Universe : C # {} /\ \A i \in C : Reached(i) /\ Needed(i) \cap C # {}
    <2>1. ASSUME NEW C \in SUBSET Demanded
          PROVE  /\ C \in SUBSET Universe
                 /\ \A i \in C : Reached(i) /\ NeededOf[i] = Needed(i)
      BY <1>1, <1>3
    <2>2. ASSUME NEW C \in SUBSET Universe, \A i \in C : Reached(i)
          PROVE  C \in SUBSET Demanded /\ \A i \in C : NeededOf[i] = Needed(i)
      BY <1>1, <1>3, <2>2
    <2> QED
      BY <1>2, <2>1, <2>2
  <1> QED
    BY <1>1, <1>4 DEF Buildable, Refuted

-----------------------------------------------------------------------------
(***************************************************************************)
(* What a call means does not change while it runs.                         *)
(***************************************************************************)
LEMMA SameDefinitions ==
  ASSUME job' = job
  PROVE  /\ \A e : Defined(e)' <=> Defined(e)
         /\ \A e : Definition(e)' = Definition(e)
  BY DEF Defined, Definition, Registry

LEMMA SameScopes ==
  ASSUME job' = job
  PROVE  /\ \A e, s : ScopeOf(e, s)' = ScopeOf(e, s)
         /\ \A e, s : Resolves(e, s)' <=> Resolves(e, s)
         /\ \A e, s : Resolved(e, s)' = Resolved(e, s)
  <1>1. \A e, s : ScopeOf(e, s)' = ScopeOf(e, s)
    BY SameDefinitions DEF ScopeOf
  <1>2. \A e, s : Resolves(e, s)' <=> Resolves(e, s)
    BY <1>1, SameDefinitions DEF Resolves
  <1>3. \A e, s : Resolved(e, s)' = Resolved(e, s)
    BY <1>1 DEF Resolved
  <1> QED
    BY <1>1, <1>2, <1>3

LEMMA SameBindings ==
  ASSUME job' = job
  PROVE  /\ \A i : RunsOnItsChip(i)' <=> RunsOnItsChip(i)
         /\ \A i : Bound(i)' <=> Bound(i)
         /\ \A i : Dependencies(i)' = Dependencies(i)
  <1>1. \A i : RunsOnItsChip(i)' <=> RunsOnItsChip(i)
    BY SameDefinitions DEF RunsOnItsChip
  <1>2. \A i : Bound(i)' <=> Bound(i)
    BY SameDefinitions DEF Bound
  <1>3. \A i : Dependencies(i)' = Dependencies(i)
    <2> SUFFICES ASSUME NEW i PROVE Dependencies(i)' = Dependencies(i)
      OBVIOUS
    <2>1. Definition(i)' = Definition(i)
      BY SameDefinitions
    <2> DEFINE all(d, j) == d.deps \o (IF Resolver(d) = NoResolver THEN << >>
                                      ELSE Resolve(Resolver(d), i.scope, View(j)))
    <2>2. Dependencies(i) = all(Definition(i), job)
      BY Zenon DEF Dependencies
    <2>3. Dependencies(i)' = all(Definition(i)', job')
      BY Zenon DEF Dependencies
    <2> HIDE DEF all
    <2> QED
      BY <2>1, <2>2, <2>3
  <1> QED
    BY <1>1, <1>2, <1>3

LEMMA SameNames ==
  ASSUME job' = job
  PROVE  /\ \A i, ds : Named(i, ds)' = Named(i, ds)
         /\ \A i : DepNames(i)' = DepNames(i) /\ CompNames(i)' = CompNames(i)
  <1> DEFINE on(e) == {x \in {InstanceOn(e, s) : s \in DOMAIN job.chips} :
                         /\ x.scope \notin job.reuse
                         /\ Defined(x) => Supports(Definition(x), job.chips[x.scope])}
             name(i, e) == IF Definition(i).kind # "device"
                              /\ e.stage = "DEVICE_PROCESSING" /\ e.scope = NoScope
                           THEN on(e) ELSE {e}
  <1>1. \A e : on(e)' = on(e)
    BY SameDefinitions
  <1>2. \A i, ds : Named(i, ds) = UNION {name(i, e) : e \in Range(ds)}
    BY Zenon DEF Named
  <1>3. \A i, ds : Named(i, ds)' = UNION {name(i, e)' : e \in Range(ds)}
    BY Zenon DEF Named
  <1> HIDE DEF on
  <1>4. \A i, e : name(i, e)' = name(i, e)
    BY <1>1, SameDefinitions
  <1> HIDE DEF name
  <1>5. \A i, ds : Named(i, ds)' = Named(i, ds)
    BY <1>2, <1>3, <1>4
  <1>6. \A i : DepNames(i)' = DepNames(i) /\ CompNames(i)' = CompNames(i)
    BY <1>5, SameBindings, SameDefinitions DEF DepNames, CompNames
  <1> QED
    BY <1>5, <1>6

LEMMA SameNeeds ==
  ASSUME job' = job
  PROVE  /\ \A names, s : Instances(names, s)' = Instances(names, s)
         /\ \A i : Needed(i)' = Needed(i)
         /\ Universe' = Universe
  <1>1. \A names, s : Instances(names, s)' = Instances(names, s)
    BY SameScopes DEF Instances
  <1>2. \A i : Needed(i)' = Needed(i)
    BY <1>1, SameNames DEF Needed
  <1>3. Universe' = Universe
    BY SameDefinitions DEF Universe, Registry
  <1> QED
    BY <1>1, <1>2, <1>3

LEMMA SameMeaning ==
  ASSUME job' = job
  PROVE  /\ WellFormed(job)' <=> WellFormed(job)
         /\ \A i : Reached(i)' <=> Reached(i)
         /\ Refuted' <=> Refuted
  <1>1. \A S : Closed(S)' <=> Closed(S)
    BY SameNeeds DEF Closed
  <1>2. \A i : Reached(i)' <=> Reached(i)
    BY <1>1, SameNeeds DEF Reached
  <1>3. Refuted' <=> Refuted
    BY <1>2, SameNeeds, SameNames, SameBindings, SameScopes DEF Refuted
  <1>4. WellFormed(job)' <=> WellFormed(job)
    OBVIOUS
  <1> QED
    BY <1>2, <1>3, <1>4

-----------------------------------------------------------------------------
(***************************************************************************)
(* The invariant of a compilation.  A call of Add still goes through the    *)
(* names it has no key for; the next call is about the first of them; what  *)
(* became a process has a process for everything it needs.                  *)
(***************************************************************************)
KeysOf(ps, s) == {ps[j].id : j \in Range(s)}
IdsOf(ps) == {ps[j].id : j \in 1..Len(ps)}
Has(e, scope, ids) == Resolves(e, scope) /\ Resolved(e, scope) \in ids

Asks(f) == f.deps # << >> \/ f.comps # << >>
Asked(f) == IF f.deps # << >> THEN Head(f.deps) ELSE Head(f.comps)

FrameOk(f, ps) ==
  /\ Reached(f.id) /\ RunsOnItsChip(f.id)
  /\ IdList(f.deps) /\ Range(f.deps) \subseteq DepNames(f.id)
  /\ IdList(f.comps) /\ Range(f.comps) \subseteq CompNames(f.id)
  /\ \A e \in DepNames(f.id) \ Range(f.deps) : Has(e, f.id.scope, KeysOf(ps, f.dep))
  /\ \A e \in CompNames(f.id) \ Range(f.comps) :
       Has(e, f.id.scope, KeysOf(ps, f.dep) \cup KeysOf(ps, f.comp))
  /\ KeysOf(ps, f.dep) \subseteq Instances(DepNames(f.id), f.id.scope)
  /\ KeysOf(ps, f.comp) \subseteq Instances(CompNames(f.id), f.id.scope)

ProcessOk(p, ps) ==
  /\ Reached(p.id) /\ RunsOnItsChip(p.id) /\ Bound(p.id)
  /\ \A e \in DepNames(p.id) : Has(e, p.id.scope, KeysOf(ps, p.dep))
  /\ \A e \in CompNames(p.id) : Has(e, p.id.scope, KeysOf(ps, p.dep) \cup KeysOf(ps, p.comp))
  /\ KeysOf(ps, p.dep) \subseteq Instances(DepNames(p.id), p.id.scope)
  /\ KeysOf(ps, p.comp) \subseteq Instances(CompNames(p.id), p.id.scope)

\* The first name that the innermost of some calls asks for, or the n-th root, is
\* resolved as `id`.
Answered(calls, n, id) ==
  /\ calls = << >> => n <= Len(job.roots) /\ Has(job.roots[n], NoScope, {id})
  /\ calls # << >> =>
       LET f == calls[Len(calls)] IN Asks(f) /\ Has(Asked(f), f.id.scope, {id})

CallsOk(calls, n, ps) ==
  /\ \A k \in 1..Len(calls) : FrameOk(calls[k], ps)
  /\ calls # << >> => n <= Len(job.roots) /\ Has(job.roots[n], NoScope, {calls[1].id})
  /\ \A k \in 1..(Len(calls) - 1) :
       Asks(calls[k]) /\ Has(Asked(calls[k]), calls[k].id.scope, {calls[k + 1].id})
RootsOk(n, ps) ==
  /\ n \in 1..(Len(job.roots) + 1)
  /\ \A m \in 1..(n - 1) : Has(job.roots[m], NoScope, IdsOf(ps))

GoingAt(calls, n, ps) ==
  /\ job.roots # << >> /\ RootsOk(n, ps) /\ CallsOk(calls, n, ps)
  /\ \A k \in 1..Len(ps) : ProcessOk(ps[k], ps)
Going ==
  \E calls, n, ps :
    calls = stack /\ n = next /\ ps = processes /\ GoingAt(calls, n, ps)
Exact ==
  /\ WellFormed(job)
  /\ verdict \in {"none", "true", "false"}
  /\ verdict = "true" => stack = << >> /\ next > Len(job.roots)
  /\ verdict = "false" => Refuted /\ processes = << >> /\ stack = << >>
  /\ verdict # "false" => Going

-----------------------------------------------------------------------------
LEMMA ReachedFurther ==
  ASSUME WellFormed(job), NEW i, Reached(i), NEW e \in DepNames(i) \cup CompNames(i),
         Resolves(e, i.scope)
  PROVE  Reached(Resolved(e, i.scope)) /\ Resolved(e, i.scope) \in Needed(i)
  <1>1. Resolved(e, i.scope) \in Needed(i)
    BY DEF Needed, Instances
  <1>2. Resolved(e, i.scope) \in Universe
    BY <1>1, NeededKnown DEF Reached
  <1> QED
    BY <1>1, <1>2 DEF Reached, Closed

LEMMA ReachedRoot ==
  ASSUME WellFormed(job), NEW e \in Range(job.roots), Resolves(e, NoScope)
  PROVE  Reached(Resolved(e, NoScope))
  <1>1. Resolved(e, NoScope) \in Instances(Range(job.roots), NoScope)
    BY DEF Instances
  <1>2. Resolved(e, NoScope) \in Universe
    BY InstanceKnown DEF WellFormed, IdList
  <1> QED
    BY <1>1, <1>2 DEF Reached, Closed

\* What a call asks for is a name of its own.
LEMMA AskedName ==
  ASSUME NEW f, IdList(f.deps), IdList(f.comps), Asks(f)
  PROVE  Asked(f) \in Range(f.deps) \cup Range(f.comps)
  BY IdListHead DEF Asked, Asks

LEMMA RootName ==
  ASSUME WellFormed(job), NEW n \in 1..Len(job.roots)
  PROVE  job.roots[n] \in Range(job.roots)
  BY DEF WellFormed, IdList, Range

LEMMA AnsweredReached ==
  ASSUME WellFormed(job), NEW calls, NEW n \in Nat \ {0}, NEW ps, IsSequence(calls),
         CallsOk(calls, n, ps), NEW id, Answered(calls, n, id)
  PROVE  /\ Reached(id)
         /\ calls # << >> => id \in Needed(calls[Len(calls)].id)
  <1>1. CASE calls = << >>
    <2>1. n \in 1..Len(job.roots) /\ Has(job.roots[n], NoScope, {id})
      <3>1. Len(job.roots) \in Nat
        BY DEF WellFormed, IdList
      <3> QED
        BY <1>1, <3>1 DEF Answered
    <2> QED
      BY <1>1, <2>1, RootName, ReachedRoot DEF Has
  <1>2. CASE calls # << >>
    <2> DEFINE f == calls[Len(calls)]
    <2>1. Asks(f) /\ Has(Asked(f), f.id.scope, {id})
      BY <1>2 DEF Answered
    <2>2. Len(calls) \in 1..Len(calls)
      BY <1>2, WithoutLast
    <2>3. FrameOk(f, ps)
      BY <2>2 DEF CallsOk
    <2> HIDE DEF f
    <2>4. Asked(f) \in DepNames(f.id) \cup CompNames(f.id) /\ Reached(f.id)
      BY <2>1, <2>3, AskedName DEF FrameOk
    <2>5. Reached(id) /\ id \in Needed(f.id)
      BY <2>1, <2>4, ReachedFurther DEF Has
    <2> QED
      BY <2>5 DEF f
  <1> QED
    BY <1>1, <1>2

-----------------------------------------------------------------------------
(***************************************************************************)
(* Delivering a key.                                                        *)
(***************************************************************************)
LEMMA ReceivedShape ==
  ASSUME NEW n \in Nat, NEW f, Collected(f, n), NEW key \in 1..n
  PROVE  LET g == Received(f, key)
         IN  /\ g.id = f.id
             /\ f.deps # << >> => /\ g.deps = Tail(f.deps) /\ g.comps = f.comps
                                  /\ Range(g.dep) = Range(f.dep) \cup {key}
                                  /\ g.comp = f.comp
             /\ f.deps = << >> => /\ g.deps = f.deps /\ g.comps = Tail(f.comps)
                                  /\ g.dep = f.dep
                                  /\ Range(g.comp) \subseteq Range(f.comp) \cup {key}
                                  /\ Range(g.dep) \cup Range(g.comp)
                                       = Range(f.dep) \cup Range(f.comp) \cup {key}
  <1> DEFINE D == IF key \in Range(f.dep) THEN f.dep ELSE Append(f.dep, key)
             C == IF key \in Range(f.dep) \cup Range(f.comp) THEN f.comp
                  ELSE Append(f.comp, key)
             onDep == [id |-> f.id, deps |-> Tail(f.deps), comps |-> f.comps,
                       dep |-> D, comp |-> f.comp]
             onComp == [id |-> f.id, deps |-> f.deps, comps |-> Tail(f.comps),
                        dep |-> f.dep, comp |-> C]
  <1>1. f.deps # << >> => Received(f, key) = onDep
    BY DEF Received, Collected
  <1>2. f.deps = << >> => Received(f, key) = onComp
    BY DEF Received, Collected
  <1>3. Range(D) = Range(f.dep) \cup {key}
    BY Kept DEF Collected
  <1>4. /\ Range(C) \subseteq Range(f.comp) \cup {key}
        /\ Range(f.dep) \cup Range(C) = Range(f.dep) \cup Range(f.comp) \cup {key}
    <2>1. CASE key \in Range(f.dep) \cup Range(f.comp)
      BY <2>1
    <2>2. CASE key \notin Range(f.dep) \cup Range(f.comp)
      <3>1. Range(C) = Range(f.comp) \cup {key}
        BY <2>2, Kept DEF Collected
      <3> QED
        BY <3>1
    <2> QED
      BY <2>1, <2>2
  <1> DEFINE g == Received(f, key)
  <1> HIDE DEF C, D, g
  <1>5. ASSUME f.deps # << >>
        PROVE  /\ g.id = f.id /\ g.deps = Tail(f.deps) /\ g.comps = f.comps
               /\ g.dep = D /\ g.comp = f.comp
    <2>1. g = onDep
      BY <1>1, <1>5 DEF g
    <2>2. /\ onDep.id = f.id /\ onDep.deps = Tail(f.deps) /\ onDep.comps = f.comps
          /\ onDep.dep = D /\ onDep.comp = f.comp
      OBVIOUS
    <2> HIDE DEF onDep
    <2> QED
      BY <2>1, <2>2
  <1>6. ASSUME f.deps = << >>
        PROVE  /\ g.id = f.id /\ g.deps = f.deps /\ g.comps = Tail(f.comps)
               /\ g.dep = f.dep /\ g.comp = C
    BY <1>2, <1>6 DEF g
  <1> HIDE DEF onDep, onComp
  <1> QED
    BY <1>3, <1>4, <1>5, <1>6 DEF g

LEMMA ReceivedOk ==
  ASSUME NEW ps, NEW n \in Nat, NEW f, Collected(f, n), FrameOk(f, ps), NEW key \in 1..n,
         Asks(f), Has(Asked(f), f.id.scope, {ps[key].id})
  PROVE  FrameOk(Received(f, key), ps)
  <1> DEFINE g == Received(f, key)
             e == Asked(f)
             id == ps[key].id
  <1>1. CASE f.deps # << >>
    <2>1. /\ g.id = f.id /\ g.deps = Tail(f.deps) /\ g.comps = f.comps
          /\ Range(g.dep) = Range(f.dep) \cup {key} /\ g.comp = f.comp
      BY <1>1, ReceivedShape
    <2>2. e = Head(f.deps)
      BY <1>1 DEF Asked
    <2>3. IdList(g.deps) /\ Range(f.deps) = {e} \cup Range(g.deps)
      BY <1>1, <2>1, <2>2, IdListHead DEF FrameOk
    <2>4. KeysOf(ps, g.dep) = KeysOf(ps, f.dep) \cup {id}
      BY <2>1 DEF KeysOf
    <2>5. Resolves(e, f.id.scope) /\ Resolved(e, f.id.scope) = id /\ e \in DepNames(f.id)
      BY <2>3 DEF Has, FrameOk
    <2>6. id \in Instances(DepNames(f.id), f.id.scope)
      BY <2>5 DEF Instances
    <2> HIDE DEF g, e, id
    <2>7. Reached(g.id) /\ RunsOnItsChip(g.id) /\ IdList(g.comps)
      BY <2>1 DEF FrameOk
    <2>8. Range(g.deps) \subseteq DepNames(g.id) /\ Range(g.comps) \subseteq CompNames(g.id)
      BY <2>1, <2>3 DEF FrameOk
    <2>9. \A x \in DepNames(g.id) \ Range(g.deps) : Has(x, g.id.scope, KeysOf(ps, g.dep))
      BY <2>1, <2>3, <2>4, <2>5 DEF FrameOk, Has
    <2>10. \A x \in CompNames(g.id) \ Range(g.comps) :
             Has(x, g.id.scope, KeysOf(ps, g.dep) \cup KeysOf(ps, g.comp))
      BY <2>1, <2>4 DEF FrameOk, Has
    <2>11. /\ KeysOf(ps, g.dep) \subseteq Instances(DepNames(g.id), g.id.scope)
           /\ KeysOf(ps, g.comp) \subseteq Instances(CompNames(g.id), g.id.scope)
      BY <2>1, <2>4, <2>6 DEF FrameOk
    <2> QED
      BY <2>3, <2>7, <2>8, <2>9, <2>10, <2>11 DEF FrameOk, g
  <1>2. CASE f.deps = << >>
    <2>1. /\ g.id = f.id /\ g.deps = f.deps /\ g.comps = Tail(f.comps) /\ g.dep = f.dep
          /\ Range(g.comp) \subseteq Range(f.comp) \cup {key}
          /\ Range(g.dep) \cup Range(g.comp) = Range(f.dep) \cup Range(f.comp) \cup {key}
      BY <1>2, ReceivedShape
    <2>2. e = Head(f.comps) /\ f.comps # << >>
      BY <1>2 DEF Asked, Asks
    <2>3. IdList(g.comps) /\ Range(f.comps) = {e} \cup Range(g.comps)
      BY <2>1, <2>2, IdListHead DEF FrameOk
    <2>4. /\ KeysOf(ps, g.dep) \cup KeysOf(ps, g.comp)
               = KeysOf(ps, f.dep) \cup KeysOf(ps, f.comp) \cup {id}
          /\ KeysOf(ps, g.comp) \subseteq KeysOf(ps, f.comp) \cup {id}
      BY <2>1 DEF KeysOf
    <2>5. Resolves(e, f.id.scope) /\ Resolved(e, f.id.scope) = id /\ e \in CompNames(f.id)
      BY <2>3 DEF Has, FrameOk
    <2>6. id \in Instances(CompNames(f.id), f.id.scope)
      BY <2>5 DEF Instances
    <2> HIDE DEF g, e, id
    <2>7. Reached(g.id) /\ RunsOnItsChip(g.id) /\ IdList(g.deps)
      BY <2>1 DEF FrameOk
    <2>8. Range(g.deps) \subseteq DepNames(g.id) /\ Range(g.comps) \subseteq CompNames(g.id)
      BY <2>1, <2>3 DEF FrameOk
    <2>9. \A x \in DepNames(g.id) \ Range(g.deps) : Has(x, g.id.scope, KeysOf(ps, g.dep))
      BY <2>1 DEF FrameOk
    <2>10. \A x \in CompNames(g.id) \ Range(g.comps) :
             Has(x, g.id.scope, KeysOf(ps, g.dep) \cup KeysOf(ps, g.comp))
      BY <2>1, <2>3, <2>4, <2>5 DEF FrameOk, Has
    <2>11. /\ KeysOf(ps, g.dep) \subseteq Instances(DepNames(g.id), g.id.scope)
           /\ KeysOf(ps, g.comp) \subseteq Instances(CompNames(g.id), g.id.scope)
      BY <2>1, <2>4, <2>6 DEF FrameOk
    <2> QED
      BY <2>3, <2>7, <2>8, <2>9, <2>10, <2>11 DEF FrameOk, g
  <1> QED
    BY <1>1, <1>2

LEMMA DeliverOk ==
  ASSUME WellFormed(job), next \in Nat, NEW ps, GraphWell(ps),
         NEW calls, CallsWell(calls, ps), NEW key \in 1..Len(ps), Deliver(calls, key),
         CallsOk(calls, next, ps), RootsOk(next, ps), Answered(calls, next, ps[key].id)
  PROVE  CallsOk(stack', next', ps) /\ RootsOk(next', ps)
  <1> Len(ps) \in Nat
    BY Appended DEF GraphWell
  <1>0. Len(job.roots) \in Nat
    BY DEF WellFormed, IdList
  <1>1. CASE calls = << >>
    <2>1. stack' = << >> /\ next' = next + 1
      BY <1>1 DEF Deliver
    <2>2. next <= Len(job.roots) /\ Has(job.roots[next], NoScope, {ps[key].id})
      BY <1>1 DEF Answered
    <2>3. RootsOk(next', ps)
      <3>1. next' \in 1..(Len(job.roots) + 1) /\ next' - 1 = next
        BY <1>0, <2>1, <2>2 DEF RootsOk
      <3>2. Has(job.roots[next], NoScope, IdsOf(ps))
        BY <2>2 DEF Has, IdsOf
      <3>3. \A m \in 1..next : m = next \/ m \in 1..(next - 1)
        OBVIOUS
      <3> QED
        BY <3>1, <3>2, <3>3 DEF RootsOk
    <2>4. CallsOk(stack', next', ps)
      BY <2>1 DEF CallsOk
    <2> QED
      BY <2>3, <2>4
  <1>2. CASE calls # << >>
    <2>0. IsSequence(calls) /\ Len(calls) \in Nat \ {0} /\ Len(calls) \in 1..Len(calls)
      BY <1>2, WithoutLast DEF CallsWell
    <2> DEFINE f == calls[Len(calls)]
               g == Received(f, key)
    <2>1. Collected(f, Len(ps)) /\ FrameOk(f, ps)
      BY <2>0 DEF CallsWell, CallsOk
    <2>2. Asks(f) /\ Has(Asked(f), f.id.scope, {ps[key].id})
      BY <1>2 DEF Answered
    <2>3. FrameOk(g, ps) /\ g.id = f.id
      <3> HIDE DEF f
      <3> QED
        BY <2>1, <2>2, ReceivedOk, ReceivedWell
    <2>4. stack' = [calls EXCEPT ![Len(calls)] = g] /\ next' = next
      BY <1>2 DEF Deliver
    <2> HIDE DEF g
    <2>5. /\ Len(stack') = Len(calls) /\ stack'[Len(calls)] = g
          /\ \A k \in 1..(Len(calls) - 1) : stack'[k] = calls[k]
          /\ IsSequence(stack')
      <3>1. /\ Len(stack') = Len(calls) /\ IsSequence(stack')
            /\ \A k \in 1..Len(calls) : stack'[k] = IF k = Len(calls) THEN g ELSE calls[k]
        <4> HIDE DEF f
        <4>1. \A i \in 1..Len(calls) :
                /\ IsSequence([calls EXCEPT ![i] = g])
                /\ Len([calls EXCEPT ![i] = g]) = Len(calls)
                /\ \A k \in 1..Len(calls) :
                     [calls EXCEPT ![i] = g][k] = IF k = i THEN g ELSE calls[k]
          BY <2>0, Replaced
        <4> QED
          BY <2>0, <2>4, <4>1
      <3> QED
        BY <2>0, <3>1
    <2>6. \A k \in 1..Len(calls) : stack'[k].id = calls[k].id /\ FrameOk(stack'[k], ps)
      <3> TAKE k \in 1..Len(calls)
      <3>1. CASE k = Len(calls)
        BY <2>3, <2>5, <3>1
      <3>2. CASE k # Len(calls)
        <4>1. k \in 1..(Len(calls) - 1)
          BY <2>0, <3>2
        <4> QED
          BY <4>1, <2>5 DEF CallsOk
      <3> QED
        BY <3>1, <3>2
    <2>7. next <= Len(job.roots) /\ Has(job.roots[next], NoScope, {stack'[1].id})
      <3>1. stack'[1].id = calls[1].id
        BY <2>0, <2>6
      <3> QED
        BY <1>2, <3>1 DEF CallsOk
    <2>8. \A k \in 1..(Len(calls) - 1) :
            Asks(stack'[k]) /\ Has(Asked(stack'[k]), stack'[k].id.scope, {stack'[k + 1].id})
      <3> TAKE k \in 1..(Len(calls) - 1)
      <3>1. stack'[k] = calls[k] /\ stack'[k + 1].id = calls[k + 1].id
        BY <2>0, <2>5, <2>6
      <3> QED
        BY <3>1 DEF CallsOk
    <2>9. CallsOk(stack', next', ps)
      BY <2>4, <2>5, <2>6, <2>7, <2>8 DEF CallsOk
    <2> QED
      BY <2>4, <2>9
  <1> QED
    BY <1>1, <1>2

-----------------------------------------------------------------------------
(***************************************************************************)
(* A process more.                                                          *)
(***************************************************************************)
LEMMA KeysStay ==
  ASSUME NEW ps, IsSequence(ps), NEW p, NEW s, Range(s) \subseteq 1..Len(ps)
  PROVE  KeysOf(Append(ps, p), s) = KeysOf(ps, s)
  BY Appended DEF KeysOf

LEMMA KeysTyped ==
  ASSUME NEW n, NEW s \in Seq(1..n)
  PROVE  Range(s) \subseteq 1..n
  BY RangeOfSeq

LEMMA FramesStay ==
  ASSUME NEW ps, GraphWell(ps), NEW p, NEW calls, CallsWell(calls, ps),
         NEW n, CallsOk(calls, n, ps)
  PROVE  CallsOk(calls, n, Append(ps, p))
  <1>1. ASSUME NEW k \in 1..Len(calls) PROVE FrameOk(calls[k], Append(ps, p))
    <2>1. Collected(calls[k], Len(ps)) /\ FrameOk(calls[k], ps)
      BY DEF CallsWell, CallsOk
    <2>2. /\ KeysOf(Append(ps, p), calls[k].dep) = KeysOf(ps, calls[k].dep)
          /\ KeysOf(Append(ps, p), calls[k].comp) = KeysOf(ps, calls[k].comp)
      BY <2>1, KeysStay, KeysTyped DEF Collected, GraphWell
    <2> QED
      BY <2>1, <2>2 DEF FrameOk
  <1> QED
    BY <1>1 DEF CallsOk

LEMMA RootsStay ==
  ASSUME NEW ps, IsSequence(ps), NEW p, NEW n, RootsOk(n, ps)
  PROVE  RootsOk(n, Append(ps, p))
  <1>1. IdsOf(ps) \subseteq IdsOf(Append(ps, p))
    BY Appended DEF IdsOf
  <1> QED
    BY <1>1 DEF RootsOk, Has

\* What a call leaves is a process with exactly what its instance needs.
LEMMA LeftOk ==
  ASSUME NEW ps, IsSequence(ps), NEW f, Collected(f, Len(ps)), FrameOk(f, ps), ~Asks(f),
         Bound(f.id), NEW p, p = [id |-> f.id, dep |-> f.dep, comp |-> f.comp]
  PROVE  ProcessOk(p, Append(ps, p))
  <1>1. p.id = f.id /\ p.dep = f.dep /\ p.comp = f.comp
    OBVIOUS
  <1>2. /\ KeysOf(Append(ps, p), f.dep) = KeysOf(ps, f.dep)
        /\ KeysOf(Append(ps, p), f.comp) = KeysOf(ps, f.comp)
    BY KeysStay, KeysTyped DEF Collected
  <1>3. Range(f.deps) = {} /\ Range(f.comps) = {}
    BY IdListEmpty DEF Asks
  <1> QED
    BY <1>1, <1>2, <1>3 DEF ProcessOk, FrameOk

LEMMA ProcessesStay ==
  ASSUME NEW ps, GraphWell(ps), NEW p, \A k \in 1..Len(ps) : ProcessOk(ps[k], ps)
  PROVE  \A k \in 1..Len(ps) : ProcessOk(ps[k], Append(ps, p))
  <1> SUFFICES ASSUME NEW k \in 1..Len(ps) PROVE ProcessOk(ps[k], Append(ps, p))
    OBVIOUS
  <1>0. Len(ps) \in Nat /\ IsSequence(ps)
    BY Appended DEF GraphWell
  <1>1. Inputs(ps[k]) \subseteq 1..(k - 1)
    BY DEF GraphWell, WellFounded
  <1>2. Range(ps[k].dep) \subseteq 1..Len(ps) /\ Range(ps[k].comp) \subseteq 1..Len(ps)
    BY <1>0, <1>1 DEF Inputs
  <1>3. /\ KeysOf(Append(ps, p), ps[k].dep) = KeysOf(ps, ps[k].dep)
        /\ KeysOf(Append(ps, p), ps[k].comp) = KeysOf(ps, ps[k].comp)
    BY <1>0, <1>2, KeysStay
  <1> QED
    BY <1>3 DEF ProcessOk

-----------------------------------------------------------------------------
(***************************************************************************)
(* The steps of a compilation.                                              *)
(***************************************************************************)
\* Two lists end to end begin with the first that is not empty.
LEMMA FirstOfTwo ==
  ASSUME NEW s, NEW t, IdList(s), IdList(t)
  PROVE  /\ s \o t # << >> <=> s # << >> \/ t # << >>
         /\ s # << >> => Head(s \o t) = Head(s)
         /\ s = << >> => Head(s \o t) = Head(t)
  <1> DEFINE S == Range(s) \cup Range(t)
  <1>1. s \in Seq(S) /\ t \in Seq(S)
    <2>1. s \in Seq(Range(s)) /\ t \in Seq(Range(t))
      BY DEF IdList
    <2> QED
      BY <2>1, SeqMonotonic
  <1> HIDE DEF S
  <1>2. CASE s = << >>
    <2>1. s \o t = t
      BY <1>1, <1>2, ConcatEmptySeq
    <2> QED
      BY <1>2, <2>1
  <1>3. CASE s # << >>
    <2>1. Len(s) \in Nat \ {0} /\ Len(t) \in Nat
      BY <1>1, <1>3, EmptySeq
    <2>2. s \o t \in Seq(S) /\ Len(s \o t) = Len(s) + Len(t) /\ (s \o t)[1] = s[1]
      BY <1>1, <2>1, ConcatProperties
    <2>3. s \o t # << >>
      BY <2>1, <2>2
    <2> QED
      BY <1>1, <1>3, <2>2, <2>3, HeadTailProperties
  <1> QED
    BY <1>2, <1>3

Underway == WellFormed(job) /\ IInv /\ GoingAt(stack, next, processes)

LEMMA TopOk ==
  ASSUME Underway, stack # << >>
  PROVE  /\ Len(stack) \in 1..Len(stack) /\ FrameOk(Top, processes)
         /\ Collected(Top, Len(processes))
  <1>1. Len(stack) \in 1..Len(stack)
    BY WithoutLast DEF Underway, IInv, CallsWell
  <1> QED
    BY <1>1 DEF Underway, GoingAt, CallsOk, Top, IInv, CallsWell

LEMMA Asking ==
  ASSUME Underway
  PROVE  /\ stack # << >> => /\ Waiting <=> Asks(Top)
                             /\ Waiting => Wanted = Asked(Top)
                             /\ Parent = Top.id.scope
         /\ stack = << >> => /\ Waiting <=> next <= Len(job.roots)
                             /\ Wanted = job.roots[next] /\ Parent = NoScope
  <1>1. CASE stack = << >>
    BY <1>1 DEF Waiting, Wanted, Parent
  <1>2. CASE stack # << >>
    <2>1. IdList(Top.deps) /\ IdList(Top.comps)
      BY <1>2, TopOk DEF FrameOk
    <2> DEFINE both == Top.deps \o Top.comps
    <2>2. (Waiting <=> both # << >>) /\ Wanted = Head(both) /\ Parent = Top.id.scope
      BY <1>2 DEF Waiting, Wanted, Parent
    <2> HIDE DEF both
    <2>3. /\ both # << >> <=> Top.deps # << >> \/ Top.comps # << >>
          /\ Top.deps # << >> => Head(both) = Head(Top.deps)
          /\ Top.deps = << >> => Head(both) = Head(Top.comps)
      BY <2>1, FirstOfTwo DEF both
    <2> QED
      BY <1>2, <2>2, <2>3 DEF Asks, Asked
  <1> QED
    BY <1>1, <1>2

LEMMA AnsweredNow ==
  ASSUME Underway, Waiting, Resolves(Wanted, Parent)
  PROVE  Answered(stack, next, Instance)
  <1>1. CASE stack = << >>
    BY <1>1, Asking DEF Answered, Has, Instance
  <1>2. CASE stack # << >>
    <2>1. Asks(Top) /\ Wanted = Asked(Top) /\ Parent = Top.id.scope
      BY <1>2, Asking
    <2> QED
      BY <1>2, <2>1 DEF Answered, Has, Instance, Top
  <1> QED
    BY <1>1, <1>2

LEMMA CallsTyped ==
  ASSUME Underway
  PROVE  /\ next \in Nat \ {0} /\ IsSequence(stack) /\ GraphWell(processes)
         /\ CallsWell(stack, processes) /\ CallsOk(stack, next, processes)
         /\ RootsOk(next, processes) /\ Len(job.roots) \in Nat
         /\ IsSequence(processes) /\ Len(processes) \in Nat
  <1>1. Len(job.roots) \in Nat
    BY DEF Underway, WellFormed, IdList
  <1>2. next \in Nat \ {0}
    BY <1>1 DEF Underway, GoingAt, RootsOk
  <1> QED
    BY <1>1, <1>2, Appended DEF Underway, GoingAt, IInv, CallsWell, GraphWell

LEMMA KnownOk ==
  ASSUME Underway, Known
  PROVE  GoingAt(stack', next', processes')
  <1>1. PICK k \in 1..Len(processes) : processes[k].id = Instance
    BY DEF Known, Ids
  <1>2. KeyOf(Instance) \in 1..Len(processes) /\ processes[KeyOf(Instance)].id = Instance
    BY <1>1 DEF KeyOf
  <1>3. Answered(stack, next, processes[KeyOf(Instance)].id)
    BY <1>2, AnsweredNow DEF Known
  <1>4. CallsOk(stack', next', processes) /\ RootsOk(next', processes)
    BY <1>2, <1>3, DeliverOk, CallsTyped DEF Underway, Known
  <1> QED
    BY <1>4 DEF Known, Underway, GoingAt

LEMMA EnterOk ==
  ASSUME Underway, Enter
  PROVE  GoingAt(stack', next', processes')
  <1> DEFINE i == Instance
             f == Frame(Instance)
  <1>1. Answered(stack, next, i)
    BY AnsweredNow DEF Enter
  <1>2. Reached(i) /\ i \in Universe
    BY <1>1, CallsTyped, AnsweredReached DEF Underway, Reached
  <1>3. RunsOnItsChip(i) /\ stack' = Append(stack, f) /\ UNCHANGED <<processes, next>>
    BY DEF Enter
  <1>4. /\ IdList(f.deps) /\ Range(f.deps) = DepNames(i)
        /\ IdList(f.comps) /\ Range(f.comps) = CompNames(i)
        /\ f.dep = << >> /\ f.comp = << >> /\ f.id = i
    BY <1>2, FrameLists DEF Underway
  <1> HIDE DEF f, i
  <1>5. KeysOf(processes, << >>) = {}
    BY DEF KeysOf, Range
  <1>6. FrameOk(f, processes)
    BY <1>2, <1>3, <1>4, <1>5 DEF FrameOk
  <1>7. /\ Len(stack) \in Nat /\ Len(stack') = Len(stack) + 1
        /\ \A k \in 1..Len(stack) : stack'[k] = stack[k]
        /\ stack'[Len(stack) + 1] = f
    BY <1>3, CallsTyped, Appended
  <1>8. \A k \in 1..Len(stack') : FrameOk(stack'[k], processes)
    BY <1>6, <1>7, CallsTyped DEF CallsOk
  <1>9. CASE stack = << >>
    <2>1. Len(stack) = 0
      BY <1>9
    <2>2. stack'[1].id = i /\ Len(stack') = 1
      BY <1>4, <1>7, <2>1
    <2>3. next <= Len(job.roots) /\ Has(job.roots[next], NoScope, {stack'[1].id})
      BY <1>1, <1>9, <2>2 DEF Answered
    <2> QED
      BY <1>3, <1>8, <2>2, <2>3 DEF CallsOk, GoingAt, Underway
  <1>10. CASE stack # << >>
    <2>1. Len(stack) \in 1..Len(stack) /\ Asks(Top) /\ Has(Asked(Top), Top.id.scope, {i})
      BY <1>1, <1>10, TopOk DEF Answered, Top
    <2>2. \A k \in 1..Len(stack) :
            Asks(stack'[k]) /\ Has(Asked(stack'[k]), stack'[k].id.scope, {stack'[k + 1].id})
      <3> TAKE k \in 1..Len(stack)
      <3>1. CASE k = Len(stack)
        BY <3>1, <2>1, <1>4, <1>7 DEF Top
      <3>2. CASE k # Len(stack)
        <4>1. k \in 1..(Len(stack) - 1) /\ k + 1 \in 1..Len(stack)
          BY <3>2, <1>7
        <4>2. stack'[k] = stack[k] /\ stack'[k + 1] = stack[k + 1]
          BY <4>1, <1>7
        <4> QED
          BY <4>1, <4>2, CallsTyped DEF CallsOk
      <3> QED
        BY <3>1, <3>2
    <2>3. stack'[1] = stack[1]
      BY <1>7, <2>1
    <2>4. Len(stack') - 1 = Len(stack)
      BY <1>7
    <2>5. next <= Len(job.roots) /\ Has(job.roots[next], NoScope, {stack'[1].id})
      BY <1>10, <2>3, CallsTyped DEF CallsOk
    <2>6. CallsOk(stack', next, processes)
      BY <1>8, <2>2, <2>4, <2>5 DEF CallsOk
    <2> QED
      BY <1>3, <2>6 DEF GoingAt, Underway
  <1> QED
    BY <1>9, <1>10

LEMMA LeaveOk ==
  ASSUME Underway, Leave
  PROVE  GoingAt(stack', next', processes')
  <1> DEFINE n == Len(processes)
             p == [id |-> Top.id, dep |-> Top.dep, comp |-> Top.comp]
             ps == Append(processes, p)
             calls == Front(stack)
  <1>1. /\ processes' = ps /\ Deliver(calls, n + 1) /\ Bound(Top.id) /\ stack # << >> /\ ~Waiting
    BY DEF Leave
  <1>2. FrameOk(Top, processes) /\ Collected(Top, n) /\ ~Asks(Top)
    BY <1>1, TopOk, Asking
  <1>3. /\ Len(stack) \in Nat \ {0} /\ IsSequence(calls) /\ Len(calls) = Len(stack) - 1
        /\ \A k \in 1..(Len(stack) - 1) : calls[k] = stack[k]
    BY <1>1, CallsTyped, WithoutLast
  <1>4. p.id = Top.id
    OBVIOUS
  <1>5. ProcessOk(p, ps)
    BY <1>1, <1>2, LeftOk, CallsTyped
  <1> HIDE DEF p
  <1>6. /\ n \in Nat /\ Len(ps) = n + 1 /\ ps[n + 1] = p
        /\ \A k \in 1..n : ps[k] = processes[k]
    BY CallsTyped, Appended
  <1>7. \A k \in 1..Len(ps) : ProcessOk(ps[k], ps)
    <2>1. \A k \in 1..n : ProcessOk(processes[k], ps)
      BY CallsTyped, ProcessesStay DEF Underway, GoingAt
    <2> QED
      BY <1>5, <1>6, <2>1
  <1>8. CallsOk(stack, next, ps) /\ RootsOk(next, ps)
    BY CallsTyped, FramesStay, RootsStay
  <1>9. CallsOk(calls, next, ps)
    <2>1. \A k \in 1..Len(calls) : FrameOk(calls[k], ps)
      BY <1>3, <1>8 DEF CallsOk
    <2>2. calls # << >> => next <= Len(job.roots) /\ Has(job.roots[next], NoScope, {calls[1].id})
      <3> SUFFICES ASSUME calls # << >>
                   PROVE next <= Len(job.roots) /\ Has(job.roots[next], NoScope, {calls[1].id})
        OBVIOUS
      <3>1. Len(calls) # 0
        BY <1>3, WithoutLast
      <3>2. calls[1] = stack[1]
        BY <1>3, <3>1
      <3> QED
        BY <3>2, <1>1, <1>8 DEF CallsOk
    <2>3. \A k \in 1..(Len(calls) - 1) :
            Asks(calls[k]) /\ Has(Asked(calls[k]), calls[k].id.scope, {calls[k + 1].id})
      <3> TAKE k \in 1..(Len(calls) - 1)
      <3>1. calls[k] = stack[k] /\ calls[k + 1] = stack[k + 1] /\ k \in 1..(Len(stack) - 1)
        BY <1>3
      <3> QED
        BY <3>1, <1>8 DEF CallsOk
    <2> QED
      BY <2>1, <2>2, <2>3 DEF CallsOk
  <1>10. Answered(calls, next, ps[n + 1].id)
    <2>1. CASE calls = << >>
      <3>0. Len(calls) = 0
        BY <2>1
      <3>1. Len(stack) = 1 /\ Top = stack[1]
        <4> HIDE DEF calls
        <4>1. Len(stack) = 1
          BY <3>0, <1>3
        <4> QED
          BY <4>1 DEF Top
      <3> QED
        BY <2>1, <3>1, <1>1, <1>4, <1>6, CallsTyped DEF Answered, CallsOk
    <2>2. CASE calls # << >>
      <3>1. Len(calls) \in Nat \ {0}
        BY <2>2, <1>3, WithoutLast
      <3>2. Len(calls) \in 1..(Len(stack) - 1) /\ Len(calls) + 1 = Len(stack)
        BY <3>1, <1>3
      <3>3. calls[Len(calls)] = stack[Len(calls)]
        BY <3>2, <1>3
      <3>4. Asks(stack[Len(calls)])
            /\ Has(Asked(stack[Len(calls)]), stack[Len(calls)].id.scope, {stack[Len(calls) + 1].id})
        BY <3>2, CallsTyped DEF CallsOk
      <3> QED
        BY <2>2, <3>2, <3>3, <3>4, <1>4, <1>6 DEF Answered, Top
    <2> QED
      BY <2>1, <2>2
  <1>11. GraphWell(ps) /\ CallsWell(calls, ps)
    BY <1>1, LeaveGraph DEF Underway, p
  <1>12. CallsOk(stack', next', ps) /\ RootsOk(next', ps)
    <2>1. n + 1 \in 1..Len(ps)
      BY <1>6
    <2> HIDE DEF ps, calls
    <2> QED
      BY <2>1, <1>1, <1>8, <1>9, <1>10, <1>11, DeliverOk, CallsTyped DEF Underway
  <1> HIDE DEF ps, calls
  <1> QED
    BY <1>1, <1>7, <1>12 DEF GoingAt, Underway

\* The calls under way that lead from an instance back to itself.
LEMMA CycleRefutes ==
  ASSUME Underway, Waiting, Resolves(Wanted, Parent), Instance \in Visiting
  PROVE  Refuted
  <1>1. PICK k \in 1..Len(stack) : stack[k].id = Instance
    BY DEF Visiting
  <1>2. Len(stack) \in Nat /\ stack # << >>
    <2>1. Len(stack) \in Nat
      BY CallsTyped DEF IsSequence
    <2> QED
      BY <1>1, <2>1
  <1> DEFINE C == {stack[j].id : j \in k..Len(stack)}
  <1>3. \A j \in k..Len(stack) : j \in 1..Len(stack) /\ FrameOk(stack[j], processes)
    BY <1>2, CallsTyped DEF CallsOk
  <1>4. \A j \in k..Len(stack) : Reached(stack[j].id)
    BY <1>3 DEF FrameOk
  <1>5. C \in SUBSET Universe /\ \A i \in C : Reached(i)
    BY <1>4 DEF Reached
  <1>6. Instance \in C
    BY <1>1, <1>2
  <1>7. Instance \in Needed(stack[Len(stack)].id)
    BY <1>2, AnsweredNow, AnsweredReached, CallsTyped DEF Underway
  <1>8. ASSUME NEW j \in k..Len(stack) PROVE Needed(stack[j].id) \cap C # {}
    <2>1. CASE j = Len(stack)
      BY <2>1, <1>6, <1>7
    <2>2. CASE j # Len(stack)
      <3> DEFINE f == stack[j]
                 x == stack[j + 1].id
      <3>1. j \in 1..(Len(stack) - 1) /\ j + 1 \in k..Len(stack)
        BY <2>2, <1>2
      <3>2. Asks(f) /\ Has(Asked(f), f.id.scope, {x}) /\ x \in C
        BY <3>1, CallsTyped DEF CallsOk
      <3>3. FrameOk(f, processes)
        BY <1>3
      <3> HIDE DEF f, x, C
      <3>4. Asked(f) \in DepNames(f.id) \cup CompNames(f.id) /\ Reached(f.id)
        BY <3>2, <3>3, AskedName DEF FrameOk
      <3>5. x \in Needed(f.id)
        BY <3>2, <3>4, ReachedFurther DEF Has, Underway
      <3> QED
        BY <3>2, <3>5 DEF f
    <2> QED
      BY <2>1, <2>2
  <1>9. C # {} /\ \A i \in C : Reached(i) /\ Needed(i) \cap C # {}
    BY <1>5, <1>6, <1>8
  <1> QED
    BY <1>5, <1>9 DEF Refuted

LEMMA FailsRefuted ==
  ASSUME Underway, Fails
  PROVE  Refuted
  <1>1. CASE Waiting /\ ~Resolves(Wanted, Parent)
    <2>1. CASE stack = << >>
      <3>1. next \in 1..Len(job.roots) /\ Wanted = job.roots[next] /\ Parent = NoScope
        BY <1>1, <2>1, Asking, CallsTyped
      <3>2. Wanted \in Range(job.roots)
        BY <3>1, RootName DEF Underway
      <3> QED
        BY <1>1, <3>1, <3>2 DEF Refuted
    <2>2. CASE stack # << >>
      <3>1. Asks(Top) /\ Wanted = Asked(Top) /\ Parent = Top.id.scope
        BY <1>1, <2>2, Asking
      <3>2. FrameOk(Top, processes)
        BY <2>2, TopOk
      <3>3. Wanted \in DepNames(Top.id) \cup CompNames(Top.id) /\ Reached(Top.id)
        BY <3>1, <3>2, AskedName DEF FrameOk
      <3> QED
        BY <1>1, <3>1, <3>3 DEF Refuted, Reached
    <2> QED
      BY <2>1, <2>2
  <1>2. CASE Waiting /\ Resolves(Wanted, Parent) /\ Instance \in Visiting
    BY <1>2, CycleRefutes
  <1>3. CASE Waiting /\ Resolves(Wanted, Parent) /\ ~RunsOnItsChip(Instance)
    <2>1. Reached(Instance)
      BY <1>3, AnsweredNow, AnsweredReached, CallsTyped DEF Underway
    <2> QED
      BY <1>3, <2>1 DEF Refuted, Reached
  <1>4. CASE stack # << >> /\ ~Waiting /\ ~Bound(Top.id)
    <2>1. Reached(Top.id)
      BY <1>4, TopOk DEF FrameOk
    <2> QED
      BY <1>4, <2>1 DEF Refuted, Reached
  <1> QED
    BY <1>1, <1>2, <1>3, <1>4 DEF Fails

-----------------------------------------------------------------------------
LEMMA SameCalls ==
  ASSUME job' = job
  PROVE  \A calls, n, ps : GoingAt(calls, n, ps)' <=> GoingAt(calls, n, ps)
  <1>1. \A e, s, ids : Has(e, s, ids)' <=> Has(e, s, ids)
    BY SameScopes DEF Has
  <1>2. \A f, ps : FrameOk(f, ps)' <=> FrameOk(f, ps)
    BY <1>1, SameMeaning, SameBindings, SameNames, SameNeeds DEF FrameOk, KeysOf
  <1>3. \A p, ps : ProcessOk(p, ps)' <=> ProcessOk(p, ps)
    BY <1>1, SameMeaning, SameBindings, SameNames, SameNeeds DEF ProcessOk, KeysOf
  <1>4. \A calls, n, ps : CallsOk(calls, n, ps)' <=> CallsOk(calls, n, ps)
    BY <1>1, <1>2 DEF CallsOk, Asks, Asked
  <1>5. \A n, ps : RootsOk(n, ps)' <=> RootsOk(n, ps)
    BY <1>1 DEF RootsOk, IdsOf
  <1> QED
    BY <1>3, <1>4, <1>5 DEF GoingAt

LEMMA CompileExact ==
  ASSUME IInv, Exact, Compile
  PROVE  Exact'
  <1>1. job' = job /\ verdict = "none" /\ WellFormed(job)
    BY DEF Compile, Known, Enter, Leave, Fail, Finish, Exact
  <1>2. WellFormed(job)' /\ (Refuted' <=> Refuted)
    BY <1>1, SameMeaning
  <1>3. Underway
    BY <1>1 DEF Exact, Going, Underway
  <1>4. CASE Known \/ Enter \/ Leave
    <2>1. GoingAt(stack', next', processes') /\ verdict' = "none"
      BY <1>1, <1>3, <1>4, KnownOk, EnterOk, LeaveOk DEF Known, Enter, Leave
    <2>2. Going'
      BY <1>1, <2>1, SameCalls DEF Going
    <2> QED
      BY <1>2, <2>1, <2>2 DEF Exact
  <1>5. CASE Fail
    <2>1. Refuted
      BY <1>3, <1>5, FailsRefuted DEF Fail
    <2> QED
      BY <1>2, <1>5, <2>1 DEF Fail, Exact
  <1>6. CASE Finish
    <2>1. UNCHANGED <<stack, next, processes>> /\ verdict' = "true" /\ stack = << >> /\ ~Waiting
      BY <1>6 DEF Finish
    <2>2. next > Len(job.roots)
      BY <2>1, <1>3, Asking, CallsTyped
    <2>3. Going'
      BY <1>1, <1>3, <2>1, SameCalls DEF Going, Underway
    <2> QED
      BY <1>1, <1>2, <2>1, <2>2, <2>3 DEF Exact
  <1> QED
    BY <1>4, <1>5, <1>6 DEF Compile

-----------------------------------------------------------------------------
(***************************************************************************)
(* A graph that is complete.                                                *)
(***************************************************************************)
Finished == WellFormed(job) /\ IInv /\ Going /\ stack = << >> /\ next > Len(job.roots)

LEMMA IdsClosed ==
  ASSUME Finished
  PROVE  Ids \in SUBSET Universe /\ \A i : i \in Ids <=> Reached(i)
  <1>0. Underway
    BY DEF Finished, Underway, Going
  <1>1. Ids \in SUBSET Universe /\ \A i \in Ids : Reached(i)
    BY <1>0 DEF Underway, GoingAt, ProcessOk, Ids, Reached
  <1>2. Instances(Range(job.roots), NoScope) \subseteq Ids
    <2> SUFFICES ASSUME NEW e \in Range(job.roots), Resolves(e, NoScope)
                 PROVE  Resolved(e, NoScope) \in Ids
      BY DEF Instances
    <2>1. PICK m \in 1..Len(job.roots) : e = job.roots[m]
      BY DEF Finished, WellFormed, IdList, Range
    <2>2. m \in 1..(next - 1)
      BY <1>0, CallsTyped DEF Finished
    <2> QED
      BY <1>0, <2>1, <2>2, CallsTyped DEF RootsOk, Has, IdsOf, Ids
  <1>3. ASSUME NEW k \in 1..Len(processes)
        PROVE  Needed(processes[k].id) \subseteq
                 KeysOf(processes, processes[k].dep) \cup KeysOf(processes, processes[k].comp)
    BY <1>0 DEF Underway, GoingAt, ProcessOk, Needed, Instances, Has
  <1>4. ASSUME NEW k \in 1..Len(processes)
        PROVE  KeysOf(processes, processes[k].dep) \cup KeysOf(processes, processes[k].comp)
                 \subseteq Ids
    <2>1. Inputs(processes[k]) \subseteq 1..(k - 1)
      BY DEF Finished, IInv, GraphWell, WellFounded
    <2>2. Inputs(processes[k]) \subseteq 1..Len(processes)
      BY <1>0, <2>1, CallsTyped
    <2> QED
      BY <2>2 DEF Inputs, KeysOf, Ids
  <1>5. Closed(Ids)
    <2>1. \A i \in Ids : Needed(i) \subseteq Ids
      BY <1>3, <1>4 DEF Ids
    <2> QED
      BY <1>2, <2>1 DEF Closed
  <1> QED
    BY <1>1, <1>5 DEF Reached

\* Of a set of processes that need each other the first would need a later one.
LEMMA NoCycle ==
  ASSUME Finished, NEW C, C # {}, C \subseteq Ids
  PROVE  \E i \in C : Needed(i) \cap C = {}
  <1> DEFINE K == {k \in 1..Len(processes) : processes[k].id \in C}
  <1>0. Underway
    BY DEF Finished, Underway, Going
  <1>1. Len(processes) \in Nat
    BY <1>0, CallsTyped
  <1>2. K \in SUBSET Nat /\ K # {}
    BY <1>1 DEF Ids
  <1> HIDE DEF K
  <1>3. PICK k \in K : \A j \in K : k <= j
    BY <1>2, LeastNatural
  <1>4. k \in 1..Len(processes) /\ processes[k].id \in C
    BY DEF K
  <1>5. Needed(processes[k].id) \subseteq
          KeysOf(processes, processes[k].dep) \cup KeysOf(processes, processes[k].comp)
    BY <1>0, <1>4 DEF Underway, GoingAt, ProcessOk, Needed, Instances, Has
  <1>6. Inputs(processes[k]) \subseteq 1..(k - 1)
    BY <1>4 DEF Finished, IInv, GraphWell, WellFounded
  <1>7. ASSUME NEW x \in Needed(processes[k].id) \cap C PROVE FALSE
    <2>1. PICK j \in Inputs(processes[k]) : x = processes[j].id
      BY <1>5 DEF KeysOf, Inputs
    <2>2. j \in 1..(k - 1)
      BY <1>6
    <2>3. j \in K
      BY <1>1, <1>4, <1>7, <2>1, <2>2 DEF K
    <2> QED
      BY <1>1, <1>3, <1>4, <2>2, <2>3
  <1> QED
    BY <1>4, <1>7

LEMMA FinishedBuildable ==
  ASSUME Finished
  PROVE  ~Refuted
  <1>0. Underway
    BY DEF Finished, Underway, Going
  <1>1. job.roots # << >>
    BY <1>0 DEF Underway, GoingAt
  <1>2. ASSUME NEW r \in Range(job.roots) PROVE Resolves(r, NoScope)
    <2>1. PICK m \in 1..Len(job.roots) : r = job.roots[m]
      BY <1>2 DEF Finished, WellFormed, IdList, Range
    <2>2. m \in 1..(next - 1)
      BY <1>0, CallsTyped DEF Finished
    <2> QED
      BY <1>0, <2>1, <2>2, CallsTyped DEF RootsOk, Has
  <1>3. ASSUME NEW i \in Universe, Reached(i)
        PROVE  /\ \A e \in DepNames(i) \cup CompNames(i) : Resolves(e, i.scope)
               /\ RunsOnItsChip(i) /\ Bound(i)
    <2>1. PICK k \in 1..Len(processes) : i = processes[k].id
      BY <1>3, IdsClosed DEF Ids
    <2> QED
      BY <1>0, <2>1 DEF Underway, GoingAt, ProcessOk, Has
  <1>4. ASSUME NEW C \in SUBSET Universe, C # {}, \A i \in C : Reached(i)
        PROVE  \E i \in C : Needed(i) \cap C = {}
    BY <1>4, IdsClosed, NoCycle
  <1> QED
    BY <1>1, <1>2, <1>3, <1>4 DEF Refuted

LEMMA EdgesExact ==
  ASSUME Finished, NEW k \in 1..Len(processes)
  PROVE  LET p == processes[k]
             deps == Instances(DepNames(p.id), p.id.scope)
         IN  /\ KeysOf(processes, p.dep) = deps
             /\ KeysOf(processes, p.comp) = Instances(CompNames(p.id), p.id.scope) \ deps
  <1> DEFINE p == processes[k]
             D == KeysOf(processes, p.dep)
             C == KeysOf(processes, p.comp)
             deps == Instances(DepNames(p.id), p.id.scope)
             comps == Instances(CompNames(p.id), p.id.scope)
  <1>0. Underway
    BY DEF Finished, Underway, Going
  <1>1. ProcessOk(p, processes)
    BY <1>0 DEF Underway, GoingAt
  <1>2. D \subseteq deps /\ C \subseteq comps
    BY <1>1 DEF ProcessOk
  <1>3. deps \subseteq D /\ comps \subseteq D \cup C
    BY <1>1 DEF ProcessOk, Instances, Has
  <1>4. D \cap C = {}
    <2>1. /\ Range(p.dep) \cup Range(p.comp) \subseteq 1..(k - 1)
          /\ Range(p.dep) \cap Range(p.comp) = {}
      BY DEF Finished, IInv, GraphWell, WellFounded, Inputs
    <2>2. Range(p.dep) \cup Range(p.comp) \subseteq 1..Len(processes)
      BY <1>0, <2>1, CallsTyped
    <2>3. \A i, j \in 1..Len(processes) : processes[i].id = processes[j].id => i = j
      BY DEF Finished, IInv, GraphWell, WellFounded
    <2> QED
      BY <2>1, <2>2, <2>3 DEF KeysOf
  <1> HIDE DEF D, C, deps, comps
  <1>5. D = deps /\ C = comps \ deps
    BY <1>2, <1>3, <1>4
  <1> QED
    BY <1>5 DEF D, C, deps, comps

LEMMA ExactSuffices == IInv /\ Exact => ExactGraph
  <1> SUFFICES ASSUME IInv, Exact, verdict # "none"
               PROVE  /\ verdict = "true" <=> Buildable
                      /\ verdict = "true" =>
                           /\ Ids = Demanded
                           /\ \A k \in 1..Len(processes) :
                                LET p == processes[k]
                                    of(s) == {processes[j].id : j \in Range(s)}
                                    deps == Instances(DepNames(p.id), p.id.scope)
                                IN  /\ of(p.dep) = deps
                                    /\ of(p.comp) = Instances(CompNames(p.id), p.id.scope) \ deps
                      /\ verdict = "false" => processes = << >>
    BY DEF ExactGraph
  <1>1. CASE verdict = "false"
    <2>1. Refuted /\ processes = << >> /\ WellFormed(job)
      BY <1>1 DEF Exact
    <2>2. ~Buildable
      BY <2>1, BuildableUnlessRefuted
    <2> QED
      BY <1>1, <2>1, <2>2
  <1>2. CASE verdict = "true"
    <2>1. Finished /\ WellFormed(job)
      BY <1>2 DEF Exact, Finished
    <2>2. Buildable
      BY <2>1, FinishedBuildable, BuildableUnlessRefuted
    <2>3. Ids = Demanded
      BY <2>1, IdsClosed, DemandedIsReached
    <2>4. \A k \in 1..Len(processes) :
            LET p == processes[k]
                of(s) == {processes[j].id : j \in Range(s)}
                deps == Instances(DepNames(p.id), p.id.scope)
            IN  /\ of(p.dep) = deps
                /\ of(p.comp) = Instances(CompNames(p.id), p.id.scope) \ deps
      BY <2>1, EdgesExact DEF KeysOf
    <2> QED
      BY <1>2, <2>2, <2>3, <2>4
  <1>3. verdict \in {"true", "false"}
    BY DEF Exact
  <1> QED
    BY <1>1, <1>2, <1>3

-----------------------------------------------------------------------------
(***************************************************************************)
(* The calls PlanPipeline makes are well formed.                            *)
(***************************************************************************)
Fits(defs, j) ==
  /\ Collection(defs)
  /\ \A i \in DOMAIN defs :
       Answers(defs[i], j) /\ i.scope \in {NoScope} \cup ScopesFor(defs[i], j)

\* A call for request `q`: the first or the second of a plan.
Planned(q, j) ==
  \E last \in {ParseDone(q), <<Done>>} : \E overlay : j = Job(q, overlay, ExportRoots(q) \o last)

LEMMA IdsAreIds == \A a, b, c : IsId(Id3(a, b, c))
  BY DEF IsId, Id3

LEMMA IdListOne ==
  ASSUME NEW e, IsId(e)
  PROVE  IdList(<<e>>)
  <1> DEFINE S == {e}
  <1>1. <<e>> \in Seq(S) /\ \A x \in S : IsId(x)
    OBVIOUS
  <1> HIDE DEF S
  <1> QED
    BY <1>1, IdListOf

LEMMA IdListListed ==
  ASSUME NEW S, IsFiniteSet(S), \A e \in S : IsId(e)
  PROVE  IdList(Listed(S))
  BY ListedAll, IdListOf

LEMMA FitsWith ==
  ASSUME NEW f, NEW g, NEW j, Fits(f, j), Fits(g, j)
  PROVE  Fits(With(f, g), j)
  <1> DEFINE h == With(f, g)
  <1>1. /\ DOMAIN h = DOMAIN f \cup DOMAIN g
        /\ \A i \in DOMAIN f : h[i] = f[i]
        /\ \A i \in DOMAIN g \ DOMAIN f : h[i] = g[i]
    BY DEF With
  <1> HIDE DEF h
  <1>2. IsFiniteSet(DOMAIN h)
    <2>1. IsFiniteSet(DOMAIN f) /\ IsFiniteSet(DOMAIN g)
      BY DEF Fits, Collection
    <2>2. IsFiniteSet(DOMAIN f \cup DOMAIN g)
      BY <2>1, FS_Union
    <2> QED
      BY <1>1, <2>2
  <1>3. \A i \in DOMAIN h : IsId(i) /\ Shaped(h[i]) /\ Answers(h[i], j)
                            /\ i.scope \in {NoScope} \cup ScopesFor(h[i], j)
    BY <1>1 DEF Fits, Collection
  <1>4. Collection(h)
    BY <1>2, <1>3 DEF Collection
  <1> QED
    BY <1>3, <1>4 DEF Fits, h

LEMMA FitsOnly ==
  ASSUME NEW id, NEW d, NEW j, IsId(id), Shaped(d), Resolver(d) = NoResolver,
         id.scope \in ScopesFor(d, j)
  PROVE  Fits(Only(id, d), j)
  <1>1. DOMAIN Only(id, d) = {id} /\ Only(id, d)[id] = d
    BY DEF Only
  <1>2. IsFiniteSet({id})
    BY FS_Singleton
  <1> QED
    BY <1>1, <1>2 DEF Fits, Collection, Answers

\* What AddCallback adds has no resolver.
LEMMA CallbackShape ==
  ASSUME NEW kind \in {"device", "profile", "host", "export"}, NEW deps, IdList(deps)
  PROVE  /\ Shaped(Callback(kind, deps)) /\ Callback(kind, deps).kind = kind
         /\ Resolver(Callback(kind, deps)) = NoResolver
  <1> DEFINE d == Callback(kind, deps)
  <1>1. /\ {"kind", "deps", "comps", "waits", "alts"} \subseteq DOMAIN d
        /\ d.kind = kind /\ d.deps = deps /\ d.comps = << >> /\ d.waits = {} /\ d.alts = << >>
    BY DEF Callback, NoNode
  <1> HIDE DEF d
  <1>2. Shaped(d)
    BY <1>1, IdListEmpty DEF Shaped
  <1>3. Resolver(d) = NoResolver
    BY <1>1 DEF Resolver, NoResolver
  <1> QED
    BY <1>1, <1>2, <1>3 DEF d

LEMMA AnswersSame ==
  ASSUME NEW d, NEW i, NEW j, i.chips = j.chips, View(i) = View(j), Answers(d, i)
  PROVE  Answers(d, j)
  BY DEF Answers, ScopesFor

-----------------------------------------------------------------------------
LEMMA RequestTable ==
  ASSUME NEW q \in Requests
  PROVE  /\ Collection(Tables[q.table]) /\ Scopes(q.chips) /\ IdList(q.roots)
         /\ \A i \in DOMAIN Tables[q.table] : IsId(i) /\ i.scope = NoScope
  BY RequestsAreWellFormed, TablesAreWellFormed DEF Collection

LEMMA ExportRootsIds ==
  ASSUME NEW q \in Requests
  PROVE  IdList(ExportRoots(q))
  <1> DEFINE S == {InstanceOn(e, "export") : e \in Range(q.roots)}
  <1>1. Len(q.roots) \in Nat /\ \A k \in 1..Len(q.roots) : q.roots[k] \in Range(q.roots)
    BY RequestTable DEF IdList, Range
  <1>2. \A k \in 1..Len(q.roots) : InstanceOn(q.roots[k], "export") \in S
    BY <1>1
  <1>3. \A i \in S : IsId(i)
    BY RequestTable, IdParts DEF IdList
  <1> HIDE DEF S
  <1>4. ExportRoots(q) \in Seq(S)
    BY <1>1, <1>2 DEF ExportRoots
  <1> QED
    BY <1>3, <1>4, IdListOf

LEMMA DeviceBindingsFinite ==
  ASSUME NEW q \in Requests
  PROVE  /\ IsFiniteSet(DOMAIN DeviceBindings(q))
         /\ \A i \in DOMAIN DeviceBindings(q) :
              /\ IsId(i) /\ i.scope \in DOMAIN q.chips
              /\ Unscoped(i) \in DOMAIN Tables[q.table]
              /\ DeviceBindings(q)[i] = Tables[q.table][Unscoped(i)]
              /\ Tables[q.table][Unscoped(i)].kind = "device"
  <1> DEFINE R == Tables[q.table]
             kept(d, s) == R[d].kind = "device" /\ ~R[d].opens /\ Supports(R[d], q.chips[s])
             on(s) == {InstanceOn(d, s) : d \in {d \in DOMAIN R : kept(d, s)}}
             I == UNION {on(s) : s \in DOMAIN q.chips}
             defs == DOMAIN R
             scopes == DOMAIN q.chips
             f == [x \in defs \X scopes |-> InstanceOn(x[1], x[2])]
             T == {f[x] : x \in DOMAIN f}
  <1>1. DeviceBindings(q) = [i \in I |-> R[Unscoped(i)]]
    BY Zenon DEF DeviceBindings
  <1>2. DOMAIN DeviceBindings(q) = I
        /\ \A i \in I : DeviceBindings(q)[i] = R[Unscoped(i)]
    <2> HIDE DEF I, R
    <2> QED
      BY <1>1
  <1>3. \A i \in I : \E d \in DOMAIN R, s \in DOMAIN q.chips :
                       i = InstanceOn(d, s) /\ R[d].kind = "device"
    OBVIOUS
  <1> HIDE DEF I
  <1>4. /\ DOMAIN f = defs \X scopes
        /\ \A d \in defs, s \in scopes :
             <<d, s>> \in DOMAIN f /\ f[<<d, s>>] = InstanceOn(d, s)
    <2> HIDE DEF defs, scopes
    <2> QED
      OBVIOUS
  <1> HIDE DEF f
  <1>5. IsFiniteSet(T)
    <2>1. IsFiniteSet(defs) /\ IsFiniteSet(scopes)
      BY RequestTable DEF Collection, Scopes
    <2>2. IsFiniteSet(DOMAIN f)
      <3> HIDE DEF defs, scopes
      <3> QED
        BY <1>4, <2>1, FS_Product
    <2> QED
      BY <2>2, FiniteImage
  <1>6. I \in SUBSET T
    <2> SUFFICES ASSUME NEW i \in I PROVE i \in T
      OBVIOUS
    <2>1. PICK d \in DOMAIN R, s \in DOMAIN q.chips : i = InstanceOn(d, s)
      BY <1>3
    <2>2. <<d, s>> \in DOMAIN f /\ f[<<d, s>>] = i
      BY <1>4, <2>1
    <2> QED
      BY <2>2
  <1>7. IsFiniteSet(I)
    BY <1>5, <1>6, FS_Subset
  <1>8. ASSUME NEW i \in I
        PROVE  /\ IsId(i) /\ i.scope \in DOMAIN q.chips /\ Unscoped(i) \in DOMAIN R
               /\ R[Unscoped(i)].kind = "device"
    <2>1. PICK d \in DOMAIN R, s \in DOMAIN q.chips : i = InstanceOn(d, s) /\ R[d].kind = "device"
      BY <1>3
    <2>2. IsId(d) /\ d.scope = NoScope
      BY RequestTable
    <2>3. IsId(i) /\ i.scope = s /\ Unscoped(i) = d
      <3>1. i = [stage |-> d.stage, name |-> d.name, scope |-> s] /\ IsId(i)
        BY <2>1, <2>2, IdParts
      <3>2. Unscoped(i) = [stage |-> i.stage, name |-> i.name, scope |-> NoScope]
        BY <3>1, IdParts
      <3>3. d = [stage |-> d.stage, name |-> d.name, scope |-> d.scope]
        BY <2>2 DEF IsId
      <3>4. i.stage = d.stage /\ i.name = d.name /\ i.scope = s
        BY <3>1
      <3> QED
        BY <3>1, <3>2, <3>3, <3>4, <2>2
    <2> QED
      BY <2>1, <2>3
  <1> QED
    BY <1>2, <1>7, <1>8

LEMMA ParseRootsIds == \A q : IdList(ParseRoots(q))
  BY IdsAreIds, IdListOne, IdListEmpty DEF ParseRoots, HostC

LEMMA ParsingIds ==
  ASSUME NEW q \in Requests, NEW s
  PROVE  IdList(Parsing(q, s))
  <1>1. IsId(Init1(s))
    BY IdsAreIds, IdParts DEF Init1, Dev
  <1>2. IsFiniteSet(OperationsOf(q, s)) /\ \A i \in OperationsOf(q, s) : IsId(i)
    <2>1. OperationsOf(q, s) \in SUBSET DOMAIN DeviceBindings(q)
      BY DEF OperationsOf
    <2> QED
      BY <2>1, DeviceBindingsFinite, FS_Subset
  <1> QED
    BY <1>1, <1>2, IdListOne, IdListEmpty, IdListListed DEF Parsing

LEMMA ParseDoneIds ==
  ASSUME NEW q \in Requests
  PROVE  IdList(ParseDone(q))
  <1> DEFINE scopes == Listed(DOMAIN q.chips)
             parts == [k \in 1..Len(scopes) |-> Parsing(q, scopes[k])]
             S == UNION {Range(Parsing(q, scopes[k])) : k \in 1..Len(scopes)}
  <1>1. ParseDone(q) = <<Load>> \o ParseRoots(q) \o FlattenSeq(parts)
    BY Zenon DEF ParseDone
  <1>2. Len(scopes) \in Nat
    <2>1. scopes \in Seq(DOMAIN q.chips)
      BY RequestTable, ListedAll DEF Scopes
    <2> QED
      BY <2>1
  <1> HIDE DEF scopes
  <1>3. \A k \in 1..Len(scopes) : Parsing(q, scopes[k]) \in Seq(S)
    <2> SUFFICES ASSUME NEW k \in 1..Len(scopes) PROVE Parsing(q, scopes[k]) \in Seq(S)
      OBVIOUS
    <2> DEFINE s == Parsing(q, scopes[k])
    <2>1. s \in Seq(Range(s)) /\ Range(s) \subseteq S
      BY ParsingIds DEF IdList
    <2> HIDE DEF s, S
    <2> QED
      BY <2>1, SeqMonotonic DEF s
  <1>4. \A e \in S : IsId(e)
    BY ParsingIds DEF IdList
  <1> HIDE DEF S
  <1>5. parts \in Seq(Seq(S))
    BY <1>2, <1>3
  <1> HIDE DEF parts
  <1>6. IdList(FlattenSeq(parts))
    <2>1. FlattenSeq(parts) \in Seq(S)
      BY <1>5, FlattenRange
    <2> QED
      BY <1>4, <2>1, IdListOf
  <1>7. IdList(<<Load>>) /\ IdList(ParseRoots(q))
    BY IdsAreIds, IdListOne, ParseRootsIds DEF Load
  <1>8. IdList(<<Load>> \o ParseRoots(q))
    BY <1>7, IdListConcat
  <1> QED
    BY <1>1, <1>6, <1>8, IdListConcat

-----------------------------------------------------------------------------
LEMMA PlannedParts ==
  ASSUME NEW q \in Requests, NEW j, Planned(q, j)
  PROVE  /\ j.table = q.table /\ j.chips = q.chips /\ IdList(j.roots)
         /\ \A i \in DOMAIN Tables[q.table] : Answers(Tables[q.table][i], j)
  <1>1. PICK last \in {ParseDone(q), <<Done>>} :
          \E overlay : j = Job(q, overlay, ExportRoots(q) \o last)
    BY DEF Planned
  <1> DEFINE j0 == Job(q, << >>, ExportRoots(q) \o last)
  <1>2. /\ j.table = q.table /\ j.chips = q.chips /\ j.roots = ExportRoots(q) \o last
        /\ j.parseRoots = ParseRoots(q) /\ j.mstx = q.mstx
    BY <1>1 DEF Job
  <1>3. /\ j0.table = q.table /\ j0.chips = q.chips /\ j0.roots = ExportRoots(q) \o last
        /\ j0.parseRoots = ParseRoots(q) /\ j0.mstx = q.mstx
    BY DEF Job
  <1>4. \A i \in DOMAIN Tables[q.table] : Answers(Tables[q.table][i], j0)
    BY RequestsAreWellFormed
  <1> HIDE DEF j0
  <1>5. View(j0) = View(j)
    BY <1>2, <1>3 DEF View
  <1>6. IdList(last)
    BY ParseDoneIds, IdsAreIds, IdListOne DEF Done
  <1>7. IdList(j.roots)
    BY <1>2, <1>6, ExportRootsIds, IdListConcat
  <1> QED
    BY <1>2, <1>3, <1>4, <1>5, <1>7, AnswersSame

LEMMA PlannedWell ==
  ASSUME NEW q \in Requests, NEW j, Planned(q, j), Fits(j.overlay, j)
  PROVE  WellFormed(j)
  BY PlannedParts, RequestTable DEF WellFormed, Fits

LEMMA DeviceBindingsFit ==
  ASSUME NEW q \in Requests, NEW j, Planned(q, j)
  PROVE  Fits(DeviceBindings(q), j)
  <1> DEFINE B == DeviceBindings(q)
  <1>1. ASSUME NEW i \in DOMAIN B
        PROVE  /\ IsId(i) /\ Shaped(B[i]) /\ Answers(B[i], j)
               /\ i.scope \in ScopesFor(B[i], j)
    BY <1>1, DeviceBindingsFinite, RequestTable, PlannedParts DEF Collection, ScopesFor
  <1> QED
    BY <1>1, DeviceBindingsFinite DEF Fits, Collection

LEMMA ExportBindingsFit ==
  ASSUME NEW q \in Requests, NEW j, Planned(q, j)
  PROVE  Fits(ExportBindings(q), j)
  <1> DEFINE R == Tables[q.table]
             exports == {d \in DOMAIN R : R[d].kind = "export"}
             after(i) == <<ExportInit>> \o
                         (IF i.stage = "DATA_PROCESSING" THEN ParseRoots(q) ELSE << >>)
             I == {InstanceOn(d, "export") : d \in exports}
             B == [i \in I |-> [R[Unscoped(i)] EXCEPT !.deps = @ \o after(i)]]
  <1>1. ExportBindings(q) = With(Only(ExportInit, Callback("export", <<Load>>)), B)
    BY Zenon DEF ExportBindings
  <1>2. IsId(ExportInit) /\ ExportInit.scope = "export" /\ IdList(<<Load>>)
    BY IdsAreIds, IdListOne DEF ExportInit, Load, Id3
  <1>3. Fits(Only(ExportInit, Callback("export", <<Load>>)), j)
    <2>1. /\ Shaped(Callback("export", <<Load>>)) /\ Callback("export", <<Load>>).kind = "export"
          /\ Resolver(Callback("export", <<Load>>)) = NoResolver
      BY <1>2, CallbackShape
    <2> QED
      BY <1>2, <2>1, FitsOnly DEF ScopesFor
  <1>4. IsFiniteSet(I)
    <2> DEFINE f == [d \in exports |-> InstanceOn(d, "export")]
               T == {f[d] : d \in DOMAIN f}
    <2>1. exports \in SUBSET DOMAIN R /\ IsFiniteSet(DOMAIN R)
      BY RequestTable DEF Collection
    <2>2. IsFiniteSet(exports)
      BY <2>1, FS_Subset
    <2>3. DOMAIN f = exports /\ \A d \in exports : f[d] = InstanceOn(d, "export")
      OBVIOUS
    <2> HIDE DEF f, exports
    <2>4. IsFiniteSet(T)
      BY <2>2, <2>3, FiniteImage
    <2>5. T = I
      BY <2>3
    <2> QED
      BY <2>4, <2>5
  <1>5. ASSUME NEW i \in I
        PROVE  /\ IsId(i) /\ i.scope = "export" /\ Unscoped(i) \in exports
    <2>1. PICK d \in exports : i = InstanceOn(d, "export")
      OBVIOUS
    <2>2. IsId(d) /\ d.scope = NoScope
      BY RequestTable
    <2>3. i = [stage |-> d.stage, name |-> d.name, scope |-> "export"] /\ IsId(i)
      BY <2>1, <2>2, IdParts
    <2>4. Unscoped(i) = [stage |-> i.stage, name |-> i.name, scope |-> NoScope]
      BY <2>3, IdParts
    <2>5. d = [stage |-> d.stage, name |-> d.name, scope |-> d.scope]
      BY <2>2 DEF IsId
    <2>6. i.stage = d.stage /\ i.name = d.name /\ i.scope = "export"
      BY <2>3
    <2>7. Unscoped(i) = d
      BY <2>2, <2>4, <2>5, <2>6
    <2> QED
      BY <2>3, <2>6, <2>7
  <1>6. \A i : IdList(after(i))
    <2>1. IdList(<<ExportInit>>) /\ IdList(ParseRoots(q)) /\ IdList(<< >>)
      BY <1>2, IdListOne, IdListEmpty, ParseRootsIds
    <2> QED
      BY <2>1, IdListConcat
  <1>7. ASSUME NEW i \in I
        PROVE  Shaped(B[i]) /\ Answers(B[i], j) /\ i.scope \in ScopesFor(B[i], j)
    <2> DEFINE d == R[Unscoped(i)]
               more == after(i)
               e == [d EXCEPT !.deps = @ \o more]
    <2>1. Shaped(d) /\ Answers(d, j) /\ d.kind = "export"
      BY <1>5, RequestTable, PlannedParts DEF Collection
    <2>2. B[i] = e /\ IdList(more)
      BY <1>6
    <2> HIDE DEF d, more
    <2>3. /\ DOMAIN e = DOMAIN d /\ e.deps = d.deps \o more /\ e.comps = d.comps
          /\ e.kind = d.kind /\ e.waits = d.waits /\ e.alts = d.alts
      BY <2>1 DEF Shaped
    <2> HIDE DEF e
    <2>4. IdList(e.deps)
      BY <2>1, <2>2, <2>3, IdListConcat DEF Shaped
    <2>5. Shaped(e)
      BY <2>1, <2>3, <2>4 DEF Shaped
    <2>6. Resolver(e) = Resolver(d)
      BY <2>3 DEF Resolver
    <2>7. Answers(e, j) /\ ScopesFor(e, j) = {"export"}
      BY <2>1, <2>3, <2>6 DEF Answers, ScopesFor
    <2> HIDE DEF B
    <2> QED
      BY <1>5, <2>2, <2>5, <2>7
  <1>8. DOMAIN B = I
    OBVIOUS
  <1> HIDE DEF B, I
  <1>9. Fits(B, j)
    BY <1>4, <1>5, <1>7, <1>8 DEF Fits, Collection
  <1> QED
    BY <1>1, <1>3, <1>9, FitsWith

LEMMA BindingsFit ==
  ASSUME NEW q \in Requests, NEW j, Planned(q, j)
  PROVE  Fits(Bindings(q), j)
  BY DeviceBindingsFit, ExportBindingsFit, FitsWith DEF Bindings

LEMMA SelectionWell ==
  ASSUME NEW q \in Requests
  PROVE  Planned(q, Selection(q)) /\ WellFormed(Selection(q))
  <1>1. Planned(q, Selection(q))
    BY DEF Planned, Selection
  <1>2. Selection(q).overlay = Bindings(q)
    BY DEF Selection, Job
  <1> QED
    BY <1>1, <1>2, BindingsFit, PlannedWell

-----------------------------------------------------------------------------
(***************************************************************************)
(* The second call of a plan: the nodes it adds are made of the first graph. *)
(***************************************************************************)
LEMMA IdsOfGraph ==
  ASSUME Finished
  PROVE  IsFiniteSet(Ids) /\ \A i \in Ids : IsId(i)
  <1>1. Ids \in SUBSET Universe
    BY IdsClosed
  <1>2. IsFiniteSet(Universe) /\ \A i \in Universe : IsId(i)
    BY UniverseOfIds DEF Finished
  <1> QED
    BY <1>1, <1>2, FS_Subset

LEMMA ReadyNodeShape ==
  ASSUME Finished, NEW s
  PROVE  /\ Shaped(ReadyNode(s)) /\ ReadyNode(s).kind = "device"
         /\ Resolver(ReadyNode(s)) = NoResolver
  <1> DEFINE required == {i \in ProcessesOf(s) : Definition(i).mandatory}
             optional == {i \in ProcessesOf(s) : ~Definition(i).mandatory}
             c == Callback("device", Listed(required))
             d == [c EXCEPT !.comps = Listed(optional)]
  <1>1. required \in SUBSET Ids /\ optional \in SUBSET Ids
    BY DEF ProcessesOf
  <1>2. ReadyNode(s) = d
    BY DEF ReadyNode
  <1> HIDE DEF required, optional
  <1>3. /\ IsFiniteSet(required) /\ \A i \in required : IsId(i)
        /\ IsFiniteSet(optional) /\ \A i \in optional : IsId(i)
    BY <1>1, IdsOfGraph, FS_Subset
  <1>4. IdList(Listed(required)) /\ IdList(Listed(optional))
    BY <1>3, IdListListed
  <1>5. Shaped(c) /\ c.kind = "device" /\ Resolver(c) = NoResolver
    BY <1>4, CallbackShape
  <1> HIDE DEF c
  <1>6. /\ DOMAIN d = DOMAIN c /\ d.comps = Listed(optional) /\ d.kind = c.kind
        /\ d.deps = c.deps /\ d.waits = c.waits /\ d.alts = c.alts
    BY <1>5 DEF Shaped
  <1> HIDE DEF d
  <1>7. Shaped(d)
    BY <1>4, <1>5, <1>6 DEF Shaped
  <1>8. Resolver(d) = Resolver(c)
    BY <1>6 DEF Resolver
  <1> QED
    BY <1>2, <1>5, <1>6, <1>7, <1>8

LEMMA ReadyParts ==
  ASSUME NEW s
  PROVE  IsId(Ready(s)) /\ Ready(s).scope = s
  <1>1. IsId(Dev("Device.Ready"))
    BY IdsAreIds DEF Dev
  <1>2. /\ IsId(Ready(s))
        /\ Ready(s) = [stage |-> Dev("Device.Ready").stage, name |-> Dev("Device.Ready").name,
                       scope |-> s]
    BY <1>1, IdParts DEF Ready
  <1> QED
    BY <1>2

LEMMA ReadyNodesFit ==
  ASSUME Finished, NEW j, j.chips = job.chips
  PROVE  /\ Fits(ReadyNodes, j)
         /\ IdList(Listed(DOMAIN ReadyNodes))
  <1> DEFINE I == {Ready(s) : s \in Completed}
  <1>1. Completed \in SUBSET DOMAIN job.chips /\ IsFiniteSet(DOMAIN job.chips)
    BY DEF Completed, Finished, WellFormed, Scopes
  <1>2. IsFiniteSet(Completed)
    BY <1>1, FS_Subset
  <1>3. IsFiniteSet(I)
    <2> DEFINE f == [s \in Completed |-> Ready(s)]
               T == {f[s] : s \in DOMAIN f}
    <2>1. DOMAIN f = Completed /\ \A s \in Completed : f[s] = Ready(s)
      OBVIOUS
    <2> HIDE DEF f
    <2>2. IsFiniteSet(T)
      BY <1>2, <2>1, FiniteImage
    <2>3. T = I
      BY <2>1
    <2> QED
      BY <2>2, <2>3
  <1>4. DOMAIN ReadyNodes = I /\ \A i \in I : ReadyNodes[i] = ReadyNode(i.scope)
    BY DEF ReadyNodes
  <1>5. ASSUME NEW i \in I PROVE IsId(i) /\ i.scope \in DOMAIN j.chips
    BY <1>1, ReadyParts
  <1> HIDE DEF I
  <1>6. \A i \in I : /\ Shaped(ReadyNodes[i]) /\ ReadyNodes[i].kind = "device"
                     /\ Resolver(ReadyNodes[i]) = NoResolver
    BY <1>4, ReadyNodeShape
  <1>7. Fits(ReadyNodes, j)
    BY <1>3, <1>4, <1>5, <1>6 DEF Fits, Collection, Answers, ScopesFor
  <1>8. IdList(Listed(DOMAIN ReadyNodes))
    BY <1>3, <1>4, <1>5, IdListListed
  <1> QED
    BY <1>7, <1>8

LEMMA ClosingFit ==
  ASSUME Finished, NEW q \in Requests, NEW j
  PROVE  Fits(Closing(q), j)
  <1> DEFINE done == ParseDone(q) \o Listed(DOMAIN ReadyNodes)
             finalize == Only(Finalize, Callback("export", done \o ExportRoots(q)))
             after == Only(Done, Callback("profile", <<Finalize>>))
             last == Only(Done, Callback("profile", done))
  <1>1. Closing(q) = IF q.exporting THEN With(finalize, after) ELSE last
    BY Zenon DEF Closing
  <1>2. IsId(Finalize) /\ Finalize.scope = "export" /\ IsId(Done) /\ Done.scope = "profile"
    BY IdsAreIds DEF Finalize, Done, Id3
  <1>3. IdList(done)
    BY ParseDoneIds, ReadyNodesFit, IdListConcat
  <1>4. IdList(done \o ExportRoots(q)) /\ IdList(<<Finalize>>)
    <2> HIDE DEF done
    <2> QED
      BY <1>2, <1>3, ExportRootsIds, IdListConcat, IdListOne
  <1>5. ASSUME NEW id, NEW kind \in {"profile", "export"}, NEW deps, IsId(id), id.scope = kind,
               IdList(deps)
        PROVE  Fits(Only(id, Callback(kind, deps)), j)
    <2>1. /\ Shaped(Callback(kind, deps)) /\ Callback(kind, deps).kind = kind
          /\ Resolver(Callback(kind, deps)) = NoResolver
      BY <1>5, CallbackShape
    <2>2. id.scope \in ScopesFor(Callback(kind, deps), j)
      BY <1>5, <2>1 DEF ScopesFor
    <2> QED
      BY <1>5, <2>1, <2>2, FitsOnly
  <1>6. Fits(finalize, j)
    BY <1>2, <1>4, <1>5
  <1>7. Fits(after, j)
    BY <1>2, <1>4, <1>5
  <1>8. Fits(last, j)
    BY <1>2, <1>3, <1>5
  <1> HIDE DEF finalize, after, last
  <1> QED
    BY <1>1, <1>6, <1>7, <1>8, FitsWith

SecondCall(q) ==
  [job EXCEPT !.overlay = With(@, With(ReadyNodes, Closing(q))),
              !.roots = ExportRoots(q) \o <<Done>>]

\* The second call, with `more` added to the overlay.
Second(q, more) == Job(q, With(Bindings(q), more), ExportRoots(q) \o <<Done>>)

LEMMA JobParts ==
  \A q, overlay, roots :
    LET j == Job(q, overlay, roots)
    IN  /\ j.table = q.table /\ j.overlay = overlay /\ j.roots = roots /\ j.chips = q.chips
        /\ j.reuse = q.reuse /\ j.parseRoots = ParseRoots(q) /\ j.mstx = q.mstx
  BY DEF Job

LEMMA SecondIsJob ==
  ASSUME NEW q, job = Selection(q)
  PROVE  SecondCall(q) = Second(q, With(ReadyNodes, Closing(q)))
  <1> DEFINE j == SecondCall(q)
             more == With(Bindings(q), With(ReadyNodes, Closing(q)))
             b == Bindings(q)
             first == ExportRoots(q) \o ParseDone(q)
             second == ExportRoots(q) \o <<Done>>
  <1>1. job = Job(q, b, first) /\ job.overlay = b
    BY DEF Selection, Job
  <1>2. j = [Job(q, b, first) EXCEPT !.overlay = more, !.roots = second]
    BY <1>1 DEF SecondCall
  <1> HIDE DEF j, b, first, second, more
  <1>3. [Job(q, b, first) EXCEPT !.overlay = more, !.roots = second] = Job(q, more, second)
    <2> DEFINE bound == {"profile", "host", "export"} \cup DOMAIN q.chips
               r(o, s) == [table |-> q.table, overlay |-> o, roots |-> s, chips |-> q.chips,
                           reuse |-> q.reuse, bound |-> bound,
                           parseRoots |-> ParseRoots(q), mstx |-> q.mstx]
    <2>1. \A o, s : Job(q, o, s) = r(o, s)
      BY DEF Job
    <2> HIDE DEF bound
    <2>2. [r(b, first) EXCEPT !.overlay = more, !.roots = second] = r(more, second)
      <3>1. [r(b, first) EXCEPT !.overlay = more] = r(more, first)
        OBVIOUS
      <3>2. [r(more, first) EXCEPT !.roots = second] = r(more, second)
        OBVIOUS
      <3>3. [r(b, first) EXCEPT !.overlay = more, !.roots = second]
              = [[r(b, first) EXCEPT !.overlay = more] EXCEPT !.roots = second]
        BY SMT
      <3> HIDE DEF r
      <3> QED
        BY <3>1, <3>2, <3>3
    <2> HIDE DEF r
    <2> QED
      BY <2>1, <2>2
  <1> QED
    BY <1>2, <1>3 DEF Second, more, second, j

LEMMA SecondWell ==
  ASSUME Finished, NEW q \in Requests, job = Selection(q)
  PROVE  WellFormed(SecondCall(q))
  <1> DEFINE j == SecondCall(q)
             more == With(Bindings(q), With(ReadyNodes, Closing(q)))
             second == ExportRoots(q) \o <<Done>>
  <1>1. job.chips = q.chips
    BY JobParts DEF Selection
  <1>2. j = Job(q, more, second)
    BY SecondIsJob DEF Second
  <1> HIDE DEF j, more
  <1>3. Planned(q, j) /\ j.overlay = more /\ j.chips = job.chips
    <2>1. Planned(q, j)
      BY <1>2 DEF Planned
    <2> HIDE DEF second
    <2> QED
      BY <1>1, <1>2, <2>1, JobParts
  <1>4. Fits(Bindings(q), j) /\ Fits(ReadyNodes, j) /\ Fits(Closing(q), j)
    BY <1>3, BindingsFit, ReadyNodesFit, ClosingFit
  <1>5. Fits(more, j)
    BY <1>4, FitsWith DEF more
  <1> QED
    BY <1>3, <1>5, PlannedWell DEF j

-----------------------------------------------------------------------------
(***************************************************************************)
(* Every graph is exact.                                                    *)
(***************************************************************************)
\* What is built for whom.
PlanOk ==
  /\ phase \in {"select", "final", "direct"}
  /\ phase # "direct" => request \in Requests
  /\ phase = "select" => job = Selection(request)

\* A call that begins.
LEMMA Begun ==
  ASSUME WellFormed(job), stack = << >>, processes = << >>, next = 1,
         verdict = IF job.roots = << >> THEN "false" ELSE "none"
  PROVE  Exact
  <1>1. CASE job.roots = << >>
    <2>1. Refuted /\ verdict = "false"
      BY <1>1 DEF Refuted
    <2> QED
      BY <2>1 DEF Exact
  <1>2. CASE job.roots # << >>
    <2>1. 1 \in 1..(Len(job.roots) + 1) /\ Len(<< >>) = 0
      BY DEF WellFormed, IdList
    <2>2. GoingAt(<< >>, 1, << >>)
      BY <1>2, <2>1 DEF GoingAt, RootsOk, CallsOk
    <2>3. Going
      BY <2>2 DEF Going
    <2> QED
      BY <1>2, <2>3 DEF Exact
  <1> QED
    BY <1>1, <1>2

LEMMA BeginsAgain ==
  ASSUME NEW j, WellFormed(j), Begin(j)
  PROVE  Exact'
  <1>0. WellFormed(job)' /\ job' = j
    BY DEF Begin
  <1>1. CASE j.roots = << >>
    <2>1. Refuted' /\ verdict' = "false"
      BY <1>0, <1>1 DEF Refuted, Begin
    <2> QED
      BY <1>0, <2>1 DEF Exact, Begin
  <1>2. CASE j.roots # << >>
    <2>1. 1 \in 1..(Len(j.roots) + 1) /\ Len(<< >>) = 0
      BY DEF WellFormed, IdList
    <2>2. GoingAt(<< >>, 1, << >>)'
      BY <1>0, <1>2, <2>1 DEF GoingAt, RootsOk, CallsOk
    <2>3. Going'
      BY <2>2 DEF Going, Begin
    <2> QED
      BY <1>0, <1>2, <2>3 DEF Exact, Begin
  <1> QED
    BY <1>1, <1>2

LEMMA InitExact == Init => Exact /\ PlanOk
  <1> SUFFICES ASSUME Init PROVE Exact /\ PlanOk
    OBVIOUS
  <1>1. WellFormed(job) /\ PlanOk
    BY SelectionWell, CallsAreWellFormed DEF Init, Start, PlanOk
  <1>2. /\ stack = << >> /\ processes = << >> /\ next = 1
        /\ verdict = IF job.roots = << >> THEN "false" ELSE "none"
    BY DEF Init, Start
  <1> QED
    BY <1>1, <1>2, Begun

LEMMA NextKeepsExact ==
  IInv /\ Exact /\ PlanOk /\ [Next]_vars => Exact' /\ PlanOk'
  <1> SUFFICES ASSUME IInv, Exact, PlanOk, [Next]_vars PROVE Exact' /\ PlanOk'
    OBVIOUS
  <1>1. CASE Compiling
    <2>1. Exact'
      BY <1>1, CompileExact DEF Compiling
    <2>2. job' = job
      BY <1>1 DEF Compiling, Compile, Known, Enter, Leave, Fail, Finish
    <2> QED
      BY <1>1, <2>1, <2>2 DEF Compiling, PlanOk
  <1>2. CASE Complete
    <2>1. phase = "select" /\ verdict = "true" /\ request \in Requests /\ job = Selection(request)
      BY <1>2 DEF Complete, PlanOk
    <2>2. Finished
      BY <2>1 DEF Exact, Finished
    <2>3. Begin(SecondCall(request)) /\ phase' = "final" /\ request' = request
      BY <1>2 DEF Complete, SecondCall
    <2>4. WellFormed(SecondCall(request))
      BY <2>1, <2>2, SecondWell
    <2>5. Exact'
      BY <2>3, <2>4, BeginsAgain
    <2> QED
      BY <2>1, <2>3, <2>5 DEF PlanOk
  <1>3. CASE UNCHANGED vars
    <2>1. job' = job /\ UNCHANGED <<stack, processes, next, verdict, request, phase>>
      BY <1>3 DEF vars, graphVars, buildVars
    <2>2. WellFormed(job)' /\ (Refuted' <=> Refuted)
      BY <2>1, SameMeaning DEF Exact
    <2>3. Going' <=> Going
      BY <2>1, SameCalls DEF Going
    <2>4. Exact'
      BY <2>1, <2>2, <2>3 DEF Exact
    <2> QED
      BY <2>1, <2>4 DEF PlanOk
  <1> QED
    BY <1>1, <1>2, <1>3 DEF Next

\* Whatever is registered, of any number of devices and chips, whatever the resolvers
\* answer and whatever a request selects: Build succeeds exactly if everything the roots
\* need, directly or not, is there without a cycle, and its graph is what they need and
\* nothing else, with exactly the edges the definitions mean (topo_graph.cpp:131).
THEOREM GraphIsExact == Spec => []ExactGraph
  <1>1. Init => IInv /\ Exact /\ PlanOk
    BY InitIInv, InitExact
  <1>2. IInv /\ Exact /\ PlanOk /\ [Next]_vars => (IInv /\ Exact /\ PlanOk)'
    BY NextKeepsIInv, NextKeepsExact
  <1>3. IInv /\ Exact => ExactGraph
    BY ExactSuffices
  <1> QED
    BY <1>1, <1>2, <1>3, PTL DEF Spec

-----------------------------------------------------------------------------
(***************************************************************************)
(* What comes before a process: at least its inputs, and what comes before   *)
(* them.                                                                    *)
(***************************************************************************)
Onto(k, before) ==
  Append(before, Inputs(processes[k]) \cup UNION {before[j] : j \in Inputs(processes[k])})
IsChain(A) ==
  A = [k \in 0..Len(processes) |-> IF k = 0 THEN << >> ELSE Onto(k, A[k - 1])]

LEMMA InputsBefore ==
  ASSUME GraphWell(processes)
  PROVE  /\ Len(processes) \in Nat
         /\ \A k \in 1..Len(processes) : Inputs(processes[k]) \subseteq 1..(k - 1)
  BY Appended DEF GraphWell, WellFounded

LEMMA ChainExists == GraphWell(processes) => \E A : IsChain(A)
  <1> SUFFICES ASSUME GraphWell(processes) PROVE \E A : IsChain(A)
    OBVIOUS
  <1> DEFINE n == Len(processes)
             V == Seq(SUBSET Nat)
             goes(s) == IF Len(s) < n THEN Onto(Len(s) + 1, s) ELSE s
             F == [s \in V |-> goes(s)]
  <1>1. n \in Nat /\ \A k \in 1..n : Inputs(processes[k]) \subseteq 1..(k - 1)
    BY InputsBefore
  <1>2. ASSUME NEW s \in V, Len(s) < n
        PROVE  Onto(Len(s) + 1, s) \in V /\ Len(Onto(Len(s) + 1, s)) = Len(s) + 1
    <2> DEFINE I == Inputs(processes[Len(s) + 1])
               more == I \cup UNION {s[j] : j \in I}
    <2>1. Len(s) \in Nat /\ Len(s) + 1 \in 1..n
      BY <1>1, <1>2
    <2>2. I \subseteq 1..Len(s)
      <3>1. \A m \in Nat : m + 1 \in 1..n => Inputs(processes[m + 1]) \subseteq 1..m
        BY <1>1
      <3> QED
        BY <2>1, <3>1
    <2> HIDE DEF I
    <2>3. more \in SUBSET Nat
      <3>1. \A j \in 1..Len(s) : s[j] \in SUBSET Nat
        OBVIOUS
      <3>2. \A j \in I : s[j] \in SUBSET Nat
        BY <2>2, <3>1
      <3>3. I \in SUBSET Nat
        BY <2>1, <2>2
      <3> QED
        BY <3>2, <3>3, Zenon
    <2>4. Onto(Len(s) + 1, s) = Append(s, more)
      BY DEF Onto, I
    <2> HIDE DEF more
    <2>5. Append(s, more) \in Seq(SUBSET Nat) /\ Len(Append(s, more)) = Len(s) + 1
      BY <2>3
    <2> QED
      BY <2>4, <2>5
  <1>3. F \in [V -> V] /\ << >> \in V
    BY <1>2
  <1>4. \A s \in V : F[s] = goes(s)
    OBVIOUS
  <1> HIDE DEF F
  <1>5. PICK f \in [Nat -> V] : f[0] = << >> /\ \A k \in Nat : f[k + 1] = F[f[k]]
    <2> HIDE DEF V
    <2>1. \A W : \A a \in W : \A G \in [W -> W] :
            \E f \in [Nat -> W] : f[0] = a /\ \A k \in Nat : f[k + 1] = G[f[k]]
      BY Iteration
    <2>2. \A a \in V : \A G \in [V -> V] :
            \E f \in [Nat -> V] : f[0] = a /\ \A k \in Nat : f[k + 1] = G[f[k]]
      BY <2>1
    <2> QED
      BY <1>3, <2>2, Zenon
  <1> DEFINE Long == {k \in Nat : k <= n => Len(f[k]) = k}
  <1>6. Nat \subseteq Long
    <2>1. 0 \in Long
      BY <1>5
    <2>2. ASSUME NEW k \in Nat, k \in Long PROVE k + 1 \in Long
      <3> SUFFICES ASSUME k + 1 <= n PROVE Len(f[k + 1]) = k + 1
        OBVIOUS
      <3>1. Len(f[k]) = k /\ k < n
        BY <1>1, <2>2
      <3>4. f[k] \in V
        <4> HIDE DEF V
        <4> QED
          BY <1>5, <2>2
      <3>2. f[k + 1] = Onto(Len(f[k]) + 1, f[k])
        BY <1>4, <1>5, <3>1, <3>4
      <3> HIDE DEF V
      <3> QED
        BY <1>2, <3>1, <3>2, <3>4
    <2> HIDE DEF Long
    <2> QED
      BY <2>1, <2>2, SetInduction
  <1> DEFINE A == [k \in 0..n |-> f[k]]
  <1>7. ASSUME NEW k \in 0..n, k # 0 PROVE f[k] = Onto(k, A[k - 1])
    <2>1. k - 1 \in Nat /\ k - 1 <= n /\ (k - 1) + 1 = k /\ k - 1 \in 0..n /\ k - 1 < n
      BY <1>1, <1>7
    <2>2. Len(f[k - 1]) = k - 1 /\ f[k - 1] \in V
      BY <1>5, <1>6, <2>1
    <2>3. f[k] = F[f[k - 1]]
      BY <1>5, <2>1
    <2>4. A[k - 1] = f[k - 1]
      BY <2>1
    <2> HIDE DEF V, A
    <2>5. F[f[k - 1]] = Onto((k - 1) + 1, f[k - 1])
      BY <1>4, <2>1, <2>2
    <2> QED
      BY <2>1, <2>3, <2>4, <2>5
  <1>8. A = [k \in 0..n |-> IF k = 0 THEN << >> ELSE Onto(k, A[k - 1])]
    BY <1>1, <1>5, <1>7
  <1> QED
    BY <1>8 DEF IsChain

LEMMA AncestorsHold ==
  ASSUME GraphWell(processes), NEW k \in 1..Len(processes)
  PROVE  /\ Inputs(processes[k]) \subseteq Ancestors[k]
         /\ \A j \in Inputs(processes[k]) : Ancestors[j] \subseteq Ancestors[k]
  <1> DEFINE n == Len(processes)
             A == CHOOSE A : IsChain(A)
             in(m) == Inputs(processes[m])
             Holds(s, m) == in(m) \subseteq s[m] /\ \A j \in in(m) : s[j] \subseteq s[m]
             Upto == {m \in Nat : m <= n =>
                        /\ A[m] \in Seq(SUBSET Nat) /\ Len(A[m]) = m
                        /\ \A i \in 1..m : Holds(A[m], i)}
  <1>1. Ancestors = A[n]
    BY Zenon DEF Ancestors, IsChain, Onto
  <1>2. A = [m \in 0..n |-> IF m = 0 THEN << >> ELSE Onto(m, A[m - 1])]
    BY ChainExists, Zenon DEF IsChain
  <1>3. n \in Nat /\ \A m \in 1..n : in(m) \subseteq 1..(m - 1)
    BY InputsBefore
  <1> HIDE DEF A
  <1>4. A[0] = << >>
    BY <1>2, <1>3
  <1>5. ASSUME NEW m \in Nat, m + 1 <= n PROVE A[m + 1] = Onto(m + 1, A[m])
    <2>1. m + 1 \in 0..n /\ m + 1 # 0 /\ (m + 1) - 1 = m
      BY <1>3, <1>5
    <2> QED
      BY <1>2, <2>1
  <1>6. Nat \subseteq Upto
    <2>1. 0 \in Upto
      <3>1. << >> \in Seq(SUBSET Nat) /\ Len(<< >>) = 0 /\ 1..0 = {}
        OBVIOUS
      <3> QED
        BY <1>4, <3>1
    <2>2. ASSUME NEW m \in Nat, m \in Upto PROVE m + 1 \in Upto
      <3> SUFFICES ASSUME m + 1 <= n
                   PROVE  /\ A[m + 1] \in Seq(SUBSET Nat) /\ Len(A[m + 1]) = m + 1
                          /\ \A i \in 1..(m + 1) : Holds(A[m + 1], i)
        OBVIOUS
      <3> DEFINE s == A[m]
                 I == in(m + 1)
                 more == I \cup UNION {s[j] : j \in I}
      <3>1. s \in Seq(SUBSET Nat) /\ Len(s) = m /\ \A i \in 1..m : Holds(s, i)
        BY <1>3, <2>2
      <3>2. I \subseteq 1..m
        <4>1. m + 1 \in 1..n /\ (m + 1) - 1 = m
          BY <1>3
        <4> QED
          BY <1>3, <4>1
      <3>3. A[m + 1] = Append(s, more)
        BY <1>5 DEF Onto
      <3>4. \A i \in 1..m : in(i) \subseteq 1..m
        BY <1>3
      <3> HIDE DEF s, I, in
      <3>5. more \in SUBSET Nat
        <4>1. \A j \in 1..m : s[j] \in SUBSET Nat
          BY <3>1
        <4>2. \A j \in I : s[j] \in SUBSET Nat
          BY <3>2, <4>1
        <4>3. I \in SUBSET Nat
          BY <3>2
        <4> QED
          BY <4>2, <4>3, Zenon
      <3> DEFINE t == Append(s, more)
      <3>6. /\ t \in Seq(SUBSET Nat) /\ Len(t) = m + 1 /\ t[m + 1] = more
            /\ \A j \in 1..m : t[j] = s[j]
        <4> HIDE DEF more
        <4> QED
          BY <3>1, <3>5
      <3> HIDE DEF t
      <3>7. ASSUME NEW i \in 1..m PROVE Holds(t, i)
        BY <3>1, <3>4, <3>6
      <3>8. Holds(t, m + 1)
        BY <3>2, <3>6 DEF I
      <3>9. \A i \in 1..(m + 1) : i \in 1..m \/ i = m + 1
        OBVIOUS
      <3> HIDE DEF Holds
      <3> QED
        BY <3>3, <3>6, <3>7, <3>8, <3>9 DEF t
    <2> HIDE DEF Upto
    <2> QED
      BY <2>1, <2>2, SetInduction
  <1>7. \A i \in 1..n : Holds(A[n], i)
    BY <1>3, <1>6
  <1> QED
    BY <1>1, <1>7

-----------------------------------------------------------------------------
(***************************************************************************)
(* What the first call of a plan finds.                                     *)
(***************************************************************************)
LEMMA OnScope ==
  ASSUME NEW q \in Requests, NEW d \in DOMAIN Tables[q.table], NEW s
  PROVE  /\ IsId(InstanceOn(d, s)) /\ InstanceOn(d, s).scope = s
         /\ Unscoped(InstanceOn(d, s)) = d
  <1> DEFINE i == InstanceOn(d, s)
  <1>1. IsId(d) /\ d.scope = NoScope
    BY RequestTable
  <1>2. i = [stage |-> d.stage, name |-> d.name, scope |-> s] /\ IsId(i)
    BY <1>1, IdParts
  <1>3. Unscoped(i) = [stage |-> i.stage, name |-> i.name, scope |-> NoScope]
    BY <1>2, IdParts
  <1>4. d = [stage |-> d.stage, name |-> d.name, scope |-> d.scope]
    BY <1>1 DEF IsId
  <1>5. i.stage = d.stage /\ i.name = d.name /\ i.scope = s
    BY <1>2
  <1> QED
    BY <1>1, <1>2, <1>3, <1>4, <1>5

LEMMA ScopesApart ==
  ASSUME NEW q \in Requests
  PROVE  /\ NoScope \notin DOMAIN q.chips
         /\ DOMAIN q.chips \cap {"profile", "host", "export"} = {}
         /\ NoScope \notin {"profile", "host", "export"}
  BY RequestTable, RequestsAreScoped DEF Scopes, NoScope

\* A definition that is one of the table, or has no resolver.
Familiar(d, R) ==
  \/ Resolver(d) = NoResolver
  \/ \E x \in DOMAIN R : R[x].kind = d.kind /\ Resolver(R[x]) = Resolver(d)

LEMMA ExportBindingsFrom ==
  ASSUME NEW q \in Requests, NEW i \in DOMAIN ExportBindings(q)
  PROVE  /\ IsId(i) /\ i.scope = "export"
         /\ Unscoped(i) \in DOMAIN Tables[q.table] \/ i = ExportInit
         /\ Familiar(ExportBindings(q)[i], Tables[q.table])
  <1> DEFINE R == Tables[q.table]
             exports == {d \in DOMAIN R : R[d].kind = "export"}
             after(x) == <<ExportInit>> \o
                         (IF x.stage = "DATA_PROCESSING" THEN ParseRoots(q) ELSE << >>)
             I == {InstanceOn(d, "export") : d \in exports}
             B == [x \in I |-> [R[Unscoped(x)] EXCEPT !.deps = @ \o after(x)]]
             first == Only(ExportInit, Callback("export", <<Load>>))
  <1>1. ExportBindings(q) = With(first, B)
    BY Zenon DEF ExportBindings
  <1>2. IsId(ExportInit) /\ ExportInit.scope = "export" /\ IdList(<<Load>>)
    BY IdsAreIds, IdListOne DEF ExportInit, Load, Id3
  <1>3. /\ DOMAIN first = {ExportInit} /\ Resolver(first[ExportInit]) = NoResolver
    BY <1>2, CallbackShape DEF Only
  <1>4. DOMAIN B = I
    OBVIOUS
  <1>5. ASSUME NEW x \in I
        PROVE  /\ IsId(x) /\ x.scope = "export" /\ Unscoped(x) \in DOMAIN R
               /\ Familiar(B[x], R)
    <2>1. PICK d \in exports : x = InstanceOn(d, "export")
      OBVIOUS
    <2>2. d \in DOMAIN R /\ R[d].kind = "export" /\ Shaped(R[d])
      BY RequestTable DEF Collection
    <2>3. IsId(x) /\ x.scope = "export" /\ Unscoped(x) = d
      BY <2>1, <2>2, OnScope
    <2> DEFINE r == R[d]
               more == after(x)
               e == [r EXCEPT !.deps = @ \o more]
    <2>4. B[x] = e
      BY <2>3
    <2> HIDE DEF B, R, more
    <2>5. Resolver(e) = Resolver(r) /\ e.kind = r.kind
      BY <2>2 DEF Resolver, Shaped
    <2> HIDE DEF e
    <2> QED
      BY <2>2, <2>3, <2>4, <2>5 DEF Familiar
  <1> HIDE DEF first, B, I, R
  <1>6. /\ DOMAIN With(first, B) = {ExportInit} \cup I
        /\ With(first, B)[ExportInit] = first[ExportInit]
        /\ \A x \in I : x # ExportInit => With(first, B)[x] = B[x]
    BY <1>3, <1>4 DEF With
  <1>7. CASE i = ExportInit
    BY <1>1, <1>2, <1>3, <1>6, <1>7 DEF Familiar
  <1>8. CASE i # ExportInit
    <2>1. i \in I
      BY <1>1, <1>6, <1>8
    <2> QED
      BY <1>1, <1>5, <1>6, <1>8, <2>1 DEF R
  <1> QED
    BY <1>7, <1>8

LEMMA BindingsFrom ==
  ASSUME NEW q \in Requests, NEW i \in DOMAIN Bindings(q)
  PROVE  /\ IsId(i) /\ i.scope \in DOMAIN q.chips \cup {"export"}
         /\ Unscoped(i) \in DOMAIN Tables[q.table] \/ i = ExportInit
         /\ i.scope \in DOMAIN q.chips =>
              Bindings(q)[i] = Tables[q.table][Unscoped(i)]
         /\ Familiar(Bindings(q)[i], Tables[q.table])
  <1> DEFINE B == DeviceBindings(q)
             E == ExportBindings(q)
  <1>1. ASSUME i \in DOMAIN B
        PROVE  /\ IsId(i) /\ i.scope \in DOMAIN q.chips
               /\ Unscoped(i) \in DOMAIN Tables[q.table]
               /\ B[i] = Tables[q.table][Unscoped(i)]
               /\ Familiar(B[i], Tables[q.table])
    BY <1>1, DeviceBindingsFinite DEF Familiar
  <1>2. CASE ~q.exporting
    <2>1. Bindings(q) = B
      BY <1>2 DEF Bindings
    <2> HIDE DEF B
    <2> QED
      BY <1>1, <2>1
  <1>3. CASE q.exporting
    <2>1. Bindings(q) = With(B, E)
      BY <1>3 DEF Bindings
    <2> HIDE DEF B, E
    <2>2. /\ DOMAIN With(B, E) = DOMAIN B \cup DOMAIN E
          /\ \A x \in DOMAIN B : With(B, E)[x] = B[x]
          /\ \A x \in DOMAIN E \ DOMAIN B : With(B, E)[x] = E[x]
      BY DEF With
    <2>3. CASE i \in DOMAIN B
      BY <1>1, <2>1, <2>2, <2>3
    <2>4. CASE i \notin DOMAIN B
      <3>1. i \in DOMAIN E /\ Bindings(q)[i] = E[i]
        BY <2>1, <2>2, <2>4
      <3>2. /\ IsId(i) /\ i.scope = "export"
            /\ Unscoped(i) \in DOMAIN Tables[q.table] \/ i = ExportInit
            /\ Familiar(E[i], Tables[q.table])
        BY <3>1, ExportBindingsFrom DEF E
      <3> QED
        BY <3>1, <3>2, ScopesApart
    <2> QED
      BY <2>3, <2>4
  <1> QED
    BY <1>2, <1>3

\* What the second call adds.
Added(q) == {Finalize, Done} \cup {Ready(s) : s \in DOMAIN q.chips}

LEMMA AddedNames ==
  ASSUME NEW q \in Requests, NEW i \in Added(q)
  PROVE  /\ IsId(i) /\ i.scope # NoScope /\ Unscoped(i) \notin DOMAIN Tables[q.table]
         /\ i.scope \notin DOMAIN q.chips => i \in {Finalize, Done}
         /\ i # ExportInit /\ i \notin DOMAIN Bindings(q)
  <1> DEFINE R == Tables[q.table]
  <1>1. R = Tables[q.table] /\ q.table \in DOMAIN Tables
    BY RequestsAreWellFormed
  <1>2. DOMAIN R \cap {Unscoped(Finalize), Unscoped(Done), Dev("Device.Ready")} = {}
    BY <1>1, DevicesAreInitialised
  <1> HIDE DEF R
  <1>3. /\ IsId(Finalize) /\ Finalize.scope = "export" /\ IsId(Done) /\ Done.scope = "profile"
        /\ Finalize # ExportInit /\ Done # ExportInit
    BY IdsAreIds DEF Finalize, Done, ExportInit, Id3
  <1>4. IsId(i) /\ i.scope # NoScope /\ Unscoped(i) \notin DOMAIN R /\ i # ExportInit
    <2>1. CASE i \in {Finalize, Done}
      BY <2>1, <1>2, <1>3, ScopesApart
    <2>2. ASSUME NEW s \in DOMAIN q.chips, i = Ready(s)
          PROVE  IsId(i) /\ i.scope # NoScope /\ Unscoped(i) \notin DOMAIN R /\ i # ExportInit
      <3>1. IsId(i) /\ i.scope = s
        BY <2>2, ReadyParts
      <3>2. Unscoped(i) = Dev("Device.Ready")
        <4>1. IsId(Dev("Device.Ready")) /\ Dev("Device.Ready").scope = NoScope
          BY IdsAreIds DEF Dev, Id3, NoScope
        <4> DEFINE d == Dev("Device.Ready")
        <4>2. i = [stage |-> d.stage, name |-> d.name, scope |-> s]
          BY <2>2, <4>1, IdParts DEF Ready
        <4>3. Unscoped(i) = [stage |-> i.stage, name |-> i.name, scope |-> NoScope]
          BY <3>1, IdParts
        <4>4. d = [stage |-> d.stage, name |-> d.name, scope |-> d.scope]
          BY <4>1 DEF IsId
        <4> HIDE DEF d
        <4>5. i.stage = d.stage /\ i.name = d.name
          BY <4>2
        <4> QED
          BY <4>1, <4>3, <4>4, <4>5 DEF d
      <3>3. ExportInit.scope = "export"
        BY DEF ExportInit, Id3
      <3> QED
        BY <1>2, <3>1, <3>2, <3>3, ScopesApart
    <2> QED
      BY <2>1, <2>2 DEF Added
  <1>5. i.scope \notin DOMAIN q.chips => i \in {Finalize, Done}
    BY ReadyParts DEF Added
  <1>6. i \notin DOMAIN Bindings(q)
    BY <1>1, <1>4, BindingsFrom
  <1> QED
    BY <1>1, <1>4, <1>5, <1>6

LEMMA SelectionFinds ==
  ASSUME NEW q \in Requests, job = Selection(q), NEW e, IsId(e), Defined(e)
  PROVE  /\ e \notin Added(q)
         /\ Unscoped(e) \notin DOMAIN Bindings(q)
         /\ Unscoped(e) \in DOMAIN Tables[q.table] \/ e = ExportInit
         /\ e \in DOMAIN Bindings(q) => Definition(e) = Bindings(q)[e]
         /\ e \notin DOMAIN Bindings(q) => /\ Unscoped(e) \in DOMAIN Tables[q.table]
                                           /\ Definition(e) = Tables[q.table][Unscoped(e)]
         /\ e.scope \in DOMAIN q.chips => Definition(e) = Tables[q.table][Unscoped(e)]
         /\ Familiar(Definition(e), Tables[q.table])
  <1> DEFINE R == Tables[q.table]
             B == Bindings(q)
  <1>1. job.overlay = B /\ job.table = q.table
    BY DEF Selection, Job
  <1>2. Unscoped(e).scope = NoScope
    BY IdParts
  <1>3. Unscoped(e) \notin DOMAIN B
    BY <1>2, BindingsFrom, ScopesApart
  <1>4. e \in DOMAIN B \/ Unscoped(e) \in DOMAIN R
    BY <1>1, <1>3 DEF Defined, Registry
  <1>5. e \in DOMAIN B => Definition(e) = B[e]
    BY <1>1 DEF Definition
  <1>6. e \notin DOMAIN B => Definition(e) = R[Unscoped(e)]
    BY <1>1, <1>3 DEF Definition, Registry
  <1>7. Unscoped(e) \in DOMAIN R \/ e = ExportInit
    BY <1>4, BindingsFrom
  <1>8. e \notin Added(q)
    BY <1>7, AddedNames
  <1>9. \A x \in DOMAIN R : Familiar(R[x], R)
    BY DEF Familiar
  <1> HIDE DEF R, B
  <1>10. Familiar(Definition(e), R)
    <2>1. CASE e \in DOMAIN B
      BY <1>5, <2>1, BindingsFrom DEF B, R
    <2>2. CASE e \notin DOMAIN B
      BY <1>4, <1>6, <1>9, <2>2
    <2> QED
      BY <2>1, <2>2
  <1>11. e.scope \in DOMAIN q.chips => Definition(e) = R[Unscoped(e)]
    <2>1. CASE e \in DOMAIN B
      BY <1>5, <2>1, BindingsFrom DEF B, R
    <2> QED
      BY <1>6, <2>1
  <1> QED
    BY <1>3, <1>4, <1>5, <1>6, <1>7, <1>8, <1>10, <1>11 DEF R, B

-----------------------------------------------------------------------------
(***************************************************************************)
(* The second call of a plan: what it adds to the overlay changes nothing    *)
(* for what the first call found.                                           *)
(***************************************************************************)
\* An instance of a call.
Placed(i) == IsId(i) /\ Defined(i) /\ i.scope \in ScopesFor(Definition(i), job)

LEMMA PlacedInUniverse ==
  ASSUME WellFormed(job), NEW i \in Universe
  PROVE  Placed(i)
  BY UniverseOfIds DEF Placed, Universe

LEMMA SecondJob ==
  ASSUME NEW q, NEW more, job = Selection(q), job' = Second(q, more)
  PROVE  /\ job.table = q.table /\ job'.table = q.table
         /\ job.overlay = Bindings(q) /\ job'.overlay = With(Bindings(q), more)
         /\ job.chips = q.chips /\ job'.chips = q.chips
         /\ job.reuse = q.reuse /\ job'.reuse = q.reuse
  <1> DEFINE roots == ExportRoots(q) \o ParseDone(q)
             again == ExportRoots(q) \o <<Done>>
             b == Bindings(q)
             w == With(b, more)
  <1>1. job = Job(q, b, roots) /\ job' = Job(q, w, again)
    BY DEF Selection, Second
  <1> HIDE DEF roots, again, b, w
  <1> QED
    BY <1>1, JobParts DEF b, w

LEMMA DefinitionsKept ==
  ASSUME NEW q \in Requests, NEW more, DOMAIN more \subseteq Added(q),
         job = Selection(q), job' = Second(q, more),
         NEW e, IsId(e), Defined(e)
  PROVE  Defined(e)' /\ Definition(e)' = Definition(e)
  <1> DEFINE R == Tables[q.table]
             B == Bindings(q)
             W == With(B, more)
  <1>1. /\ job.overlay = B /\ job.table = q.table /\ job'.overlay = W /\ job'.table = q.table
    BY SecondJob
  <1>2. DOMAIN W = DOMAIN B \cup DOMAIN more /\ \A i \in DOMAIN B : W[i] = B[i]
    BY DEF With
  <1> HIDE DEF W
  <1>3. /\ e \notin Added(q) /\ Unscoped(e) \notin DOMAIN B
        /\ e \in DOMAIN B => Definition(e) = B[e]
        /\ e \notin DOMAIN B => Unscoped(e) \in DOMAIN R /\ Definition(e) = R[Unscoped(e)]
    BY SelectionFinds
  <1>4. Unscoped(e) \notin Added(q)
    <2>1. Unscoped(e).scope = NoScope
      BY IdParts
    <2> QED
      BY <2>1, AddedNames
  <1> HIDE DEF B, R
  <1>5. Unscoped(e) \notin DOMAIN W /\ (e \in DOMAIN W <=> e \in DOMAIN B)
    BY <1>2, <1>3, <1>4
  <1>6. Defined(e)' <=> e \in DOMAIN W \/ Unscoped(e) \in DOMAIN R
    BY <1>1, <1>5 DEF Defined, Registry, R
  <1>7. e \in DOMAIN W => Definition(e)' = W[e]
    BY <1>1 DEF Definition
  <1>8. e \notin DOMAIN W => Definition(e)' = R[Unscoped(e)]
    BY <1>1, <1>5 DEF Definition, Registry, R
  <1> QED
    BY <1>2, <1>3, <1>5, <1>6, <1>7, <1>8

LEMMA ScopesKept ==
  ASSUME NEW q \in Requests, NEW more, DOMAIN more \subseteq Added(q),
         job = Selection(q), job' = Second(q, more),
         NEW e, IsId(e), Defined(e), NEW s
  PROVE  /\ ScopeOf(e, s)' = ScopeOf(e, s)
         /\ Resolves(e, s) => Resolves(e, s)'
         /\ Resolved(e, s)' = Resolved(e, s)
  <1>1. Defined(e)' /\ Definition(e)' = Definition(e)
    BY DefinitionsKept
  <1>2. job.chips = job'.chips
    BY SecondJob
  <1>3. ScopeOf(e, s)' = ScopeOf(e, s)
    BY <1>1 DEF ScopeOf
  <1>4. Resolved(e, s)' = Resolved(e, s)
    BY <1>3 DEF Resolved
  <1>5. Resolves(e, s) => Resolves(e, s)'
    BY <1>1, <1>2, <1>3 DEF Resolves
  <1> QED
    BY <1>3, <1>4, <1>5

\* The resolvers answer alike.
LEMMA DependenciesKept ==
  ASSUME NEW q \in Requests, NEW more, DOMAIN more \subseteq Added(q),
         job = Selection(q), job' = Second(q, more), NEW i, Placed(i)
  PROVE  Placed(i)' /\ Definition(i)' = Definition(i) /\ Dependencies(i)' = Dependencies(i)
  <1> DEFINE R == Tables[q.table]
             d == Definition(i)
             r == Resolver(d)
             answer(j) == Resolve(r, i.scope, View(j))
             none == << >>
             first == Job(q, none, ExportRoots(q) \o ParseDone(q))
             second == Job(q, none, ExportRoots(q) \o <<Done>>)
  <1>1. Defined(i)' /\ Definition(i)' = d /\ IsId(i) /\ i.scope \in ScopesFor(d, job)
    BY DefinitionsKept DEF Placed
  <1>2. /\ r = NoResolver => /\ Dependencies(i) = d.deps \o none
                             /\ Dependencies(i)' = d.deps \o none
        /\ r # NoResolver => /\ Dependencies(i) = d.deps \o answer(job)
                             /\ Dependencies(i)' = d.deps \o answer(job')
    BY <1>1 DEF Dependencies
  <1>3. job.chips = q.chips /\ job'.chips = q.chips
    BY SecondJob
  <1>5. Placed(i)'
    <2>1. ScopesFor(Definition(i), job)' = ScopesFor(d, job)
      BY <1>1, <1>3 DEF ScopesFor
    <2> QED
      BY <1>1, <2>1 DEF Placed
  <1>6. r # NoResolver => answer(job) = answer(job')
    <2> SUFFICES ASSUME r # NoResolver PROVE answer(job) = answer(job')
      OBVIOUS
    <2>1. PICK x \in DOMAIN R : R[x].kind = d.kind /\ Resolver(R[x]) = r
      <3>1. Familiar(d, R)
        BY SelectionFinds DEF Placed
      <3> QED
        BY <3>1 DEF Familiar
    <2>2. first.chips = q.chips
      BY JobParts
    <2>3. i.scope \in ScopesFor(R[x], first)
      BY <1>1, <1>3, <2>1, <2>2 DEF ScopesFor
    <2>4. answer(first) = answer(second)
      BY <2>1, <2>3, BothBuildsAnswerAlike
    <2>5. View(first) = View(job)
      <3> DEFINE b == Bindings(q)
                 roots == ExportRoots(q) \o ParseDone(q)
      <3>1. job = Job(q, b, roots) /\ first = Job(q, none, roots)
        BY DEF Selection
      <3> HIDE DEF b, roots, none, first
      <3> QED
        BY <3>1, JobParts DEF View
    <2>6. View(second) = View(job')
      <3> DEFINE b == With(Bindings(q), more)
                 roots == ExportRoots(q) \o <<Done>>
      <3>1. job' = Job(q, b, roots) /\ second = Job(q, none, roots)
        BY DEF Second
      <3> HIDE DEF b, roots, none, second
      <3> QED
        BY <3>1, JobParts DEF View
    <2> QED
      BY <2>4, <2>5, <2>6
  <1>7. Dependencies(i)' = Dependencies(i)
    <2>1. CASE r = NoResolver
      BY <1>2, <2>1
    <2>2. CASE r # NoResolver
      <3>1. answer(job) = answer(job')
        BY <1>6, <2>2
      <3>2. Dependencies(i) = d.deps \o answer(job) /\ Dependencies(i)' = d.deps \o answer(job')
        BY <1>2, <2>2
      <3> HIDE DEF d, answer
      <3> QED
        BY <3>1, <3>2
    <2> QED
      BY <2>1, <2>2
  <1> QED
    BY <1>1, <1>5, <1>7

\* Nothing new has become necessary.
LEMMA NamedKept ==
  ASSUME NEW q \in Requests, NEW more, DOMAIN more \subseteq Added(q),
         job = Selection(q), job' = Second(q, more), NEW i, Placed(i),
         NEW ds, IdList(ds)
  PROVE  Named(i, ds)' \subseteq Named(i, ds)
  <1> DEFINE part(d) == {e \in {InstanceOn(d, s) : s \in DOMAIN job.chips} :
                           /\ e.scope \notin job.reuse
                           /\ Defined(e) => Supports(Definition(e), job.chips[e.scope])}
             name(d) == IF Definition(i).kind # "device" /\ d.stage = "DEVICE_PROCESSING"
                           /\ d.scope = NoScope
                        THEN part(d) ELSE {d}
  <1>1. Definition(i)' = Definition(i)
    BY DependenciesKept
  <1>2. job.chips = job'.chips /\ job.reuse = job'.reuse
    BY SecondJob
  <1>3. ASSUME NEW d, IsId(d) PROVE part(d)' \subseteq part(d)
    <2> SUFFICES ASSUME NEW e \in part(d)' PROVE e \in part(d)
      OBVIOUS
    <2>1. /\ e \in {InstanceOn(d, s) : s \in DOMAIN job.chips} /\ e.scope \notin job.reuse
          /\ Defined(e)' => Supports(Definition(e)', job.chips[e.scope])
      BY <1>2
    <2>2. IsId(e)
      BY <1>3, <2>1, IdParts
    <2>3. Defined(e) => Defined(e)' /\ Definition(e)' = Definition(e)
      BY <2>2, DefinitionsKept
    <2> QED
      BY <2>1, <2>3
  <1>4. /\ Named(i, ds) = UNION {name(d) : d \in Range(ds)}
        /\ Named(i, ds)' = UNION {name(d)' : d \in Range(ds)}
    BY Zenon DEF Named
  <1>5. \A d \in Range(ds) : IsId(d)
    BY DEF IdList
  <1> HIDE DEF part
  <1>6. \A d \in Range(ds) : name(d)' \subseteq name(d)
    BY <1>1, <1>3, <1>5
  <1> HIDE DEF name
  <1> QED
    BY <1>4, <1>6

LEMMA NeededKept ==
  ASSUME NEW q \in Requests, NEW more, DOMAIN more \subseteq Added(q),
         job = Selection(q), job' = Second(q, more), WellFormed(job),
         NEW i \in Universe,
         \A e \in DepNames(i) \cup CompNames(i) : Resolves(e, i.scope)
  PROVE  Needed(i)' \subseteq Needed(i)
  <1>1. Placed(i)
    BY PlacedInUniverse
  <1>2. /\ Definition(i)' = Definition(i) /\ Dependencies(i)' = Dependencies(i)
    BY <1>1, DependenciesKept
  <1>3. IdList(Dependencies(i)) /\ IdList(Definition(i).comps)
    BY DependenciesListed
  <1> DEFINE N == DepNames(i) \cup CompNames(i)
  <1>4. N' \subseteq N
    <2> DEFINE ds == Dependencies(i)
               cs == Definition(i).comps
    <2>1. ds' = ds /\ cs' = cs
      BY <1>2
    <2>2. /\ DepNames(i) = Named(i, ds) /\ DepNames(i)' = Named(i, ds)'
          /\ CompNames(i) = Named(i, cs) /\ CompNames(i)' = Named(i, cs)'
      BY DEF DepNames, CompNames
    <2>3. \A x : IdList(x) => Named(i, x)' \subseteq Named(i, x)
      BY <1>1, NamedKept
    <2>4. Named(i, ds)' \subseteq Named(i, ds)
      <3>1. PICK x : x = ds
        OBVIOUS
      <3>2. Named(i, ds)' = Named(i, x)' /\ Named(i, ds) = Named(i, x)
        BY <2>1, <3>1 DEF Named
      <3> QED
        BY <1>3, <2>3, <3>1, <3>2
    <2>5. Named(i, cs)' \subseteq Named(i, cs)
      <3>1. PICK x : x = cs
        OBVIOUS
      <3>2. Named(i, cs)' = Named(i, x)' /\ Named(i, cs) = Named(i, x)
        BY <2>1, <3>1 DEF Named
      <3> QED
        BY <1>3, <2>3, <3>1, <3>2
    <2> QED
      BY <2>2, <2>4, <2>5
  <1>5. /\ Needed(i) = {Resolved(e, i.scope) : e \in {e \in N : Resolves(e, i.scope)}}
        /\ Needed(i)' = {Resolved(e, i.scope)' : e \in {e \in N' : Resolves(e, i.scope)'}}
    BY Zenon DEF Needed, Instances
  <1>6. \A e \in N : IsId(e) /\ Resolves(e, i.scope)
    BY NeededKnown
  <1>7. \A e \in N : Resolves(e, i.scope)' /\ Resolved(e, i.scope)' = Resolved(e, i.scope)
    BY <1>6, ScopesKept DEF Resolves
  <1> HIDE DEF N
  <1> QED
    BY <1>4, <1>5, <1>6, <1>7

-----------------------------------------------------------------------------
(***************************************************************************)
(* What the second call is, of the graph the first one built: `G`.           *)
(***************************************************************************)
On(G, s) == {i \in G : i.stage = "DEVICE_PROCESSING" /\ i.scope = s}

\* The nodes that mark a device, `marks`, and those that end the graph.
Marking(marks, G, chips) ==
  /\ DOMAIN marks = {Ready(s) : s \in {s \in DOMAIN chips : On(G, s) # {}}}
  /\ \A s \in DOMAIN chips : On(G, s) # {} =>
       LET d == marks[Ready(s)]
       IN  /\ d.kind = "device" /\ Resolver(d) = NoResolver /\ IdList(d.deps) /\ IdList(d.comps)
           /\ Range(d.deps) \cup Range(d.comps) = On(G, s)
Ending(q, done) ==
  IF q.exporting
  THEN With(Only(Finalize, Callback("export", done \o ExportRoots(q))),
            Only(Done, Callback("profile", <<Finalize>>)))
  ELSE Only(Done, Callback("profile", done))

FinalFor(q, G, marks, done) ==
  /\ job = Second(q, With(marks, Ending(q, done)))
  /\ Marking(marks, G, q.chips)
  /\ IdList(done) /\ Range(done) = Range(ParseDone(q)) \cup DOMAIN marks
  /\ \A i \in G :
       /\ Placed(i) /\ Needed(i) \subseteq G /\ i \notin Added(q)
       /\ i.scope \in DOMAIN q.chips => /\ Unscoped(i) \in DOMAIN Tables[q.table]
                                        /\ Definition(i) = Tables[q.table][Unscoped(i)]
  /\ \A e \in Range(ExportRoots(q) \o ParseDone(q)) :
       Resolves(e, NoScope) /\ Resolved(e, NoScope) \in G
Bracketing == phase = "final" => \E G, marks, done : FinalFor(request, G, marks, done)

\* What it adds, of the graph that is built.
LEMMA ReadyNodesMark ==
  ASSUME Finished, NEW q \in Requests, job = Selection(q)
  PROVE  /\ Marking(ReadyNodes, Ids, q.chips)
         /\ DOMAIN With(ReadyNodes, Closing(q)) \subseteq Added(q)
  <1>1. job.chips = q.chips
    BY JobParts DEF Selection
  <1>2. \A s : ProcessesOf(s) = On(Ids, s)
    BY DEF ProcessesOf, On
  <1>3. Completed = {s \in DOMAIN q.chips : On(Ids, s) # {}}
    BY <1>1, <1>2 DEF Completed
  <1>4. /\ DOMAIN ReadyNodes = {Ready(s) : s \in Completed}
        /\ \A s \in Completed : ReadyNodes[Ready(s)] = ReadyNode(s)
    <2>1. \A s : Ready(s).scope = s
      BY ReadyParts
    <2> QED
      BY <2>1 DEF ReadyNodes
  <1>5. ASSUME NEW s \in DOMAIN q.chips
        PROVE  LET d == ReadyNode(s)
               IN  /\ d.kind = "device" /\ Resolver(d) = NoResolver
                   /\ IdList(d.deps) /\ IdList(d.comps)
                   /\ Range(d.deps) \cup Range(d.comps) = On(Ids, s)
    <2> DEFINE required == {i \in ProcessesOf(s) : Definition(i).mandatory}
               optional == {i \in ProcessesOf(s) : ~Definition(i).mandatory}
               c == Callback("device", Listed(required))
               d == [c EXCEPT !.comps = Listed(optional)]
    <2>1. /\ required \in SUBSET Ids /\ optional \in SUBSET Ids
          /\ required \cup optional = ProcessesOf(s)
      BY DEF ProcessesOf
    <2>2. ReadyNode(s) = d
      BY DEF ReadyNode
    <2> HIDE DEF required, optional
    <2>3. IsFiniteSet(required) /\ IsFiniteSet(optional)
      BY <2>1, IdsOfGraph, FS_Subset
    <2>4. Range(Listed(required)) = required /\ Range(Listed(optional)) = optional
      BY <2>3, ListedAll
    <2>5. {"deps", "comps"} \subseteq DOMAIN c /\ c.deps = Listed(required)
      BY DEF Callback, NoNode
    <2> HIDE DEF c
    <2>6. d.deps = Listed(required) /\ d.comps = Listed(optional)
      BY <2>5
    <2> HIDE DEF d
    <2>7. Range(ReadyNode(s).deps) \cup Range(ReadyNode(s).comps) = On(Ids, s)
      BY <1>2, <2>1, <2>2, <2>4, <2>6
    <2> QED
      BY <2>7, ReadyNodeShape DEF Shaped
  <1>6. Marking(ReadyNodes, Ids, q.chips)
    BY <1>3, <1>4, <1>5 DEF Marking
  <1>7. DOMAIN Closing(q) \subseteq {Finalize, Done}
    BY DEF Closing, With, Only
  <1>8. DOMAIN ReadyNodes \subseteq Added(q)
    BY <1>3, <1>4 DEF Added
  <1>9. DOMAIN With(ReadyNodes, Closing(q)) = DOMAIN ReadyNodes \cup DOMAIN Closing(q)
    BY DEF With
  <1> QED
    BY <1>6, <1>7, <1>8, <1>9 DEF Added

\* It is taken of the graph of a plan's first call.
LEMMA CompleteBrackets ==
  ASSUME Finished, NEW q \in Requests, job = Selection(q), job' = SecondCall(q)
  PROVE  \E G, marks, done : FinalFor(q, G, marks, done)'
  <1>1. PICK G : G = Ids
    OBVIOUS
  <1>2. PICK marks : marks = ReadyNodes
    OBVIOUS
  <1>3. PICK done : done = ParseDone(q) \o Listed(DOMAIN ReadyNodes)
    OBVIOUS
  <1> DEFINE more == With(marks, Ending(q, done))
  <1>4. Closing(q) = Ending(q, done)
    BY <1>3, Zenon DEF Closing, Ending
  <1>5. job' = Second(q, more)
    BY <1>2, <1>4, SecondIsJob
  <1>6. DOMAIN more \subseteq Added(q) /\ Marking(marks, G, q.chips)
    BY <1>1, <1>2, <1>4, ReadyNodesMark
  <1>7. IdList(done) /\ Range(done) = Range(ParseDone(q)) \cup DOMAIN marks
    <2>1. IdList(ParseDone(q)) /\ IdList(Listed(DOMAIN ReadyNodes))
      BY ParseDoneIds, ReadyNodesFit
    <2>2. IsFiniteSet(DOMAIN ReadyNodes)
      BY ReadyNodesFit DEF Fits, Collection
    <2>3. Range(Listed(DOMAIN ReadyNodes)) = DOMAIN marks
      BY <1>2, <2>2, ListedAll
    <2> QED
      BY <1>3, <2>1, <2>3, IdListConcat
  <1>8. WellFormed(job) /\ ~Refuted /\ G \in SUBSET Universe /\ \A i : i \in G <=> Reached(i)
    BY <1>1, FinishedBuildable, IdsClosed DEF Finished
  <1>9. job.roots = ExportRoots(q) \o ParseDone(q)
    <2> DEFINE b == Bindings(q)
               roots == ExportRoots(q) \o ParseDone(q)
    <2>1. job = Job(q, b, roots)
      BY DEF Selection
    <2> HIDE DEF b, roots
    <2>2. job.roots = roots
      BY <2>1, JobParts
    <2> QED
      BY <2>2 DEF roots
  <1> HIDE DEF more
  <1>10. ASSUME NEW i \in G
         PROVE  /\ Placed(i)' /\ Needed(i)' \subseteq G /\ i \notin Added(q)
                /\ i.scope \in DOMAIN q.chips =>
                     /\ Unscoped(i) \in DOMAIN Tables[q.table]
                     /\ Definition(i)' = Tables[q.table][Unscoped(i)]
    <2>1. i \in Universe /\ Reached(i) /\ Placed(i)
      BY <1>8, PlacedInUniverse
    <2>2. \A e \in DepNames(i) \cup CompNames(i) : Resolves(e, i.scope)
      BY <1>8, <2>1 DEF Refuted
    <2>3. Placed(i)' /\ Definition(i)' = Definition(i)
      BY <1>5, <1>6, <2>1, DependenciesKept
    <2>4. Needed(i)' \subseteq Needed(i)
      BY <1>5, <1>6, <1>8, <2>1, <2>2, NeededKept
    <2>5. Needed(i) \subseteq G
      <3> SUFFICES ASSUME NEW x \in Needed(i) PROVE Reached(x)
        BY <1>8
      <3>1. PICK e \in DepNames(i) \cup CompNames(i) : x = Resolved(e, i.scope)
        BY DEF Needed, Instances
      <3> QED
        BY <1>8, <2>1, <2>2, <3>1, ReachedFurther
    <2>6. i \notin Added(q) /\ (i.scope \in DOMAIN q.chips =>
                                  Definition(i) = Tables[q.table][Unscoped(i)])
      BY <2>1, SelectionFinds DEF Placed
    <2>7. i.scope \in DOMAIN q.chips => Unscoped(i) \in DOMAIN Tables[q.table]
      <3>1. Unscoped(i) \in DOMAIN Tables[q.table] \/ i = ExportInit
        BY <2>1, SelectionFinds DEF Placed
      <3>2. ExportInit.scope = "export"
        BY DEF ExportInit, Id3
      <3> QED
        BY <3>1, <3>2, ScopesApart
    <2> QED
      BY <2>3, <2>4, <2>5, <2>6, <2>7
  <1>11. ASSUME NEW e \in Range(ExportRoots(q) \o ParseDone(q))
         PROVE  Resolves(e, NoScope)' /\ Resolved(e, NoScope)' \in G
    <2>1. e \in Range(job.roots) /\ IsId(e)
      BY <1>8, <1>9 DEF WellFormed, IdList
    <2>2. Resolves(e, NoScope) /\ Defined(e)
      BY <1>8, <2>1 DEF Refuted, Resolves
    <2>3. Resolved(e, NoScope) \in G
      BY <1>8, <2>1, <2>2, ReachedRoot
    <2>4. Resolves(e, NoScope)' /\ Resolved(e, NoScope)' = Resolved(e, NoScope)
      BY <1>5, <1>6, <2>1, <2>2, ScopesKept
    <2> QED
      BY <2>3, <2>4
  <1>12. FinalFor(q, G, marks, done)'
    BY <1>5, <1>6, <1>7, <1>10, <1>11 DEF FinalFor, more
  <1> QED
    BY <1>12

LEMMA SameFinal ==
  ASSUME job' = job, NEW q, NEW G, NEW marks, NEW done, FinalFor(q, G, marks, done)
  PROVE  FinalFor(q, G, marks, done)'
  <1>1. \A i : Placed(i)' <=> Placed(i)
    <2>1. \A d : ScopesFor(d, job)' = ScopesFor(d, job)
      BY DEF ScopesFor
    <2> QED
      BY <2>1, SameDefinitions DEF Placed
  <1>2. \A i : Needed(i)' = Needed(i)
    BY SameNeeds
  <1>3. \A i : Definition(i)' = Definition(i)
    BY SameDefinitions
  <1>4. \A e : (Resolves(e, NoScope)' <=> Resolves(e, NoScope))
               /\ Resolved(e, NoScope)' = Resolved(e, NoScope)
    BY SameScopes
  <1> QED
    BY <1>1, <1>2, <1>3, <1>4 DEF FinalFor

-----------------------------------------------------------------------------
(***************************************************************************)
(* What the second call's own nodes need.                                   *)
(***************************************************************************)
LEMMA ScopedNamed ==
  ASSUME NEW i, NEW ds, \A e \in Range(ds) : e.scope # NoScope
  PROVE  Named(i, ds) = Range(ds)
  <1> DEFINE part(d) == {e \in {InstanceOn(d, s) : s \in DOMAIN job.chips} :
                           /\ e.scope \notin job.reuse
                           /\ Defined(e) => Supports(Definition(e), job.chips[e.scope])}
             name(d) == IF Definition(i).kind # "device" /\ d.stage = "DEVICE_PROCESSING"
                           /\ d.scope = NoScope
                        THEN part(d) ELSE {d}
  <1>1. Named(i, ds) = UNION {name(d) : d \in Range(ds)}
    BY Zenon DEF Named
  <1> HIDE DEF part
  <1>2. \A d \in Range(ds) : name(d) = {d}
    OBVIOUS
  <1> HIDE DEF name
  <1> QED
    BY <1>1, <1>2

LEMMA NeedsOfCallback ==
  ASSUME NEW i, NEW kind \in {"device", "profile", "host", "export"}, NEW deps,
         IdList(deps), \A e \in Range(deps) : e.scope # NoScope,
         Definition(i) = Callback(kind, deps)
  PROVE  DepNames(i) = Range(deps) /\ CompNames(i) = {}
  <1> DEFINE d == Definition(i)
             none == << >>
             more == IF Resolver(d) = NoResolver THEN none
                     ELSE Resolve(Resolver(d), i.scope, View(job))
  <1>1. Resolver(d) = NoResolver /\ d.deps = deps /\ d.comps = << >>
    <2>1. d.deps = deps /\ d.comps = << >>
      BY DEF Callback, NoNode
    <2>2. Resolver(d) = NoResolver
      BY CallbackShape
    <2> QED
      BY <2>1, <2>2
  <1>2. Dependencies(i) = d.deps \o more
    BY DEF Dependencies
  <1> HIDE DEF d
  <1>3. more = none
    BY <1>1
  <1> HIDE DEF more
  <1>4. Dependencies(i) = deps
    <2>1. deps \in Seq(Range(deps))
      BY DEF IdList
    <2> QED
      BY <1>1, <1>2, <1>3, <2>1
  <1>5. Range(<< >>) = {}
    BY IdListEmpty
  <1>6. DepNames(i) = Named(i, deps) /\ CompNames(i) = Named(i, << >>)
    BY <1>1, <1>4 DEF DepNames, CompNames, d
  <1> QED
    BY <1>5, <1>6, ScopedNamed

\* The node that marks a device complete needs the operations of that device.
LEMMA NeedsOfMark ==
  ASSUME NEW i, NEW S, \A e \in S : e.scope # NoScope,
         LET d == Definition(i)
         IN  /\ d.kind = "device" /\ Resolver(d) = NoResolver /\ IdList(d.deps) /\ IdList(d.comps)
             /\ Range(d.deps) \cup Range(d.comps) = S
  PROVE  DepNames(i) \cup CompNames(i) = S
  <1> DEFINE d == Definition(i)
             none == << >>
             more == IF Resolver(d) = NoResolver THEN none
                     ELSE Resolve(Resolver(d), i.scope, View(job))
  <1>1. Dependencies(i) = d.deps \o more
    BY DEF Dependencies
  <1>2. Resolver(d) = NoResolver /\ d.deps \in Seq(Range(d.deps))
    BY DEF IdList
  <1>3. Range(d.deps) \cup Range(d.comps) = S
    OBVIOUS
  <1> HIDE DEF d
  <1>4. more = none
    BY <1>2
  <1> HIDE DEF more
  <1>5. Dependencies(i) = d.deps
    BY <1>1, <1>2, <1>4
  <1>6. DepNames(i) = Named(i, d.deps) /\ CompNames(i) = Named(i, d.comps)
    BY <1>5 DEF DepNames, CompNames, d
  <1> QED
    BY <1>3, <1>6, ScopedNamed

\* What the end of a run waits for names its scope.
LEMMA RootsScoped ==
  ASSUME NEW q \in Requests
  PROVE  /\ \A e \in Range(ExportRoots(q)) : e.scope # NoScope
         /\ \A e \in Range(ParseDone(q)) : e.scope # NoScope
  <1>1. ASSUME NEW e \in Range(ExportRoots(q)) PROVE e.scope # NoScope
    <2>1. Len(q.roots) \in Nat /\ \A k \in 1..Len(q.roots) : IsId(q.roots[k])
      <3>1. IdList(q.roots)
        BY RequestTable
      <3>2. Len(q.roots) \in Nat /\ \A k \in 1..Len(q.roots) : q.roots[k] \in Range(q.roots)
        BY <3>1 DEF IdList, Range
      <3> QED
        BY <3>1, <3>2 DEF IdList
    <2>2. PICK k \in 1..Len(q.roots) : e = InstanceOn(q.roots[k], "export")
      BY <2>1 DEF ExportRoots, Range
    <2>3. e.scope = "export"
      <3>1. e = [stage |-> q.roots[k].stage, name |-> q.roots[k].name, scope |-> "export"]
        BY <2>1, <2>2, IdParts
      <3> QED
        BY <3>1
    <2> QED
      BY <2>3, ScopesApart
  <1> DEFINE scopes == Listed(DOMAIN q.chips)
             parts == [k \in 1..Len(scopes) |-> Parsing(q, scopes[k])]
             S == {i : i \in UNION {Range(Parsing(q, s)) : s \in DOMAIN q.chips}}
  <1>2. scopes \in Seq(DOMAIN q.chips)
    BY RequestTable, ListedAll DEF Scopes
  <1>3. Len(scopes) \in Nat /\ \A k \in 1..Len(scopes) : scopes[k] \in DOMAIN q.chips
    BY <1>2
  <1>4. ParseDone(q) = <<Load>> \o ParseRoots(q) \o FlattenSeq(parts)
    BY Zenon DEF ParseDone
  <1> HIDE DEF scopes
  <1>5. \A k \in 1..Len(scopes) : Parsing(q, scopes[k]) \in Seq(S)
    <2> SUFFICES ASSUME NEW k \in 1..Len(scopes) PROVE Parsing(q, scopes[k]) \in Seq(S)
      OBVIOUS
    <2> DEFINE s == Parsing(q, scopes[k])
    <2>1. s \in Seq(Range(s)) /\ Range(s) \subseteq S
      BY <1>3, ParsingIds DEF IdList
    <2> HIDE DEF s, S
    <2> QED
      BY <2>1, SeqMonotonic DEF s
  <1>6. \A e \in S : IsId(e) /\ e.scope # NoScope
    <2> SUFFICES ASSUME NEW s \in DOMAIN q.chips, NEW e \in Range(Parsing(q, s))
                 PROVE  IsId(e) /\ e.scope = s
      BY ScopesApart
    <2>1. IsId(e)
      BY ParsingIds DEF IdList
    <2>2. CASE Parsing(q, s) = <<Init1(s)>>
      <3>1. e = Init1(s)
        BY <2>2 DEF Range
      <3>2. IsId(Dev("Device.Init"))
        BY IdsAreIds DEF Dev
      <3>3. e = [stage |-> Dev("Device.Init").stage, name |-> Dev("Device.Init").name, scope |-> s]
        BY <3>1, <3>2, IdParts DEF Init1
      <3> QED
        BY <2>1, <3>3
    <2>3. CASE Parsing(q, s) = Listed(OperationsOf(q, s))
      <3>1. OperationsOf(q, s) \in SUBSET DOMAIN DeviceBindings(q)
        BY DEF OperationsOf
      <3>2. IsFiniteSet(OperationsOf(q, s))
        BY <3>1, DeviceBindingsFinite, FS_Subset
      <3>3. e \in OperationsOf(q, s)
        BY <2>3, <3>2, ListedAll
      <3> QED
        BY <2>1, <3>3 DEF OperationsOf
    <2>4. CASE Parsing(q, s) = << >>
      BY <2>4, IdListEmpty
    <2> QED
      BY <2>2, <2>3, <2>4 DEF Parsing
  <1> HIDE DEF S
  <1>7. parts \in Seq(Seq(S))
    BY <1>3, <1>5
  <1> HIDE DEF parts
  <1>8. FlattenSeq(parts) \in Seq(S)
    BY <1>7, FlattenRange
  <1>9. IdList(FlattenSeq(parts)) /\ Range(FlattenSeq(parts)) \subseteq S
    BY <1>6, <1>8, IdListOf
  <1>10. /\ IdList(<<Load>>) /\ Range(<<Load>>) = {Load}
         /\ IdList(ParseRoots(q)) /\ Range(ParseRoots(q)) \subseteq {HostC}
    <2>1. Range(<<Load>>) = {Load} /\ Range(<<HostC>>) = {HostC} /\ Range(<< >>) = {}
      BY DEF Range
    <2> QED
      BY <2>1, IdsAreIds, IdListOne, ParseRootsIds DEF Load, ParseRoots
  <1>11. Range(ParseDone(q)) \subseteq {Load, HostC} \cup S
    <2>1. /\ IdList(<<Load>> \o ParseRoots(q))
          /\ Range(<<Load>> \o ParseRoots(q)) \subseteq {Load, HostC}
      BY <1>10, IdListConcat
    <2> QED
      BY <1>4, <1>9, <2>1, IdListConcat
  <1>12. Load.scope = "profile" /\ HostC.scope = "host"
    BY DEF Load, HostC, Id3
  <1> QED
    BY <1>1, <1>6, <1>11, <1>12, ScopesApart

-----------------------------------------------------------------------------
(***************************************************************************)
(* The graph of a plan's second call.                                       *)
(***************************************************************************)
\* A name with a scope stands for itself.
LEMMA ScopedResolved ==
  ASSUME NEW e, IsId(e), e.scope # NoScope, NEW s, Resolves(e, s)
  PROVE  Resolved(e, s) = e
  <1>1. e.scope = ScopeOf(e, s)
    BY DEF Resolves
  <1>2. e = [stage |-> e.stage, name |-> e.name, scope |-> e.scope]
    BY DEF IsId
  <1>3. Resolved(e, s) = InstanceOn(e, e.scope)
    BY <1>1 DEF Resolved, InstanceOn
  <1> QED
    BY <1>2, <1>3, IdParts

LEMMA FinalJob ==
  ASSUME NEW q, NEW more, job = Second(q, more)
  PROVE  /\ job.table = q.table /\ job.overlay = With(Bindings(q), more)
         /\ job.chips = q.chips /\ job.roots = ExportRoots(q) \o <<Done>>
  <1> DEFINE again == ExportRoots(q) \o <<Done>>
             w == With(Bindings(q), more)
  <1>1. job = Job(q, w, again)
    BY DEF Second
  <1> HIDE DEF again, w
  <1>2. job.table = q.table /\ job.overlay = w /\ job.chips = q.chips /\ job.roots = again
    BY <1>1, JobParts
  <1> QED
    BY <1>2 DEF w, again

LEMMA AddedDefinitions ==
  ASSUME NEW q \in Requests, NEW G, NEW marks, NEW done, FinalFor(q, G, marks, done)
  PROVE  /\ \A s \in DOMAIN q.chips : On(G, s) # {} =>
              Defined(Ready(s)) /\ Definition(Ready(s)) = marks[Ready(s)]
         /\ q.exporting => /\ Definition(Done) = Callback("profile", <<Finalize>>)
                           /\ Definition(Finalize) = Callback("export", done \o ExportRoots(q))
         /\ ~q.exporting => Definition(Done) = Callback("profile", done)
         /\ \A i \in DOMAIN job.overlay : i.scope # NoScope
  <1> DEFINE B == Bindings(q)
             E == Ending(q, done)
             more == With(marks, E)
             W == With(B, more)
  <1>1. job.overlay = W
    BY FinalJob DEF FinalFor
  <1>2. Finalize.scope = "export" /\ Done.scope = "profile"
    BY DEF Finalize, Done, Id3
  <1>3. DOMAIN marks = {Ready(s) : s \in {s \in DOMAIN q.chips : On(G, s) # {}}}
    BY DEF FinalFor, Marking
  <1>4. Finalize \notin DOMAIN marks /\ Done \notin DOMAIN marks /\ Finalize # Done
    <2>1. \A s \in DOMAIN q.chips : Ready(s).scope \notin {"profile", "host", "export"}
      BY ReadyParts, ScopesApart
    <2> QED
      BY <1>2, <1>3, <2>1
  <1>5. /\ q.exporting => /\ DOMAIN E = {Finalize, Done}
                          /\ E[Done] = Callback("profile", <<Finalize>>)
                          /\ E[Finalize] = Callback("export", done \o ExportRoots(q))
        /\ ~q.exporting => DOMAIN E = {Done} /\ E[Done] = Callback("profile", done)
    <2> DEFINE c == Callback("profile", <<Finalize>>)
               f == Callback("export", done \o ExportRoots(q))
               l == Callback("profile", done)
    <2>1. q.exporting => E = With(Only(Finalize, f), Only(Done, c))
      BY DEF Ending
    <2>2. ~q.exporting => E = Only(Done, l)
      BY DEF Ending
    <2> HIDE DEF c, f, l, E
    <2> QED
      BY <1>4, <2>1, <2>2 DEF With, Only, c, f, l
  <1> HIDE DEF E, B
  <1>6. /\ DOMAIN more = DOMAIN marks \cup DOMAIN E
        /\ \A x \in DOMAIN marks : more[x] = marks[x]
        /\ \A x \in DOMAIN E \ DOMAIN marks : more[x] = E[x]
    BY DEF With
  <1> HIDE DEF more
  <1>7. DOMAIN more \subseteq Added(q)
    BY <1>3, <1>5, <1>6 DEF Added
  <1>8. \A x \in DOMAIN more : x \notin DOMAIN B
    BY <1>7, AddedNames DEF B
  <1>9. /\ DOMAIN W = DOMAIN B \cup DOMAIN more
        /\ \A x \in DOMAIN more : W[x] = more[x]
    BY <1>8 DEF With
  <1> HIDE DEF W
  <1>10. \A x \in DOMAIN more : Defined(x) /\ Definition(x) = more[x]
    BY <1>1, <1>9 DEF Defined, Definition
  <1>11. \A i \in DOMAIN W : i.scope # NoScope
    BY <1>7, <1>9, AddedNames, BindingsFrom, ScopesApart DEF B
  <1>12. \A s \in DOMAIN q.chips : On(G, s) # {} => Ready(s) \in DOMAIN marks
    BY <1>3
  <1> QED
    BY <1>1, <1>4, <1>5, <1>6, <1>10, <1>11, <1>12

LEMMA FinalNeeds ==
  ASSUME NEW q \in Requests, NEW G, NEW marks, NEW done, FinalFor(q, G, marks, done)
  PROVE  /\ \A s \in DOMAIN q.chips : On(G, s) # {} =>
              DepNames(Ready(s)) \cup CompNames(Ready(s)) = On(G, s)
         /\ q.exporting =>
              /\ DepNames(Done) \cup CompNames(Done) = {Finalize}
              /\ DepNames(Finalize) \cup CompNames(Finalize)
                   = Range(done) \cup Range(ExportRoots(q))
         /\ ~q.exporting => DepNames(Done) \cup CompNames(Done) = Range(done)
         /\ \A e \in Range(done) \cup Range(ExportRoots(q)) \cup DOMAIN marks
                      \cup {Finalize, Done} :
              IsId(e) /\ e.scope # NoScope
         /\ \A e \in Range(done) \cup Range(ExportRoots(q)) : e \in G \cup DOMAIN marks
  <1>1. \A i \in Added(q) : IsId(i) /\ i.scope # NoScope
    BY AddedNames
  <1>2. DOMAIN marks \subseteq Added(q) /\ {Finalize, Done} \subseteq Added(q)
    BY DEF FinalFor, Marking, Added
  <1>3. /\ IdList(done) /\ IdList(ExportRoots(q)) /\ IdList(ParseDone(q))
        /\ Range(done) = Range(ParseDone(q)) \cup DOMAIN marks
    BY ExportRootsIds, ParseDoneIds DEF FinalFor
  <1>4. \A e \in Range(ParseDone(q)) \cup Range(ExportRoots(q)) : IsId(e) /\ e.scope # NoScope
    BY <1>3, RootsScoped DEF IdList
  <1>5. \A e \in Range(done) \cup Range(ExportRoots(q)) \cup DOMAIN marks \cup {Finalize, Done} :
          IsId(e) /\ e.scope # NoScope
    BY <1>1, <1>2, <1>3, <1>4
  <1>6. \A e \in Range(ExportRoots(q)) \cup Range(ParseDone(q)) : e \in G
    <2> SUFFICES ASSUME NEW e \in Range(ExportRoots(q)) \cup Range(ParseDone(q)) PROVE e \in G
      OBVIOUS
    <2>1. e \in Range(ExportRoots(q) \o ParseDone(q))
      BY <1>3, IdListConcat
    <2>2. Resolves(e, NoScope) /\ Resolved(e, NoScope) \in G
      BY <2>1 DEF FinalFor
    <2> QED
      BY <1>4, <2>2, ScopedResolved
  <1>7. ASSUME NEW s \in DOMAIN q.chips, On(G, s) # {}
        PROVE  DepNames(Ready(s)) \cup CompNames(Ready(s)) = On(G, s)
    <2>1. \A e \in On(G, s) : e.scope # NoScope
      BY <1>7, ScopesApart DEF On
    <2>2. LET d == Definition(Ready(s))
          IN  /\ d.kind = "device" /\ Resolver(d) = NoResolver /\ IdList(d.deps) /\ IdList(d.comps)
              /\ Range(d.deps) \cup Range(d.comps) = On(G, s)
      BY <1>7, AddedDefinitions DEF FinalFor, Marking
    <2> QED
      BY <2>1, <2>2, NeedsOfMark
  <1>8. ASSUME q.exporting
        PROVE  /\ DepNames(Done) \cup CompNames(Done) = {Finalize}
               /\ DepNames(Finalize) \cup CompNames(Finalize)
                    = Range(done) \cup Range(ExportRoots(q))
    <2> DEFINE all == done \o ExportRoots(q)
    <2>1. Definition(Done) = Callback("profile", <<Finalize>>)
          /\ Definition(Finalize) = Callback("export", all)
      BY <1>8, AddedDefinitions
    <2>2. IdList(<<Finalize>>) /\ Range(<<Finalize>>) = {Finalize}
      <3>1. Range(<<Finalize>>) = {Finalize}
        BY DEF Range
      <3> QED
        BY <1>5, <3>1, IdListOne
    <2>3. IdList(all) /\ Range(all) = Range(done) \cup Range(ExportRoots(q))
      BY <1>3, IdListConcat
    <2> HIDE DEF all
    <2>4. DepNames(Done) = {Finalize} /\ CompNames(Done) = {}
      BY <1>5, <2>1, <2>2, NeedsOfCallback
    <2>5. DepNames(Finalize) = Range(all) /\ CompNames(Finalize) = {}
      BY <1>5, <2>1, <2>3, NeedsOfCallback
    <2> QED
      BY <2>3, <2>4, <2>5
  <1>9. ASSUME ~q.exporting PROVE DepNames(Done) \cup CompNames(Done) = Range(done)
    BY <1>3, <1>5, <1>9, AddedDefinitions, NeedsOfCallback
  <1> QED
    BY <1>3, <1>5, <1>6, <1>7, <1>8, <1>9

-----------------------------------------------------------------------------
(***************************************************************************)
(* What is in the second graph.                                             *)
(***************************************************************************)
LEMMA NamesMet ==
  ASSUME Finished, NEW i \in Ids, NEW e \in DepNames(i) \cup CompNames(i)
  PROVE  /\ IsId(e) /\ Resolves(e, i.scope)
         /\ Resolved(e, i.scope) \in Ids /\ Resolved(e, i.scope) \in Needed(i)
  <1>1. WellFormed(job) /\ ~Refuted /\ i \in Universe /\ Reached(i)
    BY FinishedBuildable, IdsClosed DEF Finished
  <1>2. Resolves(e, i.scope)
    BY <1>1 DEF Refuted
  <1>3. IsId(e)
    BY <1>1, NeededKnown
  <1> QED
    BY <1>1, <1>2, <1>3, ReachedFurther, IdsClosed

\* A name with a scope is in the graph if it is named there.
LEMMA ScopedMet ==
  ASSUME Finished, NEW i \in Ids, NEW e \in DepNames(i) \cup CompNames(i), e.scope # NoScope
  PROVE  e \in Ids
  BY NamesMet, ScopedResolved

LEMMA RootsOfSecond ==
  ASSUME NEW q \in Requests, NEW more, job = Second(q, more)
  PROVE  /\ Range(job.roots) = Range(ExportRoots(q)) \cup {Done}
         /\ IsId(Done) /\ Done.scope = "profile" /\ Done.scope # NoScope
  <1>1. IsId(Done) /\ Done.scope = "profile"
    BY IdsAreIds DEF Done, Id3
  <1>2. IdList(<<Done>>) /\ Range(<<Done>>) = {Done}
    <2>1. Range(<<Done>>) = {Done}
      BY DEF Range
    <2> QED
      BY <1>1, <2>1, IdListOne
  <1>3. Range(ExportRoots(q) \o <<Done>>) = Range(ExportRoots(q)) \cup {Done}
    BY <1>2, ExportRootsIds, IdListConcat
  <1>4. job.roots = ExportRoots(q) \o <<Done>>
    BY FinalJob
  <1> QED
    BY <1>1, <1>3, <1>4, ScopesApart

LEMMA DoneBuilt ==
  ASSUME Finished, NEW q \in Requests, NEW more, job = Second(q, more)
  PROVE  Done \in Ids
  <1>1. Done \in Range(job.roots) /\ IsId(Done) /\ Done.scope # NoScope
    BY RootsOfSecond
  <1>2. Resolves(Done, NoScope) /\ WellFormed(job)
    BY <1>1, FinishedBuildable DEF Refuted, Finished
  <1>3. Reached(Resolved(Done, NoScope))
    BY <1>1, <1>2, ReachedRoot
  <1> QED
    BY <1>1, <1>2, <1>3, ScopedResolved, IdsClosed

\* It holds nothing but what the first graph had and what was added.
Closers(q) == IF q.exporting THEN {Finalize, Done} ELSE {Done}

LEMMA IdsWithin ==
  ASSUME Finished, NEW q \in Requests, NEW G, NEW marks, NEW done, FinalFor(q, G, marks, done)
  PROVE  Ids \subseteq G \cup DOMAIN marks \cup Closers(q)
  <1> DEFINE All == G \cup DOMAIN marks \cup Closers(q)
             S == {i \in Universe : i \in All}
  <1>0. WellFormed(job)
    BY DEF Finished
  <1>1. \A e \in Range(job.roots) : IsId(e) /\ e.scope # NoScope /\ e \in All
    <2>1. Range(job.roots) = Range(ExportRoots(q)) \cup {Done} /\ IsId(Done)
          /\ Done.scope # NoScope
      BY RootsOfSecond DEF FinalFor
    <2>2. \A e \in Range(ExportRoots(q)) : IsId(e) /\ e.scope # NoScope /\ e \in G \cup DOMAIN marks
      BY FinalNeeds
    <2>3. Done \in Closers(q)
      BY DEF Closers
    <2> QED
      BY <2>1, <2>2, <2>3
  <1>2. Instances(Range(job.roots), NoScope) \subseteq S
    <2> SUFFICES ASSUME NEW e \in Range(job.roots), Resolves(e, NoScope)
                 PROVE  Resolved(e, NoScope) \in S
      BY DEF Instances
    <2>1. Resolved(e, NoScope) = e
      BY <1>1, ScopedResolved
    <2>2. Resolved(e, NoScope) \in Universe
      BY <1>0, <1>1, InstanceKnown
    <2> QED
      BY <1>1, <2>1, <2>2
  <1>3. ASSUME NEW i \in S, NEW x \in Needed(i) PROVE x \in S
    <2>1. i \in Universe /\ x \in Universe
      BY <1>0, <1>3, NeededKnown
    <2> SUFFICES x \in All
      BY <2>1
    <2>2. PICK e \in DepNames(i) \cup CompNames(i) :
            Resolves(e, i.scope) /\ x = Resolved(e, i.scope)
      BY <1>3 DEF Needed, Instances
    <2>3. IsId(e)
      BY <1>0, <2>1, NeededKnown
    <2>4. e.scope # NoScope /\ e \in All => x \in All
      BY <2>2, <2>3, ScopedResolved
    <2>5. CASE i \in G
      BY <1>3, <2>5 DEF FinalFor
    <2>6. CASE i \in DOMAIN marks
      <3>1. PICK s \in DOMAIN q.chips : On(G, s) # {} /\ i = Ready(s)
        BY <2>6 DEF FinalFor, Marking
      <3>2. e \in On(G, s)
        BY <2>2, <3>1, FinalNeeds
      <3>3. e \in G /\ e.scope # NoScope
        BY <3>2, ScopesApart DEF On
      <3> QED
        BY <2>4, <3>3
    <2>7. CASE i \in Closers(q)
      <3>1. \/ q.exporting /\ i = Done /\ e = Finalize
            \/ e \in Range(done) \cup Range(ExportRoots(q))
        BY <2>2, <2>7, FinalNeeds DEF Closers
      <3>2. e.scope # NoScope
        BY <3>1, FinalNeeds
      <3>3. e \in All
        BY <3>1, FinalNeeds DEF Closers
      <3> QED
        BY <2>4, <3>2, <3>3
    <2>8. i \in G \/ i \in DOMAIN marks \/ i \in Closers(q)
      BY <1>3
    <2> QED
      BY <2>5, <2>6, <2>7, <2>8
  <1>4. Closed(S) /\ S \in SUBSET Universe
    BY <1>2, <1>3 DEF Closed
  <1> HIDE DEF All
  <1>5. \A i \in Ids : i \in S
    BY <1>4, IdsClosed DEF Reached
  <1> QED
    BY <1>5 DEF All

LEMMA InputsAreNeeds ==
  ASSUME Finished, NEW k \in 1..Len(processes), NEW j \in 1..Len(processes)
  PROVE  j \in Inputs(processes[k]) <=> processes[j].id \in Needed(processes[k].id)
  <1> DEFINE p == processes[k]
             deps == Instances(DepNames(p.id), p.id.scope)
             comps == Instances(CompNames(p.id), p.id.scope)
             D == Range(p.dep)
             C == Range(p.comp)
  <1>1. {processes[m].id : m \in D} = deps /\ {processes[m].id : m \in C} = comps \ deps
    BY EdgesExact DEF KeysOf
  <1>2. Needed(p.id) = deps \cup comps
    BY DEF Needed, Instances
  <1>3. GraphWell(processes) /\ Len(processes) \in Nat
    BY InputsBefore DEF Finished, IInv
  <1>4. D \cup C \subseteq 1..Len(processes)
    <2>1. Inputs(p) \subseteq 1..(k - 1)
      BY <1>3, InputsBefore
    <2>2. Inputs(p) = D \cup C
      BY DEF Inputs
    <2> QED
      BY <1>3, <2>1, <2>2
  <1>5. \A m \in 1..Len(processes) : processes[m].id = processes[j].id => m = j
    BY <1>3 DEF GraphWell, WellFounded
  <1>6. j \in Inputs(processes[k]) <=> j \in D \cup C
    BY DEF Inputs
  <1> HIDE DEF deps, comps, D, C
  <1>7. processes[j].id \in Needed(p.id)
          <=> \E m \in D \cup C : processes[m].id = processes[j].id
    BY <1>1, <1>2
  <1> QED
    BY <1>4, <1>5, <1>6, <1>7

\* Whatever the first graph had on a device is what Device.Init is, or needs it.
LEMMA OperationsInitialised ==
  ASSUME Finished, NEW q \in Requests, NEW G, NEW marks, NEW done, FinalFor(q, G, marks, done),
         NEW s \in DOMAIN q.chips, NEW j \in On(G, s), j \in Ids
  PROVE  j = Init1(s) \/ (Init1(s) \in Needed(j) /\ Init1(s) \in Ids)
  <1> DEFINE R == Tables[q.table]
             init == Dev("Device.Init")
             u == Unscoped(j)
  <1>0. R = Tables[q.table] /\ q.table \in DOMAIN Tables
    BY RequestsAreWellFormed
  <1>1. /\ \A i \in DOMAIN R : R[i].kind = "device" => i = init \/ init \in Range(R[i].deps)
        /\ init \in DOMAIN R => R[init].kind = "device"
    BY <1>0, DevicesAreInitialised
  <1>2. j \in G /\ j.scope = s /\ Placed(j) /\ u \in DOMAIN R /\ Definition(j) = R[u]
    BY DEF On, FinalFor
  <1>3. /\ job.table = q.table /\ job.chips = q.chips
        /\ \A i \in DOMAIN job.overlay : i.scope # NoScope
    BY FinalJob, AddedDefinitions DEF FinalFor
  <1>4. IsId(init) /\ init.scope = NoScope
    BY IdsAreIds DEF Dev, Id3, NoScope
  <1> HIDE DEF R, init, u
  <1>5. Definition(j).kind = "device"
    <2>1. Shaped(Definition(j))
      BY <1>2, Given DEF Placed, Finished
    <2>2. s \in ScopesFor(Definition(j), job)
      BY <1>2 DEF Placed
    <2>3. s \notin {"profile", "host", "export"}
      BY ScopesApart
    <2> QED
      BY <2>1, <2>2, <2>3 DEF Shaped, ScopesFor
  <1>6. CASE u = init
    <2>1. j = [stage |-> j.stage, name |-> j.name, scope |-> s] /\ IsId(j)
      BY <1>2 DEF Placed, IsId
    <2>2. init = [stage |-> j.stage, name |-> j.name, scope |-> NoScope]
      BY <1>6, <2>1, IdParts DEF u
    <2>3. Init1(s) = [stage |-> init.stage, name |-> init.name, scope |-> s]
      BY <1>4, IdParts DEF Init1, init
    <2>4. init.stage = j.stage /\ init.name = j.name
      BY <2>2
    <2> QED
      BY <2>1, <2>3, <2>4
  <1>7. CASE u # init
    <2>1. init \in Range(Definition(j).deps)
      BY <1>1, <1>2, <1>5, <1>7
    <2>2. init \in DepNames(j)
      <3> DEFINE d == Definition(j)
                 more == IF Resolver(d) = NoResolver THEN << >>
                         ELSE Resolve(Resolver(d), j.scope, View(job))
      <3>1. WellFormed(job) /\ j \in Universe
        BY IdsClosed DEF Finished
      <3>2. Shaped(d) /\ Answers(d, job) /\ j.scope \in ScopesFor(d, job)
        BY <1>2, <3>1, Given DEF Placed
      <3>3. IdList(more)
        BY <3>2, IdListEmpty DEF Answers
      <3>4. Dependencies(j) = d.deps \o more
        BY DEF Dependencies
      <3>5. DepNames(j) = Range(Dependencies(j))
        BY <1>5, <3>1, NamedIsListed, DependenciesListed DEF DepNames
      <3>6. IdList(d.deps) /\ init \in Range(d.deps)
        BY <2>1, <3>2 DEF Shaped
      <3> HIDE DEF d, more
      <3> QED
        BY <3>3, <3>4, <3>5, <3>6, IdListConcat
    <2>3. Resolves(init, s) /\ Resolved(init, s) \in Needed(j) /\ Resolved(init, s) \in Ids
      BY <1>2, <2>2, NamesMet
    <2>4. init \in DOMAIN R /\ Definition(init) = R[init]
      <3>1. Unscoped(init) = init
        BY <1>4, IdParts
      <3>2. init \notin DOMAIN job.overlay
        BY <1>3, <1>4
      <3> QED
        BY <1>3, <2>3, <3>1, <3>2 DEF Resolves, Defined, Definition, Registry, R
    <2>5. ScopeOf(init, s) = s
      BY <1>1, <1>4, <2>4 DEF ScopeOf
    <2>6. Resolved(init, s) = Init1(s)
      BY <2>5 DEF Resolved, InstanceOn, Init1, init
    <2> QED
      BY <2>3, <2>6
  <1> QED
    BY <1>6, <1>7

-----------------------------------------------------------------------------
(***************************************************************************)
(* A device in the second graph.                                            *)
(***************************************************************************)
LEMMA OwnNames ==
  ASSUME NEW s
  PROVE  /\ Ready(s).stage = "DEVICE_PROCESSING" /\ Ready(s).scope = s
         /\ Init1(s).stage = "DEVICE_PROCESSING" /\ Init1(s).scope = s
         /\ Init1(s) # Ready(s)
         /\ Finalize.scope = "export" /\ Done.scope = "profile"
  <1> DEFINE of(n) == [stage |-> "DEVICE_PROCESSING", name |-> n, scope |-> s]
  <1>1. /\ Dev("Device.Ready") = Id3("DEVICE_PROCESSING", "Device.Ready", NoScope)
        /\ Dev("Device.Init") = Id3("DEVICE_PROCESSING", "Device.Init", NoScope)
    BY DEF Dev, NoScope
  <1>2. Ready(s) = of("Device.Ready") /\ Init1(s) = of("Device.Init")
    BY <1>1, IdsAreIds, IdParts DEF Ready, Init1, Id3
  <1>3. of("Device.Ready").name = "Device.Ready" /\ of("Device.Init").name = "Device.Init"
    OBVIOUS
  <1> QED
    BY <1>2, <1>3 DEF Finalize, Done, Id3

\* The end of the graph needs what marks the device.
Awaited(s) ==
  \/ Ready(s) \in Needed(Done)
  \/ Finalize \in Ids /\ Finalize \in Needed(Done) /\ Ready(s) \in Needed(Finalize)

LEMMA MarkAwaited ==
  ASSUME Finished, NEW q \in Requests, NEW G, NEW marks, NEW done, FinalFor(q, G, marks, done),
         NEW s \in DOMAIN q.chips, On(G, s) # {}
  PROVE  Ready(s) \in Ids /\ Awaited(s)
  <1>1. Done \in Ids
    BY DoneBuilt DEF FinalFor
  <1>2. Ready(s) \in Range(done)
    BY DEF FinalFor, Marking
  <1>3. ASSUME NEW i \in Ids, NEW e \in DepNames(i) \cup CompNames(i), e.scope # NoScope
        PROVE  e \in Ids /\ e \in Needed(i)
    BY <1>3, NamesMet, ScopedResolved
  <1>4. Ready(s).scope # NoScope /\ Finalize.scope # NoScope
    BY OwnNames, ScopesApart
  <1>5. CASE q.exporting
    <2>1. Finalize \in Ids /\ Finalize \in Needed(Done)
      BY <1>1, <1>3, <1>4, <1>5, FinalNeeds
    <2>2. Ready(s) \in Ids /\ Ready(s) \in Needed(Finalize)
      BY <1>2, <1>3, <1>4, <1>5, <2>1, FinalNeeds
    <2> QED
      BY <2>1, <2>2 DEF Awaited
  <1>6. CASE ~q.exporting
    BY <1>1, <1>2, <1>3, <1>4, <1>6, FinalNeeds DEF Awaited
  <1> QED
    BY <1>5, <1>6

LEMMA DeviceMarked ==
  ASSUME Finished, NEW q \in Requests, NEW G, NEW marks, NEW done, FinalFor(q, G, marks, done),
         NEW s \in DOMAIN q.chips, On(Ids, s) # {}
  PROVE  /\ Ready(s) \in Ids /\ Awaited(s) /\ Done \in Ids
         /\ On(Ids, s) = On(G, s) \cup {Ready(s)} /\ Ready(s) \notin On(G, s)
         /\ Needed(Ready(s)) = On(G, s)
         /\ Init1(s) \in On(G, s)
         /\ \A j \in On(G, s) : j = Init1(s) \/ Init1(s) \in Needed(j)
  <1>1. \A i \in On(Ids, s) : i \in On(G, s) \/ (i = Ready(s) /\ On(G, s) # {})
    <2> SUFFICES ASSUME NEW i \in On(Ids, s) PROVE i \in On(G, s) \/ (i = Ready(s) /\ On(G, s) # {})
      OBVIOUS
    <2>1. i \in G \cup DOMAIN marks \cup Closers(q) /\ i.scope = s /\ i.stage = "DEVICE_PROCESSING"
      BY IdsWithin DEF On
    <2>2. CASE i \in DOMAIN marks
      <3>1. PICK t \in DOMAIN q.chips : On(G, t) # {} /\ i = Ready(t)
        BY <2>2 DEF FinalFor, Marking
      <3> QED
        BY <2>1, <3>1, OwnNames
    <2>3. i \notin Closers(q)
      BY <2>1, OwnNames, ScopesApart DEF Closers
    <2> QED
      BY <2>1, <2>2, <2>3 DEF On
  <1>2. On(G, s) # {}
    BY <1>1
  <1>3. Ready(s) \in Ids /\ Awaited(s) /\ Done \in Ids
    BY <1>2, MarkAwaited, DoneBuilt DEF FinalFor
  <1>4. DepNames(Ready(s)) \cup CompNames(Ready(s)) = On(G, s)
    BY <1>2, FinalNeeds
  <1>5. \A e \in On(G, s) : e \in Ids /\ Resolves(e, s) /\ Resolved(e, s) = e
    <2> SUFFICES ASSUME NEW e \in On(G, s)
                 PROVE  e \in Ids /\ Resolves(e, s) /\ Resolved(e, s) = e
      OBVIOUS
    <2>1. e.scope # NoScope /\ Ready(s).scope = s
      BY OwnNames, ScopesApart DEF On
    <2>2. IsId(e) /\ Resolves(e, s) /\ Resolved(e, s) \in Ids
      BY <1>3, <1>4, <2>1, NamesMet
    <2> QED
      BY <2>1, <2>2, ScopedResolved
  <1>6. Needed(Ready(s)) = On(G, s)
    <2> DEFINE N == On(G, s)
    <2>3. Needed(Ready(s)) = Instances(N, s)
      <3>1. Needed(Ready(s)) = Instances(N, Ready(s).scope)
        BY <1>4 DEF Needed
      <3>2. Ready(s).scope = s
        BY OwnNames
      <3> QED
        BY <3>1, <3>2
    <2>1. Needed(Ready(s)) = {Resolved(e, s) : e \in {e \in N : Resolves(e, s)}}
      BY <2>3, Zenon DEF Instances
    <2> HIDE DEF N
    <2>2. {Resolved(e, s) : e \in {e \in N : Resolves(e, s)}} = N
      BY <1>5 DEF N
    <2> QED
      BY <2>1, <2>2 DEF N
  <1>7. On(Ids, s) = On(G, s) \cup {Ready(s)}
    <2>1. Ready(s) \in On(Ids, s)
      BY <1>3, OwnNames DEF On
    <2>2. On(G, s) \subseteq On(Ids, s)
      BY <1>5 DEF On
    <2> QED
      BY <1>1, <2>1, <2>2
  <1>8. Ready(s) \notin On(G, s)
    BY DEF On, FinalFor, Added
  <1>9. \A j \in On(G, s) : j = Init1(s) \/ (Init1(s) \in Needed(j) /\ Init1(s) \in Ids)
    BY <1>5, OperationsInitialised
  <1>10. Init1(s) \in On(G, s)
    <2>1. Init1(s) \in On(G, s) \/ Init1(s) \in Ids
      BY <1>2, <1>9
    <2>2. Init1(s) \in Ids => Init1(s) \in On(Ids, s)
      BY OwnNames DEF On
    <2> QED
      BY <1>7, <2>1, <2>2, OwnNames
  <1> QED
    BY <1>3, <1>6, <1>7, <1>8, <1>9, <1>10

\* In terms of the keys of the graph.
LEMMA FinishedBracketed ==
  ASSUME Finished, NEW q \in Requests, NEW G, NEW marks, NEW done, FinalFor(q, G, marks, done),
         NEW s \in DOMAIN q.chips
  PROVE  LET mine == {k \in 1..Len(processes) : processes[k].id \in ProcessesOf(s)}
             id(k) == processes[k].id
             anc == Ancestors
         IN  mine # {} =>
               \E i, r \in mine :
                 /\ id(i) = Init1(s) /\ id(r) = Ready(s)
                 /\ \A k \in mine \ {i} : i \in anc[k]
                 /\ Inputs(processes[r]) = mine \ {r}
                 /\ \E d \in 1..Len(processes) : id(d) = Done /\ r \in anc[d]
  <1> DEFINE K == 1..Len(processes)
             mine == {k \in K : processes[k].id \in ProcessesOf(s)}
             id(k) == processes[k].id
  <1> SUFFICES ASSUME mine # {}
               PROVE  \E i, r \in mine :
                        /\ id(i) = Init1(s) /\ id(r) = Ready(s)
                        /\ \A k \in mine \ {i} : i \in Ancestors[k]
                        /\ Inputs(processes[r]) = mine \ {r}
                        /\ \E d \in K : id(d) = Done /\ r \in Ancestors[d]
    OBVIOUS
  <1>1. GraphWell(processes)
    BY DEF Finished, IInv
  <1>2. \A j, k \in K : id(j) = id(k) => j = k
    BY <1>1 DEF GraphWell, WellFounded
  <1>3. \A x \in Ids : \E k \in K : id(k) = x
    BY DEF Ids
  <1>4. ProcessesOf(s) = On(Ids, s) /\ On(Ids, s) \subseteq Ids
    BY DEF ProcessesOf, On
  <1>5. On(Ids, s) # {}
    BY <1>4
  <1>6. /\ Ready(s) \in Ids /\ Awaited(s) /\ Done \in Ids
        /\ On(Ids, s) = On(G, s) \cup {Ready(s)} /\ Ready(s) \notin On(G, s)
        /\ Needed(Ready(s)) = On(G, s)
        /\ Init1(s) \in On(G, s)
        /\ \A j \in On(G, s) : j = Init1(s) \/ Init1(s) \in Needed(j)
    BY <1>5, DeviceMarked
  <1>7. PICK i \in K : id(i) = Init1(s)
    BY <1>3, <1>4, <1>6
  <1>8. PICK r \in K : id(r) = Ready(s)
    BY <1>3, <1>6
  <1>9. PICK d \in K : id(d) = Done
    BY <1>3, <1>6
  <1>10. \A j, k \in K : id(j) \in Needed(id(k)) <=> j \in Inputs(processes[k])
    BY InputsAreNeeds
  <1>11. \A j, k \in K : j \in Inputs(processes[k]) => /\ j \in Ancestors[k]
                                                       /\ Ancestors[j] \subseteq Ancestors[k]
    BY <1>1, AncestorsHold
  <1>12. \A k \in K : Inputs(processes[k]) \subseteq K
    BY <1>1, InputsBefore
  <1>13. \A k \in K : k \in mine <=> id(k) \in On(G, s) \/ id(k) = Ready(s)
    BY <1>4, <1>6
  <1>14. i \in mine /\ r \in mine
    BY <1>6, <1>7, <1>8, <1>13
  <1>15. mine \subseteq K
    OBVIOUS
  <1> HIDE DEF mine, id, K
  <1>16. ASSUME NEW k \in mine \ {i} PROVE i \in Ancestors[k]
    <2>1. k \in K /\ id(k) # Init1(s)
      BY <1>2, <1>7, <1>15
    <2>2. Init1(s) \in Needed(id(k))
      BY <1>6, <1>13, <2>1
    <2> QED
      BY <1>7, <1>10, <1>11, <2>1, <2>2
  <1>17. Inputs(processes[r]) = mine \ {r}
    <2>1. \A j \in K : j \in Inputs(processes[r]) <=> id(j) \in On(G, s)
      BY <1>6, <1>8, <1>10
    <2>2. \A j \in K : id(j) \in On(G, s) <=> j \in mine /\ j # r
      BY <1>2, <1>6, <1>8, <1>13
    <2> QED
      BY <1>8, <1>12, <1>15, <2>1, <2>2
  <1>18. r \in Ancestors[d]
    <2>1. CASE Ready(s) \in Needed(Done)
      BY <1>8, <1>9, <1>10, <1>11, <2>1
    <2>2. CASE Finalize \in Ids /\ Finalize \in Needed(Done) /\ Ready(s) \in Needed(Finalize)
      <3>1. PICK f \in K : id(f) = Finalize
        BY <1>3, <2>2
      <3>2. f \in Inputs(processes[d]) /\ r \in Inputs(processes[f])
        BY <1>8, <1>9, <1>10, <2>2, <3>1
      <3> QED
        BY <1>8, <1>9, <1>11, <3>1, <3>2
    <2> QED
      BY <1>6, <2>1, <2>2 DEF Awaited
  <1> QED
    BY <1>7, <1>8, <1>9, <1>14, <1>16, <1>17, <1>18

-----------------------------------------------------------------------------
(***************************************************************************)
(* Every device is bracketed.                                               *)
(***************************************************************************)
LEMMA InitBracketing == Init => Bracketing
  BY DEF Init, Bracketing

LEMMA NextKeepsBracketing ==
  IInv /\ Exact /\ PlanOk /\ Bracketing /\ [Next]_vars => Bracketing'
  <1> SUFFICES ASSUME IInv, Exact, PlanOk, Bracketing, [Next]_vars, phase' = "final"
               PROVE  \E G, marks, done : FinalFor(request, G, marks, done)'
    BY DEF Bracketing
  <1>1. ASSUME job' = job, request' = request, phase' = phase
        PROVE  \E G, marks, done : FinalFor(request, G, marks, done)'
    <2>1. PICK G, marks, done : FinalFor(request, G, marks, done)
      BY <1>1 DEF Bracketing
    <2>2. PICK q : q = request
      OBVIOUS
    <2>3. FinalFor(q, G, marks, done)'
      BY <1>1, <2>1, <2>2, SameFinal
    <2>4. request' = q
      BY <1>1, <2>2
    <2> QED
      BY <2>3, <2>4 DEF FinalFor
  <1>2. CASE Compiling
    <2>1. job' = job
      BY <1>2 DEF Compiling, Compile, Known, Enter, Leave, Fail, Finish
    <2> QED
      BY <1>1, <1>2, <2>1 DEF Compiling
  <1>3. CASE Complete
    <2>1. phase = "select" /\ verdict = "true" /\ request \in Requests /\ job = Selection(request)
      BY <1>3 DEF Complete, PlanOk
    <2>2. Finished
      BY <2>1 DEF Exact, Finished
    <2>3. job' = SecondCall(request) /\ request' = request
      BY <1>3 DEF Complete, SecondCall, Begin
    <2>4. PICK q \in Requests : q = request
      BY <2>1
    <2>5. \E G, marks, done : FinalFor(q, G, marks, done)'
      BY <2>1, <2>2, <2>3, <2>4, CompleteBrackets
    <2>6. request' = q
      BY <2>3, <2>4
    <2> QED
      BY <2>5, <2>6 DEF FinalFor
  <1>4. CASE UNCHANGED vars
    BY <1>1, <1>4 DEF vars, graphVars
  <1> QED
    BY <1>2, <1>3, <1>4 DEF Next

LEMMA BracketingSuffices == IInv /\ Exact /\ PlanOk /\ Bracketing => DeviceBracketed
  <1> SUFFICES ASSUME IInv, Exact, PlanOk, Bracketing, phase = "final", verdict = "true",
                      NEW s \in DOMAIN job.chips
               PROVE  LET mine == {k \in 1..Len(processes) : processes[k].id \in ProcessesOf(s)}
                          id(k) == processes[k].id
                          anc == Ancestors
                      IN  mine # {} =>
                            \E i, r \in mine :
                              /\ id(i) = Init1(s) /\ id(r) = Ready(s)
                              /\ \A k \in mine \ {i} : i \in anc[k]
                              /\ Inputs(processes[r]) = mine \ {r}
                              /\ \E d \in 1..Len(processes) : id(d) = Done /\ r \in anc[d]
    BY DEF DeviceBracketed
  <1>1. Finished /\ request \in Requests
    BY DEF Exact, Finished, PlanOk
  <1>2. PICK G, marks, done : FinalFor(request, G, marks, done)
    BY DEF Bracketing
  <1>3. s \in DOMAIN request.chips
    <2>1. job.chips = request.chips
      BY <1>2, FinalJob DEF FinalFor
    <2> QED
      BY <2>1
  <1> QED
    BY <1>1, <1>2, <1>3, FinishedBracketed

\* Whatever is registered and whatever is asked for: if every operation of a device
\* depends on Device.Init (DeviceDefinition, device_topology_register.cpp:101), then in the
\* graph that a plan runs Device.Init comes before all the others, and Device.Ready
\* (AddDeviceCompletion, topo_graph_builder.cpp) has exactly the other processes of its
\* device as its inputs, the optional ones included, and comes before the end.
THEOREM DevicesAreBracketed == Spec => []DeviceBracketed
  <1>1. Init => IInv /\ Exact /\ PlanOk /\ Bracketing
    BY InitIInv, InitExact, InitBracketing
  <1>2. IInv /\ Exact /\ PlanOk /\ Bracketing /\ [Next]_vars
          => (IInv /\ Exact /\ PlanOk /\ Bracketing)'
    BY NextKeepsIInv, NextKeepsExact, NextKeepsBracketing
  <1>3. IInv /\ Exact /\ PlanOk /\ Bracketing => DeviceBracketed
    BY BracketingSuffices
  <1> QED
    BY <1>1, <1>2, <1>3, PTL DEF Spec
=============================================================================
