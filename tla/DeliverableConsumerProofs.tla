---------------------- MODULE DeliverableConsumerProofs ----------------------
(***************************************************************************)
(* Theorems about DeliverableConsumer, for any assemblers, files, threads, *)
(* limits and faults.                                                      *)
(***************************************************************************)
EXTENDS DeliverableConsumer, FiniteSetTheorems, SequenceTheorems, InductionFacts,
        TLAPS

-----------------------------------------------------------------------------
(***************************************************************************)
(* The inductive invariant.                                                *)
(***************************************************************************)
\* The three places where the drain of a stream may be.
Posters(s) == {p \in Actors : posting[p] = s}
Tickets(s) == {k \in 1..Len(tasks) : tasks[k] = s}
Holders(s) == {d \in Drainers : at[d] = s}

AtMostOne(S) == \A x, y \in S : x = y

\* A stream has a drain, in one of them, just when it is marked scheduled.
DrainIffScheduled(s) ==
  /\ AtMostOne(Posters(s)) /\ AtMostOne(Tickets(s)) /\ AtMostOne(Holders(s))
  /\ Posters(s) = {} \/ Tickets(s) = {}
  /\ Posters(s) = {} \/ Holders(s) = {}
  /\ Tickets(s) = {} \/ Holders(s) = {}
  /\ scheduled[s] <=> Posters(s) \cup Tickets(s) \cup Holders(s) # {}

\* An actor that is to hand a drain to the pool carries out none itself.
PostersAreFree == \A p \in Actors : posting[p] # NoStream => at[p] = NoStream

\* No operation is left in a queue that nobody is going to drain.
QueuesScheduled == \A s \in Streams : queue[s] # << >> => scheduled[s]

Shape ==
  /\ DOMAIN posting = Actors /\ DOMAIN at = Drainers /\ DOMAIN queue = Streams
  /\ scheduled \in [Streams -> BOOLEAN] /\ tasks \in Seq(Range(tasks))

IInv ==
  /\ Shape /\ PostersAreFree /\ QueuesScheduled
  /\ \A s \in Streams : DrainIffScheduled(s)

LEMMA InitIInv == Init => IInv
<1> SUFFICES ASSUME Init PROVE IInv
  OBVIOUS
<1>1. Shape
  <2>1. tasks \in Seq(Range(tasks))
    BY DEF Init
  <2> QED
    BY <2>1 DEF Init, Shape
<1>2. PostersAreFree /\ QueuesScheduled
  BY DEF Init, PostersAreFree, QueuesScheduled
<1>3. ASSUME NEW s \in Streams PROVE DrainIffScheduled(s)
  <2>1. Posters(s) = {} /\ Holders(s) = {}
    BY NamesApart DEF Init, Posters, Holders
  <2>2. Tickets(s) = {}
    BY DEF Init, Tickets
  <2> QED
    BY <2>1, <2>2 DEF Init, DrainIffScheduled, AtMostOne
<1> QED
  BY <1>1, <1>2, <1>3 DEF IInv

\* A step that touches nothing of this keeps it.
LEMMA Untouched ==
  ASSUME IInv, UNCHANGED <<posting, tasks, at, queue, scheduled>>
  PROVE  IInv'
<1>1. Shape'
  BY DEF IInv, Shape, Range
<1>2. PostersAreFree' /\ QueuesScheduled'
  BY DEF IInv, PostersAreFree, QueuesScheduled
<1>3. ASSUME NEW s \in Streams PROVE DrainIffScheduled(s)'
  BY DEF IInv, DrainIffScheduled, Posters, Tickets, Holders
<1> QED
  BY <1>1, <1>2, <1>3 DEF IInv

\* Enqueue makes a drain of the stream exactly when it has none.
LEMMA EnqueueKeepsIInv ==
  ASSUME IInv, NEW p \in Actors, Enqueue(p)
  PROVE  IInv'
<1> DEFINE z == Head(out[p]).stream
<1>1. /\ UNCHANGED <<tasks, at>> /\ posting[p] = NoStream /\ at[p] = NoStream
      /\ scheduled' = [scheduled EXCEPT ![z] = TRUE]
      /\ posting' = [posting EXCEPT ![p] = IF ~scheduled[z] THEN z ELSE @]
      /\ \E op : queue' = [queue EXCEPT ![z] = Append(@, op)]
  BY DEF Enqueue, Free, MustSchedule, drainVars
<1> HIDE DEF z
<1>2. Shape'
  BY <1>1 DEF IInv, Shape
<1>3. PostersAreFree'
  BY <1>1 DEF IInv, Shape, PostersAreFree
<1>4. QueuesScheduled'
  BY <1>1 DEF IInv, Shape, QueuesScheduled
<1>5. ASSUME NEW s \in Streams PROVE DrainIffScheduled(s)'
  <2>1. Tickets(s)' = Tickets(s) /\ Holders(s)' = Holders(s)
    BY <1>1 DEF Tickets, Holders
  <2>2. DrainIffScheduled(s)
    BY DEF IInv
  <2>3. p \notin Posters(s)
    BY <1>1, NamesApart DEF Posters
  <2>4. CASE s = z /\ ~scheduled[s]
    <3>1. Posters(s)' = Posters(s) \cup {p} /\ scheduled'[s] = TRUE
      BY <1>1, <2>4 DEF IInv, Shape, Posters
    <3> QED
      BY <2>1, <2>2, <2>4, <3>1 DEF DrainIffScheduled, AtMostOne
  <2>5. CASE s # z \/ scheduled[s]
    <3>1. Posters(s)' = Posters(s) /\ scheduled'[s] = scheduled[s]
      BY <1>1, <2>3, <2>5 DEF IInv, Shape, Posters
    <3> QED
      BY <2>1, <2>2, <3>1 DEF DrainIffScheduled
  <2> QED
    BY <2>4, <2>5
<1> QED
  BY <1>2, <1>3, <1>4, <1>5 DEF IInv

\* Schedule hands the drain of an actor to the pool or to the actor, or gives up the stream.
LEMMA ScheduleKeepsIInv ==
  ASSUME IInv, NEW p \in Actors, Schedule(p)
  PROVE  IInv'
<1> DEFINE z == posting[p]
<1>1. /\ posting' = [posting EXCEPT ![p] = NoStream] /\ z # NoStream /\ at[p] = NoStream
      /\ p \in Drainers
  BY DEF Schedule, IInv, PostersAreFree, Drainers
<1>2. /\ p \in Posters(z)
      /\ \A s \in Streams : Posters(s)' = Posters(s) \ {p}
      /\ \A s \in Streams : s # z => p \notin Posters(s)
  BY <1>1, NamesApart DEF Posters, IInv, Shape
<1>3. PostersAreFree'
  <2>1. \A q \in Actors : posting'[q] # NoStream => posting[q] # NoStream /\ q # p
    BY <1>1 DEF IInv, Shape
  <2>2. \A q \in Actors : q # p => at'[q] = at[q]
    <3>1. at' = at \/ at' = [at EXCEPT ![p] = z]
      BY DEF Schedule
    <3>2. Actors \subseteq DOMAIN at
      BY DEF IInv, Shape, Drainers
    <3> QED
      BY <3>1, <3>2
  <2> QED
    BY <2>1, <2>2 DEF IInv, PostersAreFree
<1>4. CASE tasks' = Append(tasks, z) /\ UNCHANGED <<at, queue, scheduled>>
  <2> DEFINE S == Range(tasks) \cup {z}
  <2>1. tasks \in Seq(S)
    BY DEF IInv, Shape
  <2>2. /\ tasks' \in Seq(S) /\ Len(tasks') = Len(tasks) + 1 /\ Len(tasks) \in Nat
        /\ \A k \in 1..Len(tasks) : tasks'[k] = tasks[k]
        /\ tasks'[Len(tasks) + 1] = z
    BY <1>4, <2>1, AppendProperties
  <2>3. tasks' \in Seq(Range(tasks'))
    BY <2>2 DEF Range
  <2>4. Shape' /\ QueuesScheduled'
    BY <1>1, <1>4, <2>3 DEF IInv, Shape, QueuesScheduled
  <2>5. ASSUME NEW s \in Streams PROVE DrainIffScheduled(s)'
    <3>1. Holders(s)' = Holders(s) /\ DrainIffScheduled(s) /\ scheduled'[s] = scheduled[s]
      BY <1>4 DEF Holders, IInv
    <3>2. CASE s = z
      <4>1. Tickets(s)' = Tickets(s) \cup {Len(tasks) + 1}
        BY <2>2, <3>2 DEF Tickets
      <4> QED
        BY <1>2, <3>1, <3>2, <4>1 DEF DrainIffScheduled, AtMostOne
    <3>3. CASE s # z
      <4>1. Tickets(s)' = Tickets(s)
        BY <2>2, <3>3 DEF Tickets
      <4>2. Posters(s)' = Posters(s)
        BY <1>2, <3>3
      <4> QED
        BY <3>1, <4>1, <4>2 DEF DrainIffScheduled
    <3> QED
      BY <3>2, <3>3
  <2> QED
    BY <1>3, <2>4, <2>5 DEF IInv
<1>5. CASE at' = [at EXCEPT ![p] = z] /\ UNCHANGED <<tasks, queue, scheduled>>
  <2>1. Shape' /\ QueuesScheduled'
    BY <1>1, <1>5 DEF IInv, Shape, QueuesScheduled, Range
  <2>2. ASSUME NEW s \in Streams PROVE DrainIffScheduled(s)'
    <3>1. Tickets(s)' = Tickets(s) /\ DrainIffScheduled(s) /\ scheduled'[s] = scheduled[s]
      BY <1>5 DEF Tickets, IInv
    <3>2. CASE s = z
      <4>1. Holders(s)' = Holders(s) \cup {p}
        BY <1>1, <1>5, <3>2 DEF Holders, IInv, Shape
      <4> QED
        BY <1>2, <3>1, <3>2, <4>1 DEF DrainIffScheduled, AtMostOne
    <3>3. CASE s # z
      <4>1. Holders(s)' = Holders(s)
        BY <1>1, <1>5, <3>3, NamesApart DEF Holders, IInv, Shape
      <4>2. Posters(s)' = Posters(s)
        BY <1>2, <3>3
      <4> QED
        BY <3>1, <4>1, <4>2 DEF DrainIffScheduled
    <3> QED
      BY <3>2, <3>3
  <2> QED
    BY <1>3, <2>1, <2>2 DEF IInv
<1>6. CASE FailStream(z) /\ UNCHANGED <<tasks, at>>
  <2>1. /\ queue' = [queue EXCEPT ![z] = << >>]
        /\ scheduled' = [scheduled EXCEPT ![z] = FALSE]
    BY <1>6 DEF FailStream, Dropped
  <2>2. Shape' /\ QueuesScheduled'
    BY <1>1, <1>6, <2>1 DEF IInv, Shape, QueuesScheduled, Range
  <2>3. ASSUME NEW s \in Streams PROVE DrainIffScheduled(s)'
    <3>1. Tickets(s)' = Tickets(s) /\ Holders(s)' = Holders(s) /\ DrainIffScheduled(s)
      BY <1>6 DEF Tickets, Holders, IInv
    <3>2. scheduled'[s] = IF s = z THEN FALSE ELSE scheduled[s]
      BY <2>1 DEF IInv, Shape
    <3>3. s # z => Posters(s)' = Posters(s)
      BY <1>2
    <3> QED
      BY <1>2, <3>1, <3>2, <3>3 DEF DrainIffScheduled, AtMostOne
  <2> QED
    BY <1>3, <2>2, <2>3 DEF IInv
<1> QED
  BY <1>4, <1>5, <1>6 DEF Schedule

\* A thread takes the drain from the queue of the pool.
LEMMA FetchKeepsIInv ==
  ASSUME IInv, NEW d \in Drainers, Fetch(d)
  PROVE  IInv'
<1> DEFINE z == Head(tasks)
<1>1. /\ d \in Threads /\ at[d] = NoStream /\ tasks # << >>
      /\ at' = [at EXCEPT ![d] = z] /\ tasks' = Tail(tasks)
      /\ UNCHANGED <<posting, queue, scheduled>>
  BY DEF Fetch, actorVars, streamVars
<1>2. /\ tasks' \in Seq(Range(tasks)) /\ Len(tasks') = Len(tasks) - 1 /\ Len(tasks) \in Nat
      /\ \A k \in 1..Len(tasks') : tasks'[k] = tasks[k + 1]
      /\ Len(tasks) >= 1 /\ z = tasks[1]
  BY <1>1, HeadTailProperties, EmptySeq DEF IInv, Shape
<1>3. tasks' \in Seq(Range(tasks'))
  BY <1>2 DEF Range
<1>4. Shape' /\ QueuesScheduled' /\ PostersAreFree'
  BY <1>1, <1>3, NamesApart DEF IInv, Shape, QueuesScheduled, PostersAreFree
<1>5. ASSUME NEW s \in Streams PROVE DrainIffScheduled(s)'
  <2>1. Posters(s)' = Posters(s) /\ DrainIffScheduled(s) /\ scheduled'[s] = scheduled[s]
    BY <1>1 DEF Posters, IInv
  <2>2. \A k : k \in Tickets(s)' <=> k \in 1..(Len(tasks) - 1) /\ k + 1 \in Tickets(s)
    BY <1>2 DEF Tickets
  <2>3. CASE s = z
    <3>1. 1 \in Tickets(s) /\ Holders(s)' = Holders(s) \cup {d}
      BY <1>1, <1>2, <2>3 DEF Tickets, Holders, IInv, Shape
    <3>2. Tickets(s)' = {}
      BY <2>1, <2>2, <3>1 DEF DrainIffScheduled, AtMostOne
    <3> QED
      BY <2>1, <3>1, <3>2 DEF DrainIffScheduled, AtMostOne
  <2>4. CASE s # z
    <3>1. 1 \notin Tickets(s) /\ Holders(s)' = Holders(s)
      BY <1>1, <1>2, <2>4, NamesApart DEF Tickets, Holders, IInv, Shape
    <3>2. \A k \in Tickets(s) : k - 1 \in Tickets(s)' /\ k \in Nat
      BY <1>2, <2>2, <3>1 DEF Tickets
    <3>3. AtMostOne(Tickets(s)')
      BY <2>1, <2>2 DEF DrainIffScheduled, AtMostOne
    <3>4. Tickets(s)' = {} <=> Tickets(s) = {}
      BY <2>2, <3>2
    <3> QED
      BY <2>1, <3>1, <3>3, <3>4 DEF DrainIffScheduled
  <2> QED
    BY <2>3, <2>4
<1> QED
  BY <1>4, <1>5 DEF IInv

\* A drain that ends, by itself or by an exception, leaves the stream without one.
LEMMA EndOfDrain ==
  ASSUME IInv, NEW d \in Drainers,
         at' = [at EXCEPT ![d] = NoStream], scheduled' = [scheduled EXCEPT ![at[d]] = FALSE],
         UNCHANGED <<posting, tasks>>, DOMAIN queue' = Streams,
         \A s \in Streams : queue'[s] = IF s = at[d] THEN << >> ELSE queue[s]
  PROVE  IInv'
<1>1. Shape' /\ QueuesScheduled' /\ PostersAreFree'
  <2>1. Shape'
    BY DEF IInv, Shape, Range
  <2>2. QueuesScheduled'
    BY DEF IInv, Shape, QueuesScheduled
  <2>3. \A p \in Actors : at'[p] = at[p] \/ at'[p] = NoStream
    BY DEF IInv, Shape, Drainers
  <2>4. PostersAreFree'
    BY <2>3 DEF IInv, PostersAreFree
  <2> QED
    BY <2>1, <2>2, <2>4
<1>2. ASSUME NEW s \in Streams PROVE DrainIffScheduled(s)'
  <2>1. /\ Posters(s)' = Posters(s) /\ Tickets(s)' = Tickets(s)
        /\ Holders(s)' = Holders(s) \ {d} /\ (d \in Holders(s) <=> s = at[d])
    BY NamesApart DEF Posters, Tickets, Holders, IInv, Shape
  <2>2. scheduled'[s] = IF s = at[d] THEN FALSE ELSE scheduled[s]
    BY DEF IInv, Shape
  <2>3. DrainIffScheduled(s)
    BY DEF IInv
  <2>4. CASE s = at[d]
    <3>1. Posters(s)' = {} /\ Tickets(s)' = {} /\ Holders(s)' = {}
      BY <2>1, <2>3, <2>4 DEF DrainIffScheduled, AtMostOne
    <3> QED
      BY <2>2, <2>4, <3>1 DEF DrainIffScheduled, AtMostOne
  <2>5. CASE s # at[d]
    <3>1. Holders(s)' = Holders(s)
      BY <2>1, <2>5
    <3> QED
      BY <2>1, <2>2, <2>3, <2>5, <3>1 DEF DrainIffScheduled
  <2> QED
    BY <2>4, <2>5
<1> QED
  BY <1>1, <1>2 DEF IInv

LEMMA PopKeepsIInv ==
  ASSUME IInv, NEW d \in Drainers, Pop(d)
  PROVE  IInv'
<1> DEFINE z == at[d]
<1>1. z # NoStream /\ UNCHANGED <<posting, tasks>>
  BY DEF Pop, actorVars
<1>2. CASE queue[z] = << >> /\ scheduled' = [scheduled EXCEPT ![z] = FALSE]
           /\ at' = [at EXCEPT ![d] = NoStream] /\ UNCHANGED queue
  BY <1>1, <1>2, EndOfDrain DEF IInv, Shape
<1>3. CASE queue[z] # << >> /\ queue' = [queue EXCEPT ![z] = Tail(@)]
           /\ UNCHANGED <<scheduled, at>>
  <2>1. Shape' /\ PostersAreFree'
    BY <1>1, <1>3 DEF IInv, Shape, PostersAreFree, Range
  <2>2. QueuesScheduled'
    BY <1>3 DEF IInv, Shape, QueuesScheduled
  <2>3. ASSUME NEW s \in Streams PROVE DrainIffScheduled(s)'
    BY <1>1, <1>3 DEF IInv, DrainIffScheduled, Posters, Tickets, Holders
  <2> QED
    BY <2>1, <2>2, <2>3 DEF IInv
<1> QED
  BY <1>2, <1>3 DEF Pop

LEMMA PerformKeepsIInv ==
  ASSUME IInv, NEW d \in Drainers, Perform(d)
  PROVE  IInv'
<1>1. UNCHANGED <<posting, tasks>>
  BY DEF Perform, actorVars
<1>2. CASE UNCHANGED <<queue, scheduled, at>>
  BY <1>1, <1>2, Untouched
<1>3. CASE FailStream(at[d]) /\ at' = [at EXCEPT ![d] = NoStream]
  <2>1. /\ queue' = [queue EXCEPT ![at[d]] = << >>]
        /\ scheduled' = [scheduled EXCEPT ![at[d]] = FALSE]
    BY <1>3 DEF FailStream, Dropped
  <2>2. /\ DOMAIN queue' = Streams
        /\ \A s \in Streams : queue'[s] = IF s = at[d] THEN << >> ELSE queue[s]
    BY <2>1 DEF IInv, Shape
  <2> QED
    BY <1>1, <1>3, <2>1, <2>2, EndOfDrain
<1> QED
  BY <1>2, <1>3 DEF Perform

LEMMA NextKeepsIInv == IInv /\ [Next]_vars => IInv'
<1> SUFFICES ASSUME IInv, [Next]_vars PROVE IInv'
  OBVIOUS
<1>1. ASSUME NEW p \in Actors, Enqueue(p) \/ Schedule(p) PROVE IInv'
  BY <1>1, EnqueueKeepsIInv, ScheduleKeepsIInv
<1>2. ASSUME NEW d \in Drainers, Drain(d) PROVE IInv'
  BY <1>2, FetchKeepsIInv, PopKeepsIInv, PerformKeepsIInv DEF Drain
<1>3. ASSUME NEW a \in Sinks, Sink(a) PROVE IInv'
  <2>1. UNCHANGED <<posting, tasks, at, queue, scheduled>>
    BY <1>3 DEF Sink, PushBatch, ReplayBreaks, Flush, Discard, Sync, Report, streamVars, drainVars
  <2> QED
    BY <2>1, Untouched
<1>4. ASSUME NEW t \in Tables, Table(t) PROVE IInv'
  <2>1. UNCHANGED <<posting, tasks, at, queue, scheduled>>
    BY <1>4 DEF Table, StartCsv, AppendRow, FinishCsv, EndCsv, Abandon, streamVars, drainVars
  <2> QED
    BY <2>1, Untouched
<1>5. CASE Finisher
  <2>1. UNCHANGED <<posting, tasks, at, queue, scheduled>>
    BY <1>5 DEF Finisher, FinishStream, StreamFinished, Return, streamVars, drainVars
  <2> QED
    BY <2>1, Untouched
<1>6. CASE UNCHANGED vars
  BY <1>6, Untouched DEF vars, actorVars, streamVars, drainVars
<1>7. ASSUME NEW p \in Actors, EnsurePool(p) \/ StartThrows(p) PROVE IInv'
  <2>1. UNCHANGED <<posting, tasks, at, queue, scheduled>>
    BY <1>7 DEF EnsurePool, StartThrows, actorVars, streamVars
  <2> QED
    BY <2>1, Untouched
<1> QED
  BY <1>1, <1>2, <1>3, <1>4, <1>5, <1>6, <1>7 DEF Next, Caller, Drainers

-----------------------------------------------------------------------------
(***************************************************************************)
(* What follows from it.                                                   *)
(***************************************************************************)
\* IInv holds throughout: a stream has a drain just when it is marked scheduled, and
\* is marked whenever something is queued (Enqueue, Drain and FailStream together).
THEOREM Invariance == Spec => []IInv
BY InitIInv, NextKeepsIInv, PTL DEF Spec

LEMMA SmallSets == \A S : AtMostOne(S) => Cardinality(S) = IF S = {} THEN 0 ELSE 1
<1> SUFFICES ASSUME NEW S, AtMostOne(S) PROVE Cardinality(S) = IF S = {} THEN 0 ELSE 1
  OBVIOUS
<1>1. CASE S = {}
  BY <1>1, FS_EmptySet
<1>2. CASE S # {}
  <2>1. PICK x : S = {x}
    BY <1>2 DEF AtMostOne
  <2> QED
    BY <1>2, <2>1, FS_Singleton
<1> QED
  BY <1>1, <1>2

\* No stream ever has two drains, so that the operations on a file are carried out
\* in the order they were queued, whatever is dropped, fails or throws (ioScheduled).
THEOREM SingleDrain == Spec => []OneDrain
<1>1. IInv => OneDrain
  <2> SUFFICES ASSUME IInv, NEW s \in Streams PROVE DrainsOf(s) <= 1
    BY DEF OneDrain
  <2>1. DrainIffScheduled(s)
    BY DEF IInv
  <2>2. DrainsOf(s) = Cardinality(Holders(s)) + Cardinality(Tickets(s)) + Cardinality(Posters(s))
    BY DEF DrainsOf, Holders, Tickets, Posters
  <2> QED
    BY <2>1, <2>2, SmallSets DEF DrainIffScheduled
<1> QED
  BY <1>1, Invariance, PTL

\* What is queued on a stream has its drain with a thread, in the queue of the pool,
\* or with an actor that has yet to post it (Enqueue).
NoneStranded ==
  \A s \in Streams : queue[s] # << >> =>
    \/ \E p \in Actors : posting[p] = s
    \/ \E k \in 1..Len(tasks) : tasks[k] = s
    \/ \E d \in Drainers : at[d] = s

\* A stream is never left with operations that no drain will carry out, on which
\* Wait would wait for ever, also after a drain could not be posted or threw.
THEOREM QueuesAreDrained == Spec => []NoneStranded
<1>1. IInv => NoneStranded
  <2> SUFFICES ASSUME IInv, NEW s \in Streams, queue[s] # << >>
               PROVE  Posters(s) \cup Tickets(s) \cup Holders(s) # {}
    BY DEF NoneStranded, Posters, Tickets, Holders
  <2> QED
    BY DEF IInv, QueuesScheduled, DrainIffScheduled
<1> QED
  BY <1>1, Invariance, PTL

-----------------------------------------------------------------------------
(***************************************************************************)
(* Types.                                                                  *)
(***************************************************************************)
WritesIn(q) == {k \in DOMAIN q : q[k].kind = "write"}

\* Appending an operation adds one write at most, popping one adds none.
LEMMA WritesOfAppend ==
  ASSUME NEW q \in Seq(OpType), NEW op \in OpType
  PROVE  Cardinality(WritesIn(Append(q, op))) <= Cardinality(WritesIn(q)) + 1
<1>1. /\ Len(q) \in Nat /\ DOMAIN q = 1..Len(q)
      /\ Append(q, op) \in Seq(OpType) /\ Len(Append(q, op)) = Len(q) + 1
      /\ \A i \in 1..Len(q) : Append(q, op)[i] = q[i]
  BY AppendProperties, LenProperties
<1>2. DOMAIN Append(q, op) = 1..(Len(q) + 1)
  BY <1>1, LenProperties
<1>3. WritesIn(Append(q, op)) \subseteq WritesIn(q) \cup {Len(q) + 1}
  BY <1>1, <1>2 DEF WritesIn
<1>4. IsFiniteSet(WritesIn(q)) /\ Cardinality(WritesIn(q)) \in Nat
  <2>1. WritesIn(q) \in SUBSET (1..Len(q)) /\ IsFiniteSet(1..Len(q))
    BY <1>1, FS_Interval DEF WritesIn
  <2> QED
    BY <2>1, FS_Subset, FS_CardinalityType
<1>5. /\ IsFiniteSet(WritesIn(q) \cup {Len(q) + 1})
      /\ Cardinality(WritesIn(q) \cup {Len(q) + 1}) <= Cardinality(WritesIn(q)) + 1
  <2> DEFINE W == WritesIn(q)
             z == Len(q) + 1
  <2>1. IsFiniteSet(W) /\ Cardinality(W) \in Nat
    BY <1>4
  <2> HIDE DEF W, z
  <2>2. /\ IsFiniteSet(W \cup {z})
        /\ Cardinality(W \cup {z}) = IF z \in W THEN Cardinality(W) ELSE Cardinality(W) + 1
    BY <2>1, FS_AddElement
  <2>3. Cardinality(W \cup {z}) <= Cardinality(W) + 1
    BY <2>1, <2>2
  <2> QED
    BY <2>2, <2>3 DEF W, z
<1>6. /\ Cardinality(WritesIn(Append(q, op))) <= Cardinality(WritesIn(q) \cup {Len(q) + 1})
      /\ IsFiniteSet(WritesIn(Append(q, op)))
  BY <1>3, <1>5, FS_Subset
<1> QED
  BY <1>4, <1>5, <1>6, FS_CardinalityType

LEMMA WritesOfTail ==
  ASSUME NEW q \in Seq(OpType), q # << >>
  PROVE  Cardinality(WritesIn(Tail(q))) <= Cardinality(WritesIn(q))
<1>1. /\ Len(q) \in Nat /\ DOMAIN q = 1..Len(q)
      /\ Tail(q) \in Seq(OpType) /\ Len(Tail(q)) = Len(q) - 1
      /\ \A i \in 1..Len(Tail(q)) : Tail(q)[i] = q[i + 1]
  BY HeadTailProperties, LenProperties
<1>2. DOMAIN Tail(q) = 1..(Len(q) - 1)
  BY <1>1, LenProperties
<1>3. IsFiniteSet(WritesIn(q))
  <2>1. WritesIn(q) \in SUBSET (1..Len(q)) /\ IsFiniteSet(1..Len(q))
    BY <1>1, FS_Interval DEF WritesIn
  <2> QED
    BY <2>1, FS_Subset
<1> DEFINE f == [k \in WritesIn(Tail(q)) |-> k + 1]
<1>4. \A k \in WritesIn(Tail(q)) : k \in Nat /\ k + 1 \in WritesIn(q)
  BY <1>1, <1>2 DEF WritesIn
<1>5. f \in Injection(WritesIn(Tail(q)), WritesIn(q))
  BY <1>4 DEF Injection, IsInjective
<1> HIDE DEF f
<1> QED
  BY <1>3, <1>5, FS_Injection

\* No more slices than the most rows make.
LEMMA SliceBound ==
  ASSUME NEW i \in Nat, NEW m \in Nat, NEW n \in Nat \ {0}, i * n <= m
  PROVE  i <= m \div n
<1> DEFINE q == m \div n
<1>1. q \in Nat /\ m = n * q + (m % n) /\ m % n \in 0..(n - 1)
  OBVIOUS
<1> HIDE DEF q
<1>2. SUFFICES ASSUME i >= q + 1 PROVE FALSE
  BY <1>1 DEF q
<1>3. i * n >= (q + 1) * n
  BY <1>1, <1>2
<1>4. (q + 1) * n = n * q + n
  BY <1>1
<1> QED
  BY <1>1, <1>3, <1>4

LEMMA MaxSliceBound ==
  ASSUME NEW j \in Jobs, NEW i \in Nat, i * Limit <= j.rows
  PROVE  i + 1 \in 0..MaxSlice /\ i \in 0..MaxSlice /\ MaxSlice \in Nat
<1> DEFINE S == {j0.rows : j0 \in Jobs} \cup {0}
           most == CHOOSE m \in S : \A j1 \in Jobs : j1.rows <= m
<1>1. most \in S /\ \A j1 \in Jobs : j1.rows <= most
  BY ConstantsAssumption
<1>2. S \subseteq Nat
  BY ConstantsAssumption
<1>3. MaxSlice = 1 + most \div Limit
  BY DEF MaxSlice
<1> HIDE DEF S, most
<1>4. most \in Nat /\ j.rows \in Nat /\ Limit \in Nat \ {0}
  BY <1>1, <1>2, ConstantsAssumption
<1>5. i * Limit <= most /\ i * Limit \in Nat
  BY <1>1, <1>4
<1>6. i <= most \div Limit /\ most \div Limit \in Nat
  BY <1>4, <1>5, SliceBound
<1> QED
  BY <1>3, <1>6

-----------------------------------------------------------------------------
(***************************************************************************)
(* Publishing batches of a sink (ReplaySpill, PublishDirect, AcceptJson).  *)
(***************************************************************************)
Bodies(a, n) == [i \in 1..n |-> Body(a, i)]
NumberOf(e) == e.op.data[1][2]

\* An entry of the batch NumberOf(e) of sink a.
EventEntry(a, e) ==
  /\ e \in EntryType /\ e.stream \in Range(Targets[a]) /\ e.prefix = TRUE
  /\ NumberOf(e) \in Nat /\ e.op = Write(Whole(e.stream), Body(a, NumberOf(e)))

\* q brings the batches lo..hi of a, each once and in order, to each of its files.
Publication(a, q, lo, hi) ==
  /\ q \in Seq(EntryType)
  /\ \A k \in 1..Len(q) : EventEntry(a, q[k]) /\ NumberOf(q[k]) \in lo..hi
  /\ \A i, j \in 1..Len(q) :
       i < j /\ q[i].stream = q[j].stream => NumberOf(q[i]) < NumberOf(q[j])
  /\ \A f \in Range(Targets[a]) : \A n \in lo..hi :
       \E k \in 1..Len(q) : q[k].stream = f /\ NumberOf(q[k]) = n

LEMMA BodyType ==
  ASSUME NEW a \in Sinks, NEW n \in Nat
  PROVE  Body(a, n) \in FileType /\ Body(a, n) \in Seq(Tokens \X Nat)
<1>1. <<a, n>> \in Tokens \X Nat
  BY DEF Tokens, Assemblers
<1> QED
  BY <1>1 DEF Body, FileType

LEMMA WholeName == \A s \in Streams : Whole(s) \in Names
BY DEF Names

LEMMA OneBatch ==
  ASSUME NEW a \in Sinks, NEW n \in Nat, NEW r \in BOOLEAN
  PROVE  Publication(a, ToAll(a, Body(a, n), r), n, n)
<1> DEFINE T == Targets[a]
           q == ToAll(a, Body(a, n), r)
           e(k) == Entry(T[k], Write(Whole(T[k]), Body(a, n)), TRUE, r)
<1>1. T \in Seq(JsonFiles) /\ IsInjective(T)
  BY ConstantsAssumption
<1>2. Len(T) \in Nat /\ DOMAIN T = 1..Len(T) /\ \A k \in 1..Len(T) : T[k] \in JsonFiles
  BY <1>1, LenProperties, ElementOfSeq
<1>3. q = [k \in 1..Len(T) |-> e(k)]
  BY DEF ToAll
<1>4. ASSUME NEW k \in 1..Len(T)
      PROVE  e(k) \in EntryType /\ EventEntry(a, e(k)) /\ NumberOf(e(k)) = n /\ e(k).stream = T[k]
  <2>1. Whole(T[k]) \in Names /\ T[k] \in Streams
    BY <1>2, WholeName DEF Streams
  <2>2. Write(Whole(T[k]), Body(a, n)) \in OpType
    BY <2>1, BodyType DEF Write, OpType
  <2>3. e(k) \in EntryType
    BY <2>1, <2>2 DEF Entry, EntryType
  <2>4. T[k] \in Range(T)
    BY <1>2 DEF Range
  <2>5. NumberOf(e(k)) = n
    BY DEF Entry, Write, Body, NumberOf
  <2> QED
    BY <2>3, <2>4, <2>5 DEF EventEntry, Entry
<1> HIDE DEF e
<1>5. q \in Seq(EntryType) /\ Len(q) = Len(T) /\ \A k \in 1..Len(q) : q[k] = e(k)
  BY <1>2, <1>3, <1>4
<1> HIDE DEF q
<1>6. \A i, j \in 1..Len(q) : i < j /\ q[i].stream = q[j].stream => FALSE
  BY <1>1, <1>2, <1>4, <1>5 DEF IsInjective
<1>7. \A f \in Range(T) : \E k \in 1..Len(q) : q[k].stream = f
  BY <1>2, <1>4, <1>5 DEF Range
<1>8. \A k \in 1..Len(q) : EventEntry(a, q[k]) /\ NumberOf(q[k]) = n
  BY <1>4, <1>5
<1>9. Publication(a, q, n, n)
  BY <1>5, <1>6, <1>7, <1>8 DEF Publication
<1> QED
  BY <1>9 DEF q

LEMMA MoreBatches ==
  ASSUME NEW a \in Sinks, NEW lo \in Nat, NEW mid \in Nat, NEW hi \in Nat,
         lo <= mid + 1, mid <= hi,
         NEW q, Publication(a, q, lo, mid), NEW r, Publication(a, r, mid + 1, hi)
  PROVE  Publication(a, q \o r, lo, hi)
<1>1. q \in Seq(EntryType) /\ r \in Seq(EntryType)
  BY DEF Publication
<1>2. /\ q \o r \in Seq(EntryType) /\ Len(q \o r) = Len(q) + Len(r)
      /\ \A i \in 1..(Len(q) + Len(r)) : (q \o r)[i] = IF i <= Len(q) THEN q[i] ELSE r[i - Len(q)]
  BY <1>1, ConcatProperties
<1>3. Len(q) \in Nat /\ Len(r) \in Nat
  BY <1>1, LenProperties
<1> DEFINE c == q \o r
<1> HIDE DEF c
<1>4. /\ Len(c) = Len(q) + Len(r)
      /\ \A i \in 1..Len(c) : IF i <= Len(q) THEN i \in 1..Len(q) /\ c[i] = q[i]
                              ELSE i - Len(q) \in 1..Len(r) /\ c[i] = r[i - Len(q)]
  BY <1>2, <1>3 DEF c
<1>5. \A k \in 1..Len(c) : EventEntry(a, c[k]) /\ NumberOf(c[k]) \in lo..hi
  <2> TAKE k \in 1..Len(c)
  <2>1. CASE k <= Len(q)
    <3>1. k \in 1..Len(q) /\ c[k] = q[k]
      BY <1>4, <2>1
    <3>2. EventEntry(a, q[k]) /\ NumberOf(q[k]) \in lo..mid
      BY <3>1 DEF Publication
    <3> QED
      BY <3>1, <3>2
  <2>2. CASE ~(k <= Len(q))
    <3>1. k - Len(q) \in 1..Len(r) /\ c[k] = r[k - Len(q)]
      BY <1>4, <2>2
    <3>2. EventEntry(a, r[k - Len(q)]) /\ NumberOf(r[k - Len(q)]) \in (mid + 1)..hi
      BY <3>1 DEF Publication
    <3> QED
      BY <3>1, <3>2
  <2> QED
    BY <2>1, <2>2
<1>6. ASSUME NEW i \in 1..Len(c), NEW j \in 1..Len(c), i < j, c[i].stream = c[j].stream
      PROVE  NumberOf(c[i]) < NumberOf(c[j])
  <2>1. CASE i <= Len(q) /\ j <= Len(q)
    <3>1. i \in 1..Len(q) /\ j \in 1..Len(q) /\ c[i] = q[i] /\ c[j] = q[j]
      BY <1>4, <2>1
    <3> QED
      BY <1>6, <3>1 DEF Publication
  <2>2. CASE i <= Len(q) /\ ~(j <= Len(q))
    <3>1. /\ i \in 1..Len(q) /\ c[i] = q[i]
          /\ j - Len(q) \in 1..Len(r) /\ c[j] = r[j - Len(q)]
      BY <1>4, <2>2
    <3>2. NumberOf(q[i]) \in lo..mid /\ NumberOf(r[j - Len(q)]) \in (mid + 1)..hi
      BY <3>1 DEF Publication
    <3> QED
      BY <3>1, <3>2
  <2>3. CASE ~(i <= Len(q))
    <3>1. ~(j <= Len(q))
      BY <1>3, <1>6, <2>3
    <3>2. /\ i - Len(q) \in 1..Len(r) /\ c[i] = r[i - Len(q)]
          /\ j - Len(q) \in 1..Len(r) /\ c[j] = r[j - Len(q)]
          /\ i - Len(q) < j - Len(q)
      BY <1>3, <1>4, <1>6, <2>3, <3>1
    <3>3. r[i - Len(q)].stream = r[j - Len(q)].stream
      BY <1>6, <3>2
    <3> QED
      BY <3>2, <3>3 DEF Publication
  <2> QED
    BY <2>1, <2>2, <2>3
<1>7. ASSUME NEW f \in Range(Targets[a]), NEW n \in lo..hi
      PROVE  \E k \in 1..Len(c) : c[k].stream = f /\ NumberOf(c[k]) = n
  <2>1. CASE n <= mid
    <3>1. PICK k \in 1..Len(q) : q[k].stream = f /\ NumberOf(q[k]) = n
      BY <2>1 DEF Publication
    <3>2. k \in 1..Len(c) /\ c[k] = q[k]
      BY <1>3, <1>4
    <3> QED
      BY <3>1, <3>2
  <2>2. CASE ~(n <= mid)
    <3>1. n \in (mid + 1)..hi
      BY <2>2
    <3>2. PICK k \in 1..Len(r) : r[k].stream = f /\ NumberOf(r[k]) = n
      BY <3>1 DEF Publication
    <3>3. k + Len(q) \in 1..Len(c) /\ ~(k + Len(q) <= Len(q)) /\ (k + Len(q)) - Len(q) = k
      BY <1>3, <1>4
    <3>4. c[k + Len(q)] = r[k]
      BY <1>4, <3>3
    <3> QED
      BY <3>2, <3>3, <3>4
  <2> QED
    BY <2>1, <2>2
<1>8. c \in Seq(EntryType)
  BY <1>2 DEF c
<1>9. Publication(a, c, lo, hi)
  BY <1>5, <1>6, <1>7, <1>8 DEF Publication
<1> QED
  BY <1>9 DEF c

\* One record of the spill file, published.
Batch(a, n) == ToAll(a, Body(a, n), TRUE)

LEMMA OneRecord ==
  ASSUME NEW a \in Sinks, NEW n \in Nat
  PROVE  Publication(a, Batch(a, n), n, n) /\ Batch(a, n) \in Seq(EntryType)
<1>1. TRUE \in BOOLEAN
  OBVIOUS
<1>2. Publication(a, ToAll(a, Body(a, n), TRUE), n, n)
  BY <1>1, OneBatch, Zenon
<1> QED
  BY <1>2, Zenon DEF Batch, Publication

\* ReplaySpill publishes what is spilled.
LEMMA ReplayPublishes ==
  ASSUME NEW a \in Sinks
  PROVE  \A n \in Nat : Publication(a, Replay(a, Bodies(a, n)), 1, n)
<1> DEFINE ss(n) == [k \in 1..n |-> Batch(a, k)]
           Good == {n \in Nat : Publication(a, FlattenSeq(ss(n)), 1, n)}
<1>1. \A n \in Nat : Publication(a, Batch(a, n), n, n)
  BY OneRecord
<1>2. \A n \in Nat : Batch(a, n) \in Seq(EntryType)
  BY OneRecord
<1>3. \A n \in Nat : ss(n) \in Seq(Seq(EntryType)) /\ Len(ss(n)) = n
  BY <1>2
<1>4. \A n \in Nat : ss(n + 1) = Append(ss(n), Batch(a, n + 1))
  <2> TAKE n \in Nat
  <2> DEFINE x == Batch(a, n + 1)
             u == Append(ss(n), x)
             v == ss(n + 1)
  <2>1. x \in Seq(EntryType)
    BY <1>2
  <2>2. /\ u \in Seq(Seq(EntryType)) /\ Len(u) = n + 1 /\ u[n + 1] = x
        /\ \A i \in 1..n : u[i] = ss(n)[i]
    BY <1>3, <2>1, AppendProperties
  <2>3. v \in Seq(Seq(EntryType)) /\ Len(v) = n + 1
    BY <1>3
  <2>4. \A i \in 1..(n + 1) : u[i] = v[i]
    <3> TAKE i \in 1..(n + 1)
    <3>1. v[i] = Batch(a, i)
      OBVIOUS
    <3>2. i \in 1..n => ss(n)[i] = Batch(a, i)
      OBVIOUS
    <3>3. i \in 1..n \/ i = n + 1
      OBVIOUS
    <3> HIDE DEF u, v, ss
    <3> QED
      BY <2>2, <3>1, <3>2, <3>3
  <2> HIDE DEF u, v, ss
  <2>5. u = v
    BY <2>2, <2>3, <2>4, SeqEqual
  <2> QED
    BY <2>5 DEF u, v
<1>5. 0 \in Good
  <2>1. ss(0) = << >>
    OBVIOUS
  <2>0. FlattenSeq(<< >>) = << >>
    <3>1. Len(<< >>) = 0
      BY EmptySeq
    <3> QED
      BY <3>1, Zenon DEF FlattenSeq
  <2>2. Publication(a, << >>, 1, 0)
    BY DEF Publication
  <2> HIDE DEF ss
  <2> QED
    BY <2>0, <2>1, <2>2
<1> HIDE DEF ss
<1>6. ASSUME NEW n \in Nat, n \in Good PROVE n + 1 \in Good
  <2>1. FlattenSeq(ss(n + 1)) = FlattenSeq(ss(n)) \o Batch(a, n + 1)
    <3>1. /\ ss(n) \in Seq(Seq(EntryType)) /\ Batch(a, n + 1) \in Seq(EntryType)
          /\ ss(n + 1) = Append(ss(n), Batch(a, n + 1))
      <4>1. n \in Nat /\ n + 1 \in Nat
        OBVIOUS
      <4>2. Batch(a, n + 1) \in Seq(EntryType)
        BY <1>2, <4>1, Zenon
      <4>3. ss(n) \in Seq(Seq(EntryType)) /\ ss(n + 1) = Append(ss(n), Batch(a, n + 1))
        BY <1>3, <1>4, <4>1, Zenon
      <4> QED
        BY <4>2, <4>3, Zenon
    <3>2. FlattenSeq(Append(ss(n), Batch(a, n + 1))) = FlattenSeq(ss(n)) \o Batch(a, n + 1)
      BY <3>1, FlattenAppend, Zenon
    <3> QED
      BY <3>1, <3>2, Zenon
  <2>2. Publication(a, FlattenSeq(ss(n)), 1, n)
    BY <1>6
  <2>3. Publication(a, Batch(a, n + 1), n + 1, n + 1)
    BY <1>1
  <2>4. Publication(a, FlattenSeq(ss(n)) \o Batch(a, n + 1), 1, n + 1)
    BY <2>2, <2>3, MoreBatches
  <2>5. Publication(a, FlattenSeq(ss(n + 1)), 1, n + 1)
    BY <2>1, <2>4, Zenon
  <2>6. n + 1 \in Nat
    OBVIOUS
  <2> QED
    BY <2>5, <2>6, Zenon
<1> HIDE DEF Good
<1>7. Nat \subseteq Good
  BY <1>5, <1>6, SetInduction
<1>8. \A n \in Nat : Replay(a, Bodies(a, n)) = FlattenSeq(ss(n))
  <2> TAKE n \in Nat
  <2>1. Len(Bodies(a, n)) = n
    BY DEF Bodies
  <2>2. \A k \in 1..n : Bodies(a, n)[k] = Body(a, k)
    BY DEF Bodies
  <2>3. [k \in 1..Len(Bodies(a, n)) |-> ToAll(a, Bodies(a, n)[k], TRUE)] = ss(n)
    BY <2>1, <2>2, Zenon DEF ss, Batch
  <2> QED
    BY <2>3, Zenon DEF Replay
<1> QED
  BY <1>7, <1>8 DEF Good

-----------------------------------------------------------------------------
(***************************************************************************)
(* The types of the variables, and what they need.                         *)
(***************************************************************************)
PcValues == {"assemble", "rows", "sync", "done", "wait"} \cup JsonFiles

ActorTypes ==
  /\ pc \in [Actors -> PcValues]
  /\ verdict \in [Actors -> {"none", "ok", "failed", "discarded"}]
  /\ left \subseteq JsonFiles /\ ok \in BOOLEAN
OutTypes == out \in [Actors -> Seq(EntryType)]

\* A sink that assembles can make one more batch, and all it has made are spilled until
\* it publishes the first.
SinkWell(a) ==
  /\ pc[a] = "assemble" => made[a] < Batches
  /\ pc[a] # "done" =>
       spilled[a] = IF pc[a] = "assemble" /\ ~disabled[a] THEN Bodies(a, made[a]) ELSE << >>
SinkTypes ==
  /\ made \in [Sinks -> 0..Batches] /\ disabled \in [Sinks -> BOOLEAN]
  /\ spilled \in [Sinks -> Seq(FileType)] /\ synced \in [Sinks -> Nat]
  /\ \A a \in Sinks : SinkWell(a)

\* The stream of a table: how many rows it has had is what its slices hold.
CsvWell(t, c) ==
  /\ c.next \in 1..(c.job.rows + 1)
  /\ c.started = FALSE =>
       c.next = 1 /\ c.rowsInSlice = 0 /\ c.sliceIndex = 0 /\ c.buffer = << >>
  /\ c.started = TRUE =>
       /\ c.rowsInSlice \in 1..Limit /\ c.sliceIndex * Limit + c.rowsInSlice = c.next - 1
       /\ c.path = IF c.sliceMode THEN Slice(t, c.sliceIndex) ELSE Whole(t)
       /\ c.sliceMode = FALSE => c.sliceIndex = 0
CsvTypes == csv \in [Tables -> CsvType] /\ \A t \in Tables : CsvWell(t, csv[t])

StreamTypes ==
  /\ queue \in [Streams -> Seq(OpType)]
  /\ scheduled \in [Streams -> BOOLEAN] /\ opened \in [Streams -> BOOLEAN]
  /\ posting \in [Actors -> Streams \cup {NoStream}]
  /\ tasks \in Seq(Streams) /\ at \in [Drainers -> Streams \cup {NoStream}]
HandWell(d) == hand[d] = << >> \/ (at[d] # NoStream /\ \E op \in OpType : hand[d] = <<op>>)
HandTypes == hand \in [Drainers -> Seq(OpType)] /\ \A d \in Drainers : HandWell(d)
FileTypes == files \in [Names -> FileType]
Caps == \A s \in Streams : Cardinality(WritesIn(queue[s])) <= Cap

Types ==
  /\ ActorTypes /\ OutTypes /\ SinkTypes /\ CsvTypes /\ StreamTypes /\ HandTypes
  /\ FileTypes /\ Caps

LEMMA StreamKinds ==
  /\ Streams = JsonFiles \cup Tables /\ Sinks \subseteq Actors /\ Tables \subseteq Actors
  /\ Main \in Actors /\ Actors \subseteq Drainers /\ Threads \subseteq Drainers
BY DEF Streams, Actors, Assemblers, Drainers

LEMMA MarkTokens ==
  /\ \A m \in Marks : <<m, 0>> \in Tokens \X Nat
  /\ \A a \in Assemblers : \A n \in Nat : <<a, n>> \in Tokens \X Nat
  /\ Header \in FileType /\ Stale \in FileType /\ << >> \in FileType
  /\ << <<"]", 0>> >> \in FileType /\ << <<"[", 0>> >> \in FileType
  /\ << <<",", 0>> >> \in FileType
<1>1. /\ \A m \in Marks : <<m, 0>> \in Tokens \X Nat
      /\ \A a \in Assemblers : \A n \in Nat : <<a, n>> \in Tokens \X Nat
  BY DEF Tokens
<1>2. \A x \in Tokens \X Nat : <<x>> \in FileType
  BY DEF FileType
<1>3. \A m \in Marks : << <<m, 0>> >> \in FileType
  BY <1>1, <1>2
<1>4. {"stale", "header", "[", ",", "]"} \subseteq Marks /\ << >> \in FileType
  BY DEF Marks, FileType
<1> QED
  BY <1>1, <1>3, <1>4 DEF Header, Stale

LEMMA InitTypes == Init => Types
<1> SUFFICES ASSUME Init PROVE Types
  OBVIOUS
<1>1. ActorTypes /\ OutTypes
  <2>1. PICK c \in Casts :
          pc = [p \in Actors |-> IF p = Main THEN "wait"
                                 ELSE IF p \in c.who THEN "assemble" ELSE "done"]
    BY DEF Init
  <2>2. pc \in [Actors -> PcValues]
    BY <2>1 DEF PcValues
  <2> QED
    BY <2>2 DEF Init, ActorTypes, OutTypes
<1>2. SinkTypes
  <2> SUFFICES ASSUME NEW a \in Sinks PROVE SinkWell(a)
    BY ConstantsAssumption DEF Init, SinkTypes
  <2>1. Bodies(a, 0) = << >>
    BY DEF Bodies
  <2> QED
    BY <2>1, ConstantsAssumption DEF Init, SinkWell
<1>3. CsvTypes
  <2>1. PICK c \in Casts : \E js \in [Tables -> c.jobs] : csv = [t \in Tables |-> NewCsv(js[t])]
    BY DEF Init
  <2>2. PICK js \in [Tables -> c.jobs] : csv = [t \in Tables |-> NewCsv(js[t])]
    BY <2>1
  <2>3. c.jobs \subseteq Jobs
    BY ConstantsAssumption
  <2> SUFFICES ASSUME NEW t \in Tables PROVE csv[t] \in CsvType /\ CsvWell(t, csv[t])
    BY <2>2 DEF CsvTypes
  <2>4. csv[t] = NewCsv(js[t]) /\ js[t] \in Jobs /\ js[t].rows \in Nat
    BY <2>2, <2>3, ConstantsAssumption
  <2>5. 0 \in 0..MaxSlice
    BY <2>4, MaxSliceBound, ConstantsAssumption
  <2>6. << >> \in FileType
    BY MarkTokens
  <2>7. NewCsv(js[t]) \in CsvType
    BY <2>4, <2>5, <2>6 DEF NewCsv, CsvType
  <2> QED
    BY <2>4, <2>7 DEF NewCsv, CsvWell
<1>4. StreamTypes /\ HandTypes /\ FileTypes
  <2>1. StreamTypes
    <3>1. tasks \in Seq(Streams)
      BY DEF Init
    <3> QED
      BY <3>1 DEF Init, StreamTypes
  <2>2. HandTypes /\ FileTypes
    <3>1. << >> \in Seq(OpType)
      OBVIOUS
    <3> QED
      BY <3>1, MarkTokens DEF Init, HandTypes, HandWell, FileTypes
  <2> QED
    BY <2>1, <2>2
<1>5. Caps
  <2> SUFFICES ASSUME NEW s \in Streams PROVE Cardinality(WritesIn(queue[s])) <= Cap
    BY DEF Caps
  <2>1. WritesIn(queue[s]) = {}
    BY DEF Init, WritesIn
  <2> QED
    BY <2>1, FS_EmptySet, ConstantsAssumption
<1> QED
  BY <1>1, <1>2, <1>3, <1>4, <1>5 DEF Types

\* The operation Enqueue queues for an entry.
First(e) == e.prefix /\ ~opened[e.stream]
QueuedOp(e) ==
  IF e.prefix THEN [e.op EXCEPT !.data = << <<IF First(e) THEN "[" ELSE ",", 0>> >> \o @]
  ELSE e.op

LEMMA QueuedOpType ==
  ASSUME NEW e \in EntryType
  PROVE  QueuedOp(e) \in OpType /\ e.stream \in Streams
<1>1. e.op \in OpType /\ e.prefix \in BOOLEAN /\ e.stream \in Streams
  BY DEF EntryType
<1>2. CASE e.prefix
  <2> DEFINE sep == << <<IF First(e) THEN "[" ELSE ",", 0>> >>
  <2>1. sep \in FileType
    BY MarkTokens
  <2> HIDE DEF sep
  <2>2. e.op.data \in FileType /\ sep \o e.op.data \in FileType
    BY <1>1, <2>1, ConcatProperties DEF OpType, FileType
  <2>3. [e.op EXCEPT !.data = sep \o @] \in OpType
    BY <1>1, <2>2 DEF OpType
  <2> QED
    BY <1>1, <1>2, <2>3 DEF QueuedOp, sep
<1> QED
  BY <1>1, <1>2 DEF QueuedOp

LEMMA EnqueueEffect ==
  ASSUME Types, NEW p \in Actors, Enqueue(p), NEW e, e = Head(out[p])
  PROVE  /\ Free(p) /\ out[p] # << >> /\ e \in EntryType /\ e.stream \in Streams
         /\ QueuedOp(e) \in OpType /\ HasRoom(e.stream)
         /\ queue' = [queue EXCEPT ![e.stream] = Append(@, QueuedOp(e))]
         /\ opened' = [opened EXCEPT ![e.stream] = @ \/ e.prefix]
         /\ files' = IF First(e) THEN [files EXCEPT ![Whole(e.stream)] = << >>] ELSE files
         /\ scheduled' = [scheduled EXCEPT ![e.stream] = TRUE]
         /\ posting' = [posting EXCEPT ![p] = IF MustSchedule(e.stream) THEN e.stream ELSE @]
         /\ out' = [out EXCEPT ![p] = Tail(@)]
         /\ UNCHANGED <<pc, csv, verdict, left, sinkVars, tasks, at, hand, ok>>
<1>1. out[p] \in Seq(EntryType) /\ out[p] # << >>
  BY DEF Types, OutTypes, Enqueue
<1>2. e \in EntryType
  BY <1>1, HeadTailProperties
<1>3. QueuedOp(e) \in OpType /\ e.stream \in Streams
  BY <1>2, QueuedOpType
<1> QED
  BY <1>1, <1>2, <1>3 DEF Enqueue, QueuedOp, First

\* The parts of Types hold on where a step leaves their variables alone.
LEMMA TypesKept ==
  ASSUME Types
  PROVE  /\ UNCHANGED <<pc, verdict, left, ok>> => ActorTypes'
         /\ UNCHANGED out => OutTypes'
         /\ UNCHANGED <<sinkVars, pc>> => SinkTypes'
         /\ UNCHANGED csv => CsvTypes'
         /\ UNCHANGED <<streamVars, posting, tasks, at>> => StreamTypes'
         /\ UNCHANGED <<hand, at>> => HandTypes'
         /\ UNCHANGED files => FileTypes'
         /\ UNCHANGED queue => Caps'
<1>1. UNCHANGED <<pc, verdict, left, ok>> => ActorTypes'
  BY DEF Types, ActorTypes
<1>2. UNCHANGED out => OutTypes'
  BY DEF Types, OutTypes
<1>3. UNCHANGED <<sinkVars, pc>> => SinkTypes'
  BY DEF Types, SinkTypes, SinkWell, sinkVars
<1>4. UNCHANGED csv => CsvTypes'
  BY DEF Types, CsvTypes
<1>5. UNCHANGED <<streamVars, posting, tasks, at>> => StreamTypes'
  BY DEF Types, StreamTypes, streamVars
<1>6. UNCHANGED <<hand, at>> => HandTypes'
  BY DEF Types, HandTypes, HandWell
<1>7. UNCHANGED files => FileTypes'
  BY DEF Types, FileTypes
<1>8. UNCHANGED queue => Caps'
  BY DEF Types, Caps
<1> QED
  BY <1>1, <1>2, <1>3, <1>4, <1>5, <1>6, <1>7, <1>8

LEMMA WritesCount ==
  ASSUME NEW q \in Seq(OpType)
  PROVE  Cardinality(WritesIn(q)) \in Nat
<1>1. Len(q) \in Nat /\ DOMAIN q = 1..Len(q)
  BY LenProperties
<1>2. WritesIn(q) \in SUBSET (1..Len(q)) /\ IsFiniteSet(1..Len(q))
  BY <1>1, FS_Interval DEF WritesIn
<1> QED
  BY <1>2, FS_Subset, FS_CardinalityType

LEMMA EnqueueTypes ==
  ASSUME Types, NEW p \in Actors, Enqueue(p)
  PROVE  Types'
<1> DEFINE e == Head(out[p])
           s == e.stream
<1>1. /\ out[p] # << >> /\ e \in EntryType /\ s \in Streams
      /\ QueuedOp(e) \in OpType /\ HasRoom(s)
      /\ queue' = [queue EXCEPT ![s] = Append(@, QueuedOp(e))]
      /\ opened' = [opened EXCEPT ![s] = @ \/ e.prefix]
      /\ files' = IF First(e) THEN [files EXCEPT ![Whole(s)] = << >>] ELSE files
      /\ scheduled' = [scheduled EXCEPT ![s] = TRUE]
      /\ posting' = [posting EXCEPT ![p] = IF MustSchedule(s) THEN s ELSE @]
      /\ out' = [out EXCEPT ![p] = Tail(@)]
      /\ UNCHANGED <<pc, csv, verdict, left, sinkVars, tasks, at, hand, ok>>
  BY EnqueueEffect
<1>0. e.prefix \in BOOLEAN
  BY <1>1 DEF EntryType
<1> HIDE DEF e
<1>2. /\ queue \in [Streams -> Seq(OpType)] /\ opened \in [Streams -> BOOLEAN]
      /\ scheduled \in [Streams -> BOOLEAN] /\ posting \in [Actors -> Streams \cup {NoStream}]
      /\ out \in [Actors -> Seq(EntryType)]
  BY DEF Types, StreamTypes, OutTypes
<1>3. StreamTypes'
  <2>1. Append(queue[s], QueuedOp(e)) \in Seq(OpType)
    BY <1>1, <1>2, AppendProperties
  <2>2. /\ queue' \in [Streams -> Seq(OpType)] /\ opened' \in [Streams -> BOOLEAN]
        /\ scheduled' \in [Streams -> BOOLEAN]
    BY <1>0, <1>1, <1>2, <2>1
  <2>3. posting' \in [Actors -> Streams \cup {NoStream}]
    BY <1>1, <1>2
  <2> QED
    BY <1>1, <2>2, <2>3 DEF Types, StreamTypes
<1>4. OutTypes'
  <2>1. Tail(out[p]) \in Seq(EntryType)
    BY <1>1, <1>2, HeadTailProperties
  <2> QED
    BY <1>1, <1>2, <2>1 DEF OutTypes
<1>5. FileTypes'
  BY <1>1, MarkTokens DEF Types, FileTypes
<1>6. Caps'
  <2> SUFFICES ASSUME NEW u \in Streams PROVE Cardinality(WritesIn(queue'[u])) <= Cap
    BY DEF Caps, WritesIn
  <2>1. CASE u = s
    <3>1. queue'[u] = Append(queue[u], QueuedOp(e)) /\ queue[u] \in Seq(OpType)
      BY <1>1, <1>2, <2>1
    <3>2. Cardinality(WritesIn(queue[u])) < Cap
      BY <1>1, <2>1 DEF HasRoom, QueuedBytes, WritesIn
    <3>3. Cardinality(WritesIn(queue'[u])) <= Cardinality(WritesIn(queue[u])) + 1
      BY <1>1, <3>1, WritesOfAppend
    <3>4. Cardinality(WritesIn(queue[u])) \in Nat /\ Cardinality(WritesIn(queue'[u])) \in Nat
      <4>1. queue'[u] \in Seq(OpType)
        BY <1>1, <3>1, AppendProperties
      <4> QED
        BY <3>1, <4>1, WritesCount
    <3>5. Cap \in Nat
      BY ConstantsAssumption
    <3> QED
      BY <3>2, <3>3, <3>4, <3>5
  <2>2. CASE u # s
    <3>1. queue'[u] = queue[u]
      BY <1>1, <1>2, <2>2
    <3> QED
      BY <3>1 DEF Types, Caps
  <2> QED
    BY <2>1, <2>2
<1> QED
  BY <1>1, <1>3, <1>4, <1>5, <1>6, TypesKept DEF Types, sinkVars

\* A stream that is given up.
LEMMA FailStreamTypes ==
  ASSUME Types, NEW s \in Streams, FailStream(s)
  PROVE  /\ queue' \in [Streams -> Seq(OpType)] /\ scheduled' \in [Streams -> BOOLEAN]
         /\ ok' = FALSE /\ Caps'
<1>1. /\ queue' = [queue EXCEPT ![s] = << >>] /\ ok' = FALSE
      /\ scheduled' = [scheduled EXCEPT ![s] = FALSE]
  BY DEF FailStream, Dropped
<1>2. queue \in [Streams -> Seq(OpType)] /\ scheduled \in [Streams -> BOOLEAN]
  BY DEF Types, StreamTypes
<1>3. << >> \in Seq(OpType)
  OBVIOUS
<1>4. ASSUME NEW u \in Streams PROVE Cardinality(WritesIn(queue'[u])) <= Cap
  <2>1. CASE u = s
    <3>1. WritesIn(queue'[u]) = {}
      BY <1>1, <1>2, <2>1 DEF WritesIn
    <3> QED
      BY <3>1, FS_EmptySet, ConstantsAssumption
  <2>2. CASE u # s
    <3>1. queue'[u] = queue[u]
      BY <1>1, <1>2, <2>2
    <3> QED
      BY <3>1 DEF Types, Caps
  <2> QED
    BY <2>1, <2>2
<1>5. Caps'
  BY <1>4 DEF Caps, WritesIn
<1> QED
  BY <1>1, <1>2, <1>3, <1>5

LEMMA ScheduleTypes ==
  ASSUME Types, NEW p \in Actors, Schedule(p)
  PROVE  Types'
<1>1. /\ posting[p] # NoStream /\ posting' = [posting EXCEPT ![p] = NoStream]
      /\ UNCHANGED <<pc, out, csv, verdict, left, sinkVars, opened, hand, files>>
  BY DEF Schedule
<1>2. posting \in [Actors -> Streams \cup {NoStream}] /\ posting[p] \in Streams
  BY <1>1 DEF Types, StreamTypes
<1>3. posting' \in [Actors -> Streams \cup {NoStream}]
  BY <1>1, <1>2
<1>4. OutTypes' /\ SinkTypes' /\ CsvTypes' /\ FileTypes'
  BY <1>1, TypesKept DEF sinkVars
<1>5. CASE tasks' = Append(tasks, posting[p]) /\ UNCHANGED <<at, queue, scheduled, ok>>
  <2>1. tasks' \in Seq(Streams)
    BY <1>2, <1>5, AppendProperties DEF Types, StreamTypes
  <2>2. StreamTypes'
    BY <1>1, <1>3, <1>5, <2>1 DEF Types, StreamTypes
  <2> QED
    BY <1>1, <1>4, <1>5, <2>2, TypesKept DEF Types
<1>6. CASE at' = [at EXCEPT ![p] = posting[p]] /\ UNCHANGED <<tasks, queue, scheduled, ok>>
  <2>1. StreamTypes'
    BY <1>1, <1>2, <1>3, <1>6 DEF Types, StreamTypes
  <2>2. HandTypes'
    <3> SUFFICES ASSUME NEW d \in Drainers PROVE HandWell(d)'
      BY <1>1 DEF Types, HandTypes
    <3>1. at'[d] # NoStream \/ at'[d] = at[d]
      BY <1>1, <1>6, <2>1 DEF Types, StreamTypes
    <3> QED
      BY <1>1, <3>1 DEF Types, HandTypes, HandWell
  <2> QED
    BY <1>1, <1>4, <1>6, <2>1, <2>2, TypesKept DEF Types
<1>7. CASE FailStream(posting[p]) /\ UNCHANGED <<tasks, at>>
  <2>1. /\ queue' \in [Streams -> Seq(OpType)] /\ scheduled' \in [Streams -> BOOLEAN]
        /\ ok' = FALSE /\ Caps'
    BY <1>2, <1>7, FailStreamTypes
  <2>2. StreamTypes' /\ ActorTypes'
    BY <1>1, <1>3, <1>7, <2>1 DEF Types, StreamTypes, ActorTypes
  <2>3. HandTypes'
    BY <1>1, <1>7, TypesKept
  <2> QED
    BY <1>4, <2>1, <2>2, <2>3 DEF Types
<1> QED
  BY <1>5, <1>6, <1>7 DEF Schedule

LEMMA FetchTypes ==
  ASSUME Types, NEW d \in Drainers, Fetch(d)
  PROVE  Types'
<1>1. /\ tasks # << >> /\ at' = [at EXCEPT ![d] = Head(tasks)] /\ tasks' = Tail(tasks)
      /\ at[d] = NoStream
      /\ UNCHANGED <<pc, out, posting, csv, verdict, left, sinkVars, streamVars, hand, files, ok>>
  BY DEF Fetch, actorVars
<1>2. Head(tasks) \in Streams /\ Tail(tasks) \in Seq(Streams)
  BY <1>1, HeadTailProperties DEF Types, StreamTypes
<1>3. StreamTypes'
  BY <1>1, <1>2 DEF Types, StreamTypes, streamVars
<1>4. HandTypes'
  <2> SUFFICES ASSUME NEW x \in Drainers PROVE HandWell(x)'
    BY <1>1 DEF Types, HandTypes
  <2>1. at'[x] # NoStream \/ at'[x] = at[x]
    BY <1>1, <1>2, NamesApart DEF Types, StreamTypes
  <2> QED
    BY <1>1, <2>1 DEF Types, HandTypes, HandWell
<1> QED
  BY <1>1, <1>3, <1>4, TypesKept DEF Types, sinkVars, streamVars

LEMMA PopTypes ==
  ASSUME Types, NEW d \in Drainers, Pop(d)
  PROVE  Types'
<1> DEFINE s == at[d]
<1>1. /\ s # NoStream /\ hand[d] = << >>
      /\ UNCHANGED <<pc, out, posting, csv, verdict, left, sinkVars, opened, tasks, files, ok>>
  BY DEF Pop, actorVars
<1>2. /\ s \in Streams /\ queue[s] \in Seq(OpType) /\ queue \in [Streams -> Seq(OpType)]
      /\ scheduled \in [Streams -> BOOLEAN] /\ at \in [Drainers -> Streams \cup {NoStream}]
  BY <1>1 DEF Types, StreamTypes
<1>3. ActorTypes' /\ OutTypes' /\ SinkTypes' /\ CsvTypes' /\ FileTypes'
  BY <1>1, TypesKept DEF sinkVars
<1>4. CASE scheduled' = [scheduled EXCEPT ![s] = FALSE] /\ at' = [at EXCEPT ![d] = NoStream]
           /\ UNCHANGED <<queue, hand>>
  <2>1. StreamTypes' /\ Caps'
    BY <1>1, <1>2, <1>4 DEF Types, StreamTypes, Caps
  <2>2. HandTypes'
    <3> SUFFICES ASSUME NEW x \in Drainers PROVE HandWell(x)'
      BY <1>4 DEF Types, HandTypes
    <3>1. x = d \/ at'[x] = at[x]
      BY <1>2, <1>4
    <3> QED
      BY <1>1, <1>4, <3>1 DEF Types, HandTypes, HandWell
  <2> QED
    BY <1>3, <2>1, <2>2 DEF Types
<1>5. CASE queue[s] # << >> /\ hand' = [hand EXCEPT ![d] = <<Head(queue[s])>>]
           /\ queue' = [queue EXCEPT ![s] = Tail(@)] /\ UNCHANGED <<scheduled, at>>
  <2>1. Head(queue[s]) \in OpType /\ Tail(queue[s]) \in Seq(OpType)
    BY <1>2, <1>5, HeadTailProperties
  <2>2. StreamTypes'
    BY <1>1, <1>2, <1>5, <2>1 DEF Types, StreamTypes
  <2>3. HandTypes'
    <3>0. <<Head(queue[s])>> \in Seq(OpType)
      BY <2>1
    <3> SUFFICES ASSUME NEW x \in Drainers PROVE HandWell(x)'
      BY <1>5, <3>0 DEF Types, HandTypes
    <3>1. IF x = d THEN hand'[x] = <<Head(queue[s])>> ELSE hand'[x] = hand[x]
      BY <1>5 DEF Types, HandTypes
    <3> QED
      BY <1>1, <1>5, <2>1, <3>1 DEF Types, HandTypes, HandWell
  <2>4. Caps'
    <3> SUFFICES ASSUME NEW u \in Streams PROVE Cardinality(WritesIn(queue'[u])) <= Cap
      BY DEF Caps, WritesIn
    <3>1. CASE u = s
      <4>1. queue'[u] = Tail(queue[u])
        BY <1>2, <1>5, <3>1
      <4>2. Cardinality(WritesIn(queue'[u])) <= Cardinality(WritesIn(queue[u]))
        BY <1>2, <1>5, <3>1, <4>1, WritesOfTail
      <4>3. Cardinality(WritesIn(queue[u])) \in Nat /\ Cardinality(WritesIn(queue'[u])) \in Nat
        BY <1>2, <2>1, <3>1, <4>1, WritesCount
      <4>4. Cardinality(WritesIn(queue[u])) <= Cap /\ Cap \in Nat
        BY ConstantsAssumption DEF Types, Caps
      <4> QED
        BY <4>2, <4>3, <4>4
    <3>2. CASE u # s
      <4>1. queue'[u] = queue[u]
        BY <1>2, <1>5, <3>2
      <4> QED
        BY <4>1 DEF Types, Caps
    <3> QED
      BY <3>1, <3>2
  <2> QED
    BY <1>3, <2>2, <2>3, <2>4 DEF Types
<1> QED
  BY <1>4, <1>5 DEF Pop

LEMMA PerformTypes ==
  ASSUME Types, NEW d \in Drainers, Perform(d)
  PROVE  Types'
<1>1. /\ hand[d] # << >> /\ hand' = [hand EXCEPT ![d] = << >>]
      /\ UNCHANGED <<pc, out, posting, csv, verdict, left, sinkVars, opened, tasks>>
  BY DEF Perform, actorVars
<1>2. PICK op \in OpType : hand[d] = <<op>> /\ at[d] # NoStream
  BY <1>1 DEF Types, HandTypes, HandWell
<1>3. Head(hand[d]) = op /\ at[d] \in Streams
  BY <1>2 DEF Types, StreamTypes
<1>4. OutTypes' /\ SinkTypes' /\ CsvTypes'
  BY <1>1, TypesKept DEF sinkVars
<1>0. << >> \in Seq(OpType)
  OBVIOUS
<1>5. /\ hand' \in [Drainers -> Seq(OpType)]
      /\ \A x \in Drainers : hand'[x] = IF x = d THEN << >> ELSE hand[x]
  BY <1>0, <1>1 DEF Types, HandTypes
<1>6. CASE UNCHANGED <<queue, scheduled, at, ok>> /\ FileTypes'
  <2>1. HandTypes'
    BY <1>1, <1>5, <1>6 DEF Types, HandTypes, HandWell
  <2> QED
    BY <1>1, <1>4, <1>6, <2>1, TypesKept DEF Types, streamVars
<1>7. CASE UNCHANGED <<queue, scheduled, at, files>> /\ ok' = FALSE
  <2>1. HandTypes' /\ ActorTypes'
    BY <1>1, <1>5, <1>7 DEF Types, HandTypes, HandWell, ActorTypes
  <2> QED
    BY <1>1, <1>4, <1>7, <2>1, TypesKept DEF Types, streamVars
<1>8. CASE FailStream(at[d]) /\ at' = [at EXCEPT ![d] = NoStream] /\ UNCHANGED files
  <2>1. /\ queue' \in [Streams -> Seq(OpType)] /\ scheduled' \in [Streams -> BOOLEAN]
        /\ ok' = FALSE /\ Caps'
    BY <1>3, <1>8, FailStreamTypes
  <2>2. StreamTypes' /\ ActorTypes'
    BY <1>1, <1>8, <2>1 DEF Types, StreamTypes, ActorTypes
  <2>3. HandTypes'
    <3> SUFFICES ASSUME NEW x \in Drainers PROVE HandWell(x)'
      BY <1>5 DEF Types, HandTypes
    <3>1. x = d \/ at'[x] = at[x]
      BY <1>8 DEF Types, StreamTypes
    <3> QED
      BY <1>5, <3>1 DEF Types, HandTypes, HandWell
  <2>4. FileTypes'
    BY <1>8, TypesKept
  <2> QED
    BY <1>4, <2>1, <2>2, <2>3, <2>4 DEF Types
<1>9. \/ /\ files' = [files EXCEPT ![op.file] = @ \o op.data]
         /\ UNCHANGED <<queue, scheduled, at, ok>>
      \/ /\ files' = [files EXCEPT ![op.to] = files[op.file], ![op.file] = << >>]
         /\ UNCHANGED <<queue, scheduled, at, ok>>
      \/ ok' = FALSE /\ UNCHANGED <<queue, scheduled, at, files>>
      \/ FailStream(at[d]) /\ at' = [at EXCEPT ![d] = NoStream] /\ UNCHANGED files
  <2>1. \/ /\ files' = [files EXCEPT ![Head(hand[d]).file] = @ \o Head(hand[d]).data]
           /\ UNCHANGED <<queue, scheduled, at, ok>>
        \/ /\ files' = [files EXCEPT ![Head(hand[d]).to] = files[Head(hand[d]).file],
                                     ![Head(hand[d]).file] = << >>]
           /\ UNCHANGED <<queue, scheduled, at, ok>>
        \/ ok' = FALSE /\ UNCHANGED <<queue, scheduled, at, files>>
        \/ FailStream(at[d]) /\ at' = [at EXCEPT ![d] = NoStream] /\ UNCHANGED files
    BY DEF Perform
  <2>2. Head(hand[d]) = op
    BY <1>3
  <2> QED
    BY <2>1, <2>2
<1>10. (files' = [files EXCEPT ![op.file] = @ \o op.data] => FileTypes')
       /\ (files' = [files EXCEPT ![op.to] = files[op.file], ![op.file] = << >>] => FileTypes')
  <2>1. files' = [files EXCEPT ![op.file] = @ \o op.data] => FileTypes'
    <3>1. op.file \in Names /\ files[op.file] \in FileType /\ op.data \in FileType
      BY DEF OpType, Types, FileTypes
    <3>2. files[op.file] \o op.data \in FileType
      BY <3>1, ConcatProperties DEF FileType
    <3> QED
      BY <3>2 DEF Types, FileTypes
  <2>2. files' = [files EXCEPT ![op.to] = files[op.file], ![op.file] = << >>] => FileTypes'
    <3>1. op.file \in Names /\ op.to \in Names /\ << >> \in FileType
      BY MarkTokens DEF OpType
    <3> QED
      BY <3>1 DEF Types, FileTypes
  <2> QED
    BY <2>1, <2>2
<1> QED
  BY <1>6, <1>7, <1>8, <1>9, <1>10

LEMMA BodiesAppend ==
  ASSUME NEW a \in Sinks, NEW n \in Nat
  PROVE  Append(Bodies(a, n), Body(a, n + 1)) = Bodies(a, n + 1)
         /\ Bodies(a, n) \in Seq(FileType) /\ Len(Bodies(a, n)) = n
<1>1. \A i \in Nat : Body(a, i) \in FileType
  BY BodyType
<1> HIDE DEF Body
<1>2. /\ Bodies(a, n) \in Seq(FileType) /\ Len(Bodies(a, n)) = n
      /\ Bodies(a, n + 1) \in Seq(FileType) /\ Len(Bodies(a, n + 1)) = n + 1
      /\ \A i \in 1..n : Bodies(a, n)[i] = Body(a, i)
      /\ \A i \in 1..(n + 1) : Bodies(a, n + 1)[i] = Body(a, i)
  BY <1>1 DEF Bodies
<1> DEFINE u == Append(Bodies(a, n), Body(a, n + 1))
<1>3. /\ u \in Seq(FileType) /\ Len(u) = n + 1 /\ u[n + 1] = Body(a, n + 1)
      /\ \A i \in 1..n : u[i] = Bodies(a, n)[i]
  BY <1>1, <1>2, AppendProperties
<1> HIDE DEF u
<1>4. \A i \in 1..(n + 1) : i \in 1..n \/ i = n + 1
  OBVIOUS
<1>5. \A i \in 1..(n + 1) : u[i] = Bodies(a, n + 1)[i]
  BY <1>2, <1>3, <1>4
<1>6. u = Bodies(a, n + 1)
  BY <1>2, <1>3, <1>5, SeqEqual
<1> QED
  BY <1>2, <1>6 DEF u

\* A batch published without replay (AcceptJson).
LEMMA OneDirect ==
  ASSUME NEW a \in Sinks, NEW n \in Nat
  PROVE  Publication(a, Rest(a, n), n, n)
<1>1. FALSE \in BOOLEAN
  OBVIOUS
<1>2. Publication(a, ToAll(a, Body(a, n), FALSE), n, n)
  BY <1>1, OneBatch, Zenon
<1> QED
  BY <1>2, Zenon DEF Rest

LEMMA NothingReplayed ==
  ASSUME NEW a \in Sinks
  PROVE  Replay(a, << >>) = << >>
<1>1. Len(<< >>) = 0
  BY EmptySeq
<1>2. [k \in 1..Len(<< >>) |-> ToAll(a, << >>[k], TRUE)] = << >>
  BY <1>1
<1>3. FlattenSeq(<< >>) = << >>
  BY <1>1, Zenon DEF FlattenSeq
<1> QED
  BY <1>2, <1>3, Zenon DEF Replay

\* The first batch that is published next, in a sink that assembles.
FirstNew(a) == IF disabled[a] THEN made[a] + 1 ELSE 1

LEMMA PublishNext ==
  ASSUME NEW a \in Sinks, SinkWell(a), pc[a] = "assemble", made[a] \in Nat
  PROVE  /\ Publication(a, ReplayThenRest(a, made[a] + 1), FirstNew(a), made[a] + 1)
         /\ Publication(a, Replay(a, spilled[a]), FirstNew(a), made[a])
         /\ spilled[a] # << >> =>
              Publication(a, Replay(a, Append(spilled[a], Body(a, made[a] + 1))),
                          FirstNew(a), made[a] + 1)
<1>1. made[a] \in Nat
  OBVIOUS
<1>2. Publication(a, Rest(a, made[a] + 1), made[a] + 1, made[a] + 1)
  BY <1>1, OneDirect
<1>3. CASE disabled[a]
  <2>1. spilled[a] = << >> /\ FirstNew(a) = made[a] + 1
    BY <1>3 DEF SinkWell, FirstNew
  <2>2. Replay(a, spilled[a]) = << >>
    BY <2>1, NothingReplayed
  <2>3. << >> \o Rest(a, made[a] + 1) = Rest(a, made[a] + 1)
    BY <1>2, ConcatEmptySeq DEF Publication
  <2>4. ReplayThenRest(a, made[a] + 1) = Rest(a, made[a] + 1)
    BY <2>2, <2>3 DEF ReplayThenRest
  <2>5. Publication(a, << >>, made[a] + 1, made[a])
    BY <1>1 DEF Publication
  <2>6. /\ Publication(a, ReplayThenRest(a, made[a] + 1), FirstNew(a), made[a] + 1)
        /\ Publication(a, Replay(a, spilled[a]), FirstNew(a), made[a])
    BY <1>2, <2>1, <2>2, <2>4, <2>5, Zenon
  <2> QED
    BY <2>1, <2>6
<1>4. CASE ~disabled[a]
  <2>1. spilled[a] = Bodies(a, made[a]) /\ FirstNew(a) = 1
    BY <1>4 DEF SinkWell, FirstNew
  <2>2. Publication(a, Replay(a, spilled[a]), 1, made[a])
    BY <1>1, <2>1, ReplayPublishes
  <2>3. Publication(a, Replay(a, spilled[a]) \o Rest(a, made[a] + 1), 1, made[a] + 1)
    <3>1. 1 \in Nat /\ made[a] + 1 \in Nat /\ 1 <= made[a] + 1 /\ made[a] <= made[a] + 1
      BY <1>1
    <3> QED
      BY <1>1, <1>2, <2>2, <3>1, MoreBatches, Zenon
  <2>4. Append(spilled[a], Body(a, made[a] + 1)) = Bodies(a, made[a] + 1)
    BY <1>1, <2>1, BodiesAppend
  <2>5. Publication(a, Replay(a, Bodies(a, made[a] + 1)), 1, made[a] + 1)
    <3>1. made[a] + 1 \in Nat
      BY <1>1
    <3> QED
      BY <3>1, ReplayPublishes, Zenon
  <2> QED
    BY <2>1, <2>2, <2>3, <2>4, <2>5 DEF ReplayThenRest
<1> QED
  BY <1>3, <1>4

\* push_back spills the batch it has made, or publishes all there is.
LEMMA PushEffect ==
  ASSUME Types, NEW a \in Sinks, PushBatch(a)
  PROVE  /\ pc[a] = "assemble" /\ Idle(a) /\ made[a] + 1 < Batches
         /\ made' = [made EXCEPT ![a] = @ + 1]
         /\ UNCHANGED <<pc, posting, synced, csv, verdict, left, streamVars, drainVars, files, ok>>
         /\ \/ /\ ~disabled[a] /\ spilled' = [spilled EXCEPT ![a] = Bodies(a, made[a] + 1)]
               /\ UNCHANGED <<out, disabled>>
            \/ /\ disabled' = [disabled EXCEPT ![a] = TRUE]
               /\ spilled' = [spilled EXCEPT ![a] = << >>]
               /\ out' = [out EXCEPT ![a] = ReplayThenRest(a, made[a] + 1)]
               /\ Publication(a, ReplayThenRest(a, made[a] + 1), FirstNew(a), made[a] + 1)
<1>1. /\ pc[a] = "assemble" /\ Idle(a) /\ made[a] + 1 < Batches
      /\ made' = [made EXCEPT ![a] = @ + 1]
      /\ UNCHANGED <<pc, posting, synced, csv, verdict, left, streamVars, drainVars, files, ok>>
  BY DEF PushBatch
<1>2. SinkWell(a) /\ made \in [Sinks -> 0..Batches] /\ made[a] \in Nat
  BY ConstantsAssumption DEF Types, SinkTypes, SinkWell
<1>3. made'[a] = made[a] + 1
  BY <1>1, <1>2
<1>4. ~disabled[a] => Append(spilled[a], Body(a, made[a] + 1)) = Bodies(a, made[a] + 1)
  BY <1>1, <1>2, BodiesAppend DEF SinkWell
<1>5. Publication(a, ReplayThenRest(a, made[a] + 1), FirstNew(a), made[a] + 1)
  BY <1>1, <1>2, PublishNext
<1>6. \/ /\ ~disabled[a]
         /\ spilled' = [spilled EXCEPT ![a] = Append(@, Body(a, made'[a]))]
         /\ UNCHANGED <<out, disabled>>
      \/ /\ disabled' = [disabled EXCEPT ![a] = TRUE]
         /\ out' = [out EXCEPT ![a] = ReplayThenRest(a, made'[a])]
         /\ spilled' = [spilled EXCEPT ![a] = << >>]
  BY DEF PushBatch
<1> QED
  BY <1>1, <1>3, <1>4, <1>5, <1>6

\* The step has a made n batches and publish those that were not, as q.
Published(a, n, q) ==
  /\ made' = [made EXCEPT ![a] = n] /\ out' = [out EXCEPT ![a] = q]
  /\ Publication(a, q, FirstNew(a), n)

\* Flush publishes all there is, and the rest if there is one.
LEMMA FlushEffect ==
  ASSUME Types, NEW a \in Sinks, Flush(a)
  PROVE  /\ pc[a] = "assemble" /\ Idle(a) /\ pc' = [pc EXCEPT ![a] = "sync"]
         /\ spilled' = [spilled EXCEPT ![a] = << >>]
         /\ UNCHANGED <<posting, synced, csv, verdict, left, disabled, streamVars, drainVars,
                        files, ok>>
         /\ \E n \in {made[a], made[a] + 1} : \E q : Published(a, n, q)
<1>1. /\ pc[a] = "assemble" /\ Idle(a) /\ pc' = [pc EXCEPT ![a] = "sync"]
      /\ spilled' = [spilled EXCEPT ![a] = << >>]
      /\ UNCHANGED <<posting, synced, csv, verdict, left, disabled, streamVars, drainVars,
                     files, ok>>
  BY DEF Flush
<1>2. SinkWell(a) /\ made \in [Sinks -> 0..Batches] /\ made[a] \in Nat
  BY ConstantsAssumption DEF Types, SinkTypes, SinkWell
<1>3. /\ Publication(a, ReplayThenRest(a, made[a] + 1), FirstNew(a), made[a] + 1)
      /\ Publication(a, Replay(a, spilled[a]), FirstNew(a), made[a])
      /\ spilled[a] # << >> =>
           Publication(a, Replay(a, Append(spilled[a], Body(a, made[a] + 1))),
                       FirstNew(a), made[a] + 1)
  BY <1>1, <1>2, PublishNext
<1> DEFINE m == made[a]
           x == ReplayThenRest(a, m + 1)
           y == Replay(a, Append(spilled[a], Body(a, m + 1)))
           z == Replay(a, spilled[a])
<1>4. CASE made' = [made EXCEPT ![a] = @ + 1] /\ out' = [out EXCEPT ![a] = ReplayThenRest(a, made'[a])]
  <2>1. made'[a] = m + 1 /\ made' = [made EXCEPT ![a] = m + 1]
    BY <1>2, <1>4
  <2>2. out' = [out EXCEPT ![a] = x]
    BY <1>4, <2>1
  <2>3. Published(a, m + 1, x)
    BY <1>3, <2>1, <2>2 DEF Published
  <2> QED
    BY <1>1, <2>3
<1>5. CASE /\ spilled[a] # << >> /\ made' = [made EXCEPT ![a] = @ + 1]
           /\ out' = [out EXCEPT ![a] = Replay(a, Append(spilled[a], Body(a, made'[a])))]
  <2>1. made'[a] = m + 1 /\ made' = [made EXCEPT ![a] = m + 1]
    BY <1>2, <1>5
  <2>2. out' = [out EXCEPT ![a] = y]
    BY <1>5, <2>1
  <2>3. Published(a, m + 1, y)
    BY <1>3, <1>5, <2>1, <2>2 DEF Published
  <2> QED
    BY <1>1, <2>3
<1>6. CASE out' = [out EXCEPT ![a] = Replay(a, spilled[a])] /\ UNCHANGED made
  <2>1. made' = [made EXCEPT ![a] = m]
    BY <1>2, <1>6
  <2>2. out' = [out EXCEPT ![a] = z]
    BY <1>6
  <2>3. Published(a, m, z)
    BY <1>3, <2>1, <2>2 DEF Published
  <2> QED
    BY <1>1, <2>3
<1> QED
  BY <1>4, <1>5, <1>6 DEF Flush

\* What is left of a sequence without its first n elements.
LEMMA WithoutFirst ==
  ASSUME NEW S, NEW q \in Seq(S), NEW n \in 1..Len(q)
  PROVE  /\ SubSeq(q, n + 1, Len(q)) \in Seq(S)
         /\ Len(SubSeq(q, n + 1, Len(q))) = Len(q) - n
         /\ \A k \in 1..(Len(q) - n) : SubSeq(q, n + 1, Len(q))[k] = q[n + k]
<1>1. Len(q) \in Nat /\ \A i \in 1..Len(q) : q[i] \in S
  BY LenProperties, ElementOfSeq
<1>2. n + 1 \in Int /\ Len(q) \in Int /\ \A i \in (n + 1)..Len(q) : q[i] \in S
  BY <1>1
<1> DEFINE r == SubSeq(q, n + 1, Len(q))
<1>3. /\ r \in Seq(S) /\ Len(r) = IF n + 1 <= Len(q) THEN Len(q) - (n + 1) + 1 ELSE 0
      /\ \A i \in 1..(Len(q) - (n + 1) + 1) : r[i] = q[(n + 1) + i - 1]
  BY <1>2, SubSeqProperties
<1> HIDE DEF r
<1>4. Len(r) = Len(q) - n /\ \A k \in 1..(Len(q) - n) : r[k] = q[n + k]
  BY <1>1, <1>3
<1> QED
  BY <1>3, <1>4 DEF r

\* What the step of a sink leaves alone.
LEMMA SinkFrame ==
  ASSUME NEW a \in Sinks, Sink(a)
  PROVE  /\ UNCHANGED <<posting, csv, left, streamVars, drainVars, files>>
         /\ ok' \in {ok, FALSE}
BY DEF Sink, PushBatch, ReplayBreaks, Flush, Discard, Sync, Report, sinkVars

LEMMA SinkKeepsTypes ==
  ASSUME Types, NEW a \in Sinks, Sink(a)
  PROVE  Types'
<1>0. a \in Actors
  BY StreamKinds
<1>1. UNCHANGED <<posting, csv, left, streamVars, drainVars, files>> /\ ok' \in {ok, FALSE}
  BY SinkFrame
<1>2. StreamTypes' /\ HandTypes' /\ CsvTypes' /\ FileTypes' /\ Caps'
  BY <1>1, TypesKept DEF streamVars, drainVars
<1>3. /\ pc \in [Actors -> PcValues] /\ out \in [Actors -> Seq(EntryType)]
      /\ verdict \in [Actors -> {"none", "ok", "failed", "discarded"}] /\ left \subseteq JsonFiles
      /\ ok \in BOOLEAN
      /\ made \in [Sinks -> 0..Batches] /\ disabled \in [Sinks -> BOOLEAN]
      /\ spilled \in [Sinks -> Seq(FileType)] /\ synced \in [Sinks -> Nat]
      /\ \A b \in Sinks : SinkWell(b)
  BY DEF Types, ActorTypes, OutTypes, SinkTypes
<1>4. /\ Batches \in Nat /\ made[a] \in Nat /\ << >> \in Seq(FileType)
      /\ {"assemble", "sync", "done"} \subseteq PcValues
  BY <1>3, ConstantsAssumption DEF PcValues
<1>5. CASE PushBatch(a)
  <2>1. /\ pc[a] = "assemble" /\ made[a] + 1 < Batches /\ made' = [made EXCEPT ![a] = @ + 1]
        /\ UNCHANGED <<pc, posting, synced, csv, verdict, left, streamVars, drainVars, files, ok>>
        /\ \/ /\ ~disabled[a] /\ spilled' = [spilled EXCEPT ![a] = Bodies(a, made[a] + 1)]
              /\ UNCHANGED <<out, disabled>>
           \/ /\ disabled' = [disabled EXCEPT ![a] = TRUE]
              /\ spilled' = [spilled EXCEPT ![a] = << >>]
              /\ out' = [out EXCEPT ![a] = ReplayThenRest(a, made[a] + 1)]
              /\ Publication(a, ReplayThenRest(a, made[a] + 1), FirstNew(a), made[a] + 1)
    BY <1>5, PushEffect
  <2>2. ActorTypes'
    BY <2>1, TypesKept, <1>2
  <2>3. OutTypes'
    BY <1>3, <2>1 DEF OutTypes, Publication
  <2>4. made[a] + 1 \in Nat /\ Bodies(a, made[a] + 1) \in Seq(FileType)
    <3>1. made[a] + 1 \in Nat
      BY <1>4
    <3> QED
      BY <3>1, BodiesAppend, Zenon
  <2>a. made[a] + 1 \in 0..Batches
    BY <1>4, <2>1
  <2>b. made' \in [Sinks -> 0..Batches] /\ synced' \in [Sinks -> Nat]
    BY <1>3, <2>1, <2>a
  <2>c. disabled' \in [Sinks -> BOOLEAN] /\ spilled' \in [Sinks -> Seq(FileType)]
    BY <1>3, <1>4, <2>1, <2>4
  <2>5. /\ made' \in [Sinks -> 0..Batches] /\ synced' \in [Sinks -> Nat]
        /\ disabled' \in [Sinks -> BOOLEAN] /\ spilled' \in [Sinks -> Seq(FileType)]
    BY <2>b, <2>c
  <2>6. ASSUME NEW b \in Sinks PROVE SinkWell(b)'
    <3>1. CASE b = a
      <4>1. made'[b] = made[a] + 1 /\ pc'[b] = "assemble"
        BY <1>3, <2>1, <3>1
      <4>2. spilled'[b] = IF ~disabled'[b] THEN Bodies(b, made'[b]) ELSE << >>
        BY <1>3, <2>1, <3>1, <4>1
      <4> QED
        BY <2>1, <4>1, <4>2, <3>1 DEF SinkWell, Bodies
    <3>2. CASE b # a
      <4>1. /\ made'[b] = made[b] /\ pc'[b] = pc[b] /\ spilled'[b] = spilled[b]
            /\ disabled'[b] = disabled[b]
        BY <1>3, <2>1, <3>2
      <4> QED
        BY <1>3, <4>1 DEF SinkWell, Bodies
    <3> QED
      BY <3>1, <3>2
  <2>7. SinkTypes'
    BY <2>5, <2>6 DEF SinkTypes
  <2> QED
    BY <1>2, <2>2, <2>3, <2>7 DEF Types
<1>6. CASE ReplayBreaks(a)
  <2>1. /\ UNCHANGED <<pc, verdict, sinkVars>> /\ ok' = FALSE
        /\ \E n \in 1..Len(out[a]) : out' = [out EXCEPT ![a] = SubSeq(@, n + 1, Len(@))]
    BY <1>6 DEF ReplayBreaks
  <2>2. PICK n \in 1..Len(out[a]) : out' = [out EXCEPT ![a] = SubSeq(@, n + 1, Len(@))]
    BY <2>1
  <2>3. SubSeq(out[a], n + 1, Len(out[a])) \in Seq(EntryType)
    BY <1>0, <1>3, WithoutFirst
  <2>4. OutTypes'
    BY <1>3, <2>2, <2>3 DEF OutTypes
  <2>5. ActorTypes' /\ SinkTypes'
    BY <1>1, <1>2, <1>3, <2>1, TypesKept DEF ActorTypes, sinkVars
  <2> QED
    BY <1>2, <2>4, <2>5 DEF Types
<1>7. CASE Flush(a)
  <2>1. /\ pc[a] = "assemble" /\ pc' = [pc EXCEPT ![a] = "sync"]
        /\ spilled' = [spilled EXCEPT ![a] = << >>]
        /\ UNCHANGED <<synced, verdict, disabled, ok>>
        /\ \E n \in {made[a], made[a] + 1} : \E q : Published(a, n, q)
    BY <1>7, FlushEffect
  <2>2. PICK n \in {made[a], made[a] + 1} : \E q : Published(a, n, q)
    BY <2>1
  <2>3. PICK q : Published(a, n, q)
    BY <2>2
  <2>4. ActorTypes' /\ OutTypes'
    BY <1>1, <1>2, <1>3, <1>4, <2>1, <2>3 DEF ActorTypes, OutTypes, Published, Publication
  <2>5. n \in 0..Batches
    BY <1>3, <1>4, <2>1 DEF SinkWell
  <2>6. /\ made' \in [Sinks -> 0..Batches] /\ synced' \in [Sinks -> Nat]
        /\ disabled' \in [Sinks -> BOOLEAN] /\ spilled' \in [Sinks -> Seq(FileType)]
    BY <1>3, <1>4, <2>1, <2>3, <2>5 DEF Published
  <2>7. ASSUME NEW b \in Sinks PROVE SinkWell(b)'
    <3>1. CASE b = a
      BY <1>0, <1>3, <2>1, <3>1 DEF SinkWell
    <3>2. CASE b # a
      <4>1. /\ made'[b] = made[b] /\ pc'[b] = pc[b] /\ spilled'[b] = spilled[b]
            /\ disabled'[b] = disabled[b]
        BY <1>3, <2>1, <2>3, <3>2 DEF Published
      <4> QED
        BY <1>3, <4>1 DEF SinkWell, Bodies
    <3> QED
      BY <3>1, <3>2
  <2> QED
    BY <1>2, <2>4, <2>6, <2>7 DEF Types, SinkTypes
<1>8. CASE Discard(a)
  <2>1. /\ pc' = [pc EXCEPT ![a] = "done"] /\ verdict' = [verdict EXCEPT ![a] = "discarded"]
        /\ spilled' = [spilled EXCEPT ![a] = << >>]
        /\ UNCHANGED <<out, made, synced, disabled, ok>>
    BY <1>8 DEF Discard
  <2>2. ActorTypes' /\ OutTypes'
    BY <1>1, <1>2, <1>3, <1>4, <2>1 DEF ActorTypes, OutTypes
  <2>3. spilled' \in [Sinks -> Seq(FileType)]
    BY <1>3, <1>4, <2>1
  <2>4. ASSUME NEW b \in Sinks PROVE SinkWell(b)'
    <3>1. CASE b = a
      BY <1>0, <1>3, <2>1, <3>1 DEF SinkWell
    <3>2. CASE b # a
      <4>1. pc'[b] = pc[b] /\ spilled'[b] = spilled[b]
        BY <1>3, <2>1, <3>2
      <4> QED
        BY <1>3, <2>1, <4>1 DEF SinkWell, Bodies
    <3> QED
      BY <3>1, <3>2
  <2> QED
    BY <1>2, <1>3, <2>1, <2>2, <2>3, <2>4 DEF Types, SinkTypes
<1>9. CASE Sync(a)
  <2>1. synced' = [synced EXCEPT ![a] = @ + 1] /\ UNCHANGED <<pc, out, verdict, made, spilled, disabled, ok>>
    BY <1>9 DEF Sync
  <2>2. ActorTypes' /\ OutTypes'
    BY <1>1, <1>2, <2>1, TypesKept
  <2>3. synced' \in [Sinks -> Nat]
    BY <1>3, <2>1
  <2>4. ASSUME NEW b \in Sinks PROVE SinkWell(b)'
    BY <1>3, <2>1 DEF SinkWell, Bodies
  <2> QED
    BY <1>2, <1>3, <2>1, <2>2, <2>3, <2>4 DEF Types, SinkTypes
<1>10. CASE Report(a)
  <2>1. /\ pc[a] = "sync" /\ pc' = [pc EXCEPT ![a] = "done"]
        /\ verdict' = [verdict EXCEPT ![a] = IF ok THEN "ok" ELSE "failed"]
        /\ UNCHANGED <<out, sinkVars, ok>>
    BY <1>10 DEF Report
  <2>2. ActorTypes' /\ OutTypes'
    BY <1>1, <1>2, <1>3, <1>4, <2>1 DEF ActorTypes, OutTypes
  <2>3. ASSUME NEW b \in Sinks PROVE SinkWell(b)'
    <3>1. CASE b = a
      BY <1>0, <1>3, <2>1, <3>1 DEF SinkWell, sinkVars
    <3>2. CASE b # a
      <4>1. pc'[b] = pc[b]
        BY <1>3, <2>1, <3>2
      <4> QED
        BY <1>3, <2>1, <4>1 DEF SinkWell, Bodies, sinkVars
    <3> QED
      BY <3>1, <3>2
  <2> QED
    BY <1>2, <1>3, <2>1, <2>2, <2>3 DEF Types, SinkTypes, sinkVars
<1> QED
  BY <1>5, <1>6, <1>7, <1>8, <1>9, <1>10 DEF Sink

\* The stream of a table before its next row, and after it (AppendCsv).
Before(t, c) == IF ~c.started THEN Opening(t, c) ELSE IF Full(c) THEN NextSlice(t, c) ELSE c
WithRow(t, c) ==
  [Before(t, c) EXCEPT !.buffer = @ \o Row(t, c.next), !.next = @ + 1, !.rowsInSlice = @ + 1]
Flushes(t, c) == Len(WithRow(t, c).buffer) >= FlushAt
Closing(t, c) == IF c.started /\ Full(c) THEN Completing(t, c) ELSE << >>
Writing(t, c) == IF Flushes(t, c) THEN FlushBuffer(t, WithRow(t, c)) ELSE << >>
Emptied(c) == [c EXCEPT !.buffer = << >>]

LEMMA JobTypes == \A j \in Jobs : j.rows \in Nat /\ j.hint \in Nat
BY ConstantsAssumption

LEMMA TableNames ==
  ASSUME NEW t \in Tables
  PROVE  /\ Whole(t) \in Names /\ \A i \in 0..MaxSlice : Slice(t, i) \in Names
         /\ t \in Actors /\ t \in Streams /\ t # NoStream /\ t # Main /\ t \notin Sinks
<1>1. t \in Actors /\ t \in Streams /\ t \in Assemblers
  BY DEF Actors, Assemblers, Streams
<1>2. Whole(t) \in Names /\ \A i \in 0..MaxSlice : Slice(t, i) \in Names
  BY <1>1 DEF Names, Slice
<1> QED
  BY <1>1, <1>2, NamesApart

\* The fields of a stream before its next row.
LEMMA BeforeWell ==
  ASSUME NEW t \in Tables, NEW c \in CsvType, CsvWell(t, c), c.next <= c.job.rows, NEW b,
         b = Before(t, c)
  PROVE  /\ b \in CsvType /\ b.job = c.job /\ b.next = c.next /\ b.started = TRUE
         /\ b.rowsInSlice \in 0..(Limit - 1)
         /\ b.sliceIndex * Limit + b.rowsInSlice = c.next - 1
         /\ b.path = IF b.sliceMode THEN Slice(t, b.sliceIndex) ELSE Whole(t)
         /\ b.sliceMode = FALSE => b.sliceIndex = 0
         /\ b.path \in Names
<1>0. /\ Header \in FileType /\ Limit \in Nat \ {0} /\ c.job \in Jobs /\ c.job.rows \in Nat
      /\ c.job.hint \in Nat
  BY MarkTokens, ConstantsAssumption, JobTypes DEF CsvType
<1>1. c.next \in Nat /\ c.sliceIndex \in 0..MaxSlice /\ c.rowsInSlice \in Nat
      /\ c.started \in BOOLEAN /\ c.sliceMode \in BOOLEAN /\ c.buffer \in FileType
  BY DEF CsvType
<1>8. MaxSlice \in Nat
  <2>1. 0 * Limit <= c.job.rows /\ 0 \in Nat
    BY <1>0
  <2> QED
    BY <1>0, <2>1, MaxSliceBound
<1>2. CASE ~c.started
  <2>1. b = Opening(t, c) /\ c.next = 1 /\ c.rowsInSlice = 0 /\ c.sliceIndex = 0
    BY <1>1, <1>2 DEF Before, CsvWell
  <2> DEFINE sliced == c.job.hint > Limit
             path == IF sliced THEN Slice(t, 0) ELSE Whole(t)
  <2>2. b = [c EXCEPT !.sliceMode = sliced, !.buffer = Header, !.started = TRUE, !.path = path]
    BY <2>1 DEF Opening
  <2>3. sliced \in BOOLEAN /\ path \in Names
    BY <1>8, TableNames
  <2>8. path = IF sliced THEN Slice(t, 0) ELSE Whole(t)
    OBVIOUS
  <2> HIDE DEF sliced, path
  <2>4. /\ b \in CsvType /\ b.job = c.job /\ b.next = c.next /\ b.started = TRUE
        /\ b.sliceMode = sliced /\ b.path = path /\ b.sliceIndex = c.sliceIndex
        /\ b.rowsInSlice = c.rowsInSlice
    BY <1>0, <2>2, <2>3 DEF CsvType
  <2> QED
    BY <1>0, <2>1, <2>3, <2>4, <2>8
<1>3. CASE c.started /\ Full(c)
  <2> DEFINE i == IF c.sliceMode THEN c.sliceIndex + 1 ELSE 1
  <2>1. b = [c EXCEPT !.sliceMode = TRUE, !.sliceIndex = i, !.path = Slice(t, i),
                      !.buffer = Header, !.rowsInSlice = 0]
    BY <1>3 DEF Before, NextSlice
  <2>2. /\ c.rowsInSlice = Limit /\ c.sliceIndex * Limit + Limit = c.next - 1
        /\ c.sliceMode = FALSE => c.sliceIndex = 0
    BY <1>1, <1>3 DEF CsvWell, Full
  <2>3. i = c.sliceIndex + 1
    BY <1>1, <2>2
  <2>4. c.sliceIndex * Limit <= c.job.rows
    <3>1. c.sliceIndex * Limit \in Nat
      BY <1>0, <1>1
    <3> QED
      BY <1>0, <1>1, <2>2, <3>1
  <2>5. i \in 0..MaxSlice
    BY <1>0, <1>1, <2>3, <2>4, MaxSliceBound
  <2>6. i * Limit = c.sliceIndex * Limit + Limit
    BY <1>0, <1>1, <2>3
  <2> HIDE DEF i
  <2>7. Slice(t, i) \in Names
    BY <2>5, TableNames
  <2>8. /\ b \in CsvType /\ b.job = c.job /\ b.next = c.next /\ b.started = TRUE
        /\ b.sliceMode = TRUE /\ b.path = Slice(t, i) /\ b.sliceIndex = i
        /\ b.rowsInSlice = 0
    <3>1. Slice(t, i) \in Names \cup {Whole(NoStream)} /\ 0 \in Nat
      BY <2>7
    <3> DEFINE p == Slice(t, i)
    <3>2. b = [c EXCEPT !.sliceMode = TRUE, !.sliceIndex = i, !.path = p,
                        !.buffer = Header, !.rowsInSlice = 0]
      BY <2>1
    <3>3. p \in Names \cup {Whole(NoStream)}
      BY <3>1
    <3> HIDE DEF p
    <3>4. b \in CsvType
      BY <1>0, <3>2, <2>5, <3>1, <3>3 DEF CsvType
    <3>5. /\ b.job = c.job /\ b.next = c.next /\ b.started = c.started
          /\ b.sliceMode = TRUE /\ b.path = p /\ b.sliceIndex = i
          /\ b.rowsInSlice = 0
      BY <3>2 DEF CsvType
    <3> QED
      BY <1>1, <1>3, <3>4, <3>5 DEF p
  <2> QED
    BY <1>0, <1>1, <2>2, <2>6, <2>7, <2>8
<1>4. CASE c.started /\ ~Full(c)
  <2>1. b = c
    BY <1>4 DEF Before
  <2>2. c.path \in Names
    BY <1>1, <1>4, TableNames DEF CsvWell
  <2> QED
    BY <1>0, <1>1, <1>4, <2>1, <2>2 DEF CsvWell, Full
<1> QED
  BY <1>2, <1>3, <1>4

LEMMA WithRowWell ==
  ASSUME NEW t \in Tables, NEW c \in CsvType, CsvWell(t, c), c.next <= c.job.rows, NEW w,
         w = WithRow(t, c)
  PROVE  /\ w \in CsvType /\ CsvWell(t, w) /\ w.path \in Names /\ w.started = TRUE
         /\ w.job = c.job /\ w.next = c.next + 1
         /\ Emptied(w) \in CsvType /\ CsvWell(t, Emptied(w))
<1> DEFINE b == Before(t, c)
<1>0. c.job.rows \in Nat /\ Limit \in Nat \ {0} /\ c.next \in Nat
  BY JobTypes, ConstantsAssumption DEF CsvType
<1>1. /\ b \in CsvType /\ b.job = c.job /\ b.next = c.next /\ b.started = TRUE
      /\ b.rowsInSlice \in 0..(Limit - 1)
      /\ b.sliceIndex * Limit + b.rowsInSlice = c.next - 1
      /\ b.path = IF b.sliceMode THEN Slice(t, b.sliceIndex) ELSE Whole(t)
      /\ b.sliceMode = FALSE => b.sliceIndex = 0
      /\ b.path \in Names
  BY BeforeWell
<1>2. b.buffer \o Row(t, c.next) \in FileType
  <2>1. <<t, c.next>> \in Tokens \X Nat
    BY <1>0, MarkTokens DEF Assemblers
  <2>2. Row(t, c.next) \in FileType /\ b.buffer \in FileType
    BY <1>1, <2>1 DEF Row, FileType, CsvType
  <2> QED
    BY <2>2, ConcatProperties DEF FileType
<1>3. w = [b EXCEPT !.buffer = @ \o Row(t, c.next), !.next = @ + 1, !.rowsInSlice = @ + 1]
  BY DEF WithRow
<1> HIDE DEF b
<1> DEFINE long == b.buffer \o Row(t, c.next)
<1>4. w = [b EXCEPT !.buffer = long, !.next = @ + 1, !.rowsInSlice = @ + 1] /\ long \in FileType
  BY <1>2, <1>3
<1> HIDE DEF long
<1>5. /\ w \in CsvType /\ w.job = b.job /\ w.next = b.next + 1 /\ w.started = TRUE
      /\ w.rowsInSlice = b.rowsInSlice + 1 /\ w.sliceIndex = b.sliceIndex
      /\ w.path = b.path /\ w.sliceMode = b.sliceMode
  <2>1. /\ w.job = b.job /\ w.next = b.next + 1 /\ w.started = b.started
        /\ w.rowsInSlice = b.rowsInSlice + 1 /\ w.sliceIndex = b.sliceIndex
        /\ w.path = b.path /\ w.sliceMode = b.sliceMode
    BY <1>1, <1>4 DEF CsvType
  <2>2. b.next + 1 \in Nat /\ b.rowsInSlice + 1 \in Nat
    BY <1>1 DEF CsvType
  <2> DEFINE n1 == b.next + 1
             r1 == b.rowsInSlice + 1
  <2>3. w = [b EXCEPT !.buffer = long, !.next = n1, !.rowsInSlice = r1]
    BY <1>4
  <2>4. n1 \in Nat /\ r1 \in Nat
    BY <2>2
  <2> HIDE DEF n1, r1
  <2>5. w \in CsvType
    BY <1>1, <1>4, <2>3, <2>4 DEF CsvType
  <2> QED
    BY <1>1, <2>1, <2>5
<1>6. b.sliceIndex \in Nat /\ b.sliceIndex * Limit \in Nat
  BY <1>0, <1>1 DEF CsvType
<1>7. CsvWell(t, w)
  <2>1. w.next \in 1..(w.job.rows + 1) /\ w.rowsInSlice \in 1..Limit
    BY <1>0, <1>1, <1>5
  <2>2. w.sliceIndex * Limit + w.rowsInSlice = w.next - 1
    <3> DEFINE k == b.sliceIndex * Limit
    <3>1. w.sliceIndex * Limit = k /\ k \in Nat /\ k + b.rowsInSlice = c.next - 1
      BY <1>1, <1>5, <1>6
    <3> HIDE DEF k
    <3> QED
      BY <1>0, <1>1, <1>5, <3>1
  <2> QED
    BY <1>1, <1>5, <2>1, <2>2 DEF CsvWell
<1>8. << >> \in FileType
  BY MarkTokens
<1> DEFINE e == Emptied(w)
<1>9. /\ e \in CsvType /\ e.job = w.job /\ e.next = w.next /\ e.started = w.started
      /\ e.rowsInSlice = w.rowsInSlice /\ e.sliceIndex = w.sliceIndex
      /\ e.path = w.path /\ e.sliceMode = w.sliceMode
  BY <1>5, <1>8 DEF CsvType, Emptied
<1> HIDE DEF e
<1>10. CsvWell(t, e)
  BY <1>5, <1>7, <1>9 DEF CsvWell
<1> QED
  BY <1>0, <1>1, <1>5, <1>7, <1>9, <1>10 DEF e

LEMMA AppendRowEffect ==
  ASSUME NEW t \in Tables, AppendRow(t)
  PROVE  /\ pc[t] = "rows" /\ Idle(t) /\ csv[t].next <= csv[t].job.rows
         /\ csv' = [csv EXCEPT ![t] = IF Flushes(t, csv[t]) THEN Emptied(WithRow(t, csv[t]))
                                      ELSE WithRow(t, csv[t])]
         /\ out' = [out EXCEPT ![t] = Closing(t, csv[t]) \o Writing(t, csv[t])]
         /\ UNCHANGED <<pc, posting, verdict, left, sinkVars, streamVars, drainVars, files, ok>>
BY Zenon DEF AppendRow, Before, WithRow, Flushes, Closing, Writing, Emptied

\* What a table queues are entries for its stream.
LEMMA FlushBufferType ==
  ASSUME NEW t \in Tables, NEW c \in CsvType, c.buffer = << >> \/ c.path \in Names
  PROVE  FlushBuffer(t, c) \in Seq(EntryType)
<1>1. CASE c.buffer = << >>
  BY <1>1 DEF FlushBuffer
<1>2. CASE c.buffer # << >>
  <2>1. Write(c.path, c.buffer) \in OpType
    BY <1>2 DEF Write, OpType, CsvType
  <2>2. CsvEntry(t, Write(c.path, c.buffer)) \in EntryType
    BY <2>1, TableNames DEF CsvEntry, Entry, EntryType
  <2> HIDE DEF CsvEntry
  <2> QED
    BY <1>2, <2>2 DEF FlushBuffer
<1> QED
  BY <1>1, <1>2

LEMMA RenameType ==
  ASSUME NEW t \in Tables, NEW n \in Names, 0 \in 0..MaxSlice
  PROVE  CsvEntry(t, Rename(n, Slice(t, 0))) \in EntryType
<1>1. Slice(t, 0) \in Names /\ << >> \in FileType
  BY TableNames, MarkTokens
<1>2. Rename(n, Slice(t, 0)) \in OpType
  BY <1>1 DEF Rename, OpType
<1> QED
  BY <1>2, TableNames DEF CsvEntry, Entry, EntryType

LEMMA AppendRowTypes ==
  ASSUME Types, NEW t \in Tables, AppendRow(t)
  PROVE  Types'
<1> DEFINE c == csv[t]
           w == WithRow(t, c)
<1>1. /\ c.next <= c.job.rows
      /\ csv' = [csv EXCEPT ![t] = IF Flushes(t, c) THEN Emptied(w) ELSE w]
      /\ out' = [out EXCEPT ![t] = Closing(t, c) \o Writing(t, c)]
      /\ UNCHANGED <<pc, posting, verdict, left, sinkVars, streamVars, drainVars, files, ok>>
  BY AppendRowEffect
<1>2. csv \in [Tables -> CsvType] /\ c \in CsvType /\ CsvWell(t, c)
  BY DEF Types, CsvTypes
<1>3. /\ w \in CsvType /\ CsvWell(t, w) /\ w.path \in Names
      /\ Emptied(w) \in CsvType /\ CsvWell(t, Emptied(w))
  BY <1>1, <1>2, WithRowWell
<1> HIDE DEF w
<1>4. CsvTypes'
  <2>1. csv' \in [Tables -> CsvType]
    BY <1>1, <1>2, <1>3
  <2>2. ASSUME NEW u \in Tables PROVE CsvWell(u, csv'[u])
    <3>1. CASE u = t
      BY <1>1, <1>2, <1>3, <3>1
    <3>2. CASE u # t
      <4>1. csv'[u] = csv[u]
        BY <1>1, <1>2, <3>2
      <4> QED
        BY <4>1 DEF Types, CsvTypes
    <3> QED
      BY <3>1, <3>2
  <2> QED
    BY <2>1, <2>2 DEF CsvTypes
<1>5. Writing(t, c) \in Seq(EntryType)
  <2>1. FlushBuffer(t, w) \in Seq(EntryType)
    BY <1>3, FlushBufferType
  <2>2. Writing(t, c) = FlushBuffer(t, w) \/ Writing(t, c) = << >>
    BY Zenon DEF Writing, w
  <2>3. << >> \in Seq(EntryType)
    OBVIOUS
  <2> QED
    BY <2>1, <2>2, <2>3, Zenon
<1>6. Closing(t, c) \in Seq(EntryType)
  <2>1. CASE c.started /\ Full(c)
    <3>1. c.path \in Names
      BY <1>2, <2>1, TableNames DEF CsvWell, CsvType
    <3>2. FlushBuffer(t, c) \in Seq(EntryType)
      BY <1>2, <3>1, FlushBufferType
    <3>3. 0 \in 0..MaxSlice
      <4>1. c.sliceIndex \in 0..MaxSlice
        BY <1>2 DEF CsvType
      <4>2. c.job \in Jobs /\ c.job.rows \in Nat /\ Limit \in Nat
        BY <1>2, JobTypes, ConstantsAssumption DEF CsvType
      <4>3. 0 * Limit <= c.job.rows
        BY <4>2
      <4> QED
        BY <4>2, <4>3, MaxSliceBound
    <3>4. <<CsvEntry(t, Rename(c.path, Slice(t, 0)))>> \in Seq(EntryType)
      <4>1. CsvEntry(t, Rename(c.path, Slice(t, 0))) \in EntryType
        BY <3>1, <3>3, RenameType
      <4> HIDE DEF CsvEntry
      <4> QED
        BY <4>1
    <3>5. (IF c.sliceMode THEN << >> ELSE <<CsvEntry(t, Rename(c.path, Slice(t, 0)))>>)
            \in Seq(EntryType)
      BY <3>4
    <3>6. Completing(t, c) \in Seq(EntryType)
      BY <3>2, <3>5, ConcatProperties DEF Completing
    <3> QED
      BY <2>1, <3>6 DEF Closing
  <2>2. CASE ~(c.started /\ Full(c))
    BY <2>2 DEF Closing
  <2> QED
    BY <2>1, <2>2
<1> DEFINE q == Closing(t, c) \o Writing(t, c)
<1>7. q \in Seq(EntryType)
  BY <1>5, <1>6, ConcatProperties
<1>8. out' = [out EXCEPT ![t] = q]
  BY <1>1
<1> HIDE DEF q
<1>9. OutTypes'
  BY <1>7, <1>8 DEF Types, OutTypes
<1> QED
  BY <1>1, <1>4, <1>9, TypesKept DEF Types, sinkVars, streamVars, drainVars

LEMMA FinishCsvEffect ==
  ASSUME Types, NEW t \in Tables, FinishCsv(t)
  PROVE  /\ pc[t] = "rows" /\ Idle(t) /\ csv[t].next > csv[t].job.rows
         /\ csv' = [csv EXCEPT ![t] = Emptied(csv[t])]
         /\ out' = [out EXCEPT ![t] = FlushBuffer(t, csv[t])]
         /\ FlushBuffer(t, csv[t]) \in Seq(EntryType)
         /\ Emptied(csv[t]) \in CsvType /\ CsvWell(t, Emptied(csv[t]))
         /\ pc' = [pc EXCEPT ![t] = "sync"]
         /\ UNCHANGED <<posting, verdict, left, sinkVars, streamVars, drainVars, files, ok>>
<1> DEFINE c == csv[t]
<1>1. csv \in [Tables -> CsvType] /\ c \in CsvType /\ CsvWell(t, c)
  BY DEF Types, CsvTypes
<1>2. csv' = [csv EXCEPT ![t] = Emptied(csv[t])]
  BY <1>1 DEF FinishCsv, Emptied
<1>3. c.buffer = << >> \/ c.path \in Names
  BY <1>1, TableNames DEF CsvWell, CsvType
<1>4. FlushBuffer(t, c) \in Seq(EntryType)
  BY <1>1, <1>3, FlushBufferType
<1> HIDE DEF c
<1> DEFINE e == Emptied(c)
<1>5. /\ e \in CsvType /\ e.job = c.job /\ e.next = c.next /\ e.started = c.started
      /\ e.rowsInSlice = c.rowsInSlice /\ e.sliceIndex = c.sliceIndex
      /\ e.path = c.path /\ e.sliceMode = c.sliceMode /\ e.buffer = << >>
  BY <1>1, MarkTokens DEF CsvType, Emptied
<1> HIDE DEF e
<1>6. CsvWell(t, e)
  BY <1>1, <1>5 DEF CsvWell
<1> QED
  BY <1>2, <1>4, <1>5, <1>6 DEF c, e, FinishCsv

LEMMA TableKeepsTypes ==
  ASSUME Types, NEW t \in Tables, Table(t)
  PROVE  Types'
<1>0. t \in Actors /\ {"rows", "sync", "done"} \subseteq PcValues
  BY StreamKinds DEF PcValues
<1>1. /\ pc \in [Actors -> PcValues] /\ out \in [Actors -> Seq(EntryType)]
      /\ verdict \in [Actors -> {"none", "ok", "failed", "discarded"}] /\ left \subseteq JsonFiles
      /\ ok \in BOOLEAN
      /\ csv \in [Tables -> CsvType] /\ \A u \in Tables : CsvWell(u, csv[u])
      /\ files \in [Names -> FileType]
  BY DEF Types, ActorTypes, OutTypes, CsvTypes, FileTypes
<1>2. ASSUME pc' = [pc EXCEPT ![t] = "rows"] \/ pc' = [pc EXCEPT ![t] = "sync"]
                \/ pc' = [pc EXCEPT ![t] = "done"],
             UNCHANGED sinkVars
      PROVE  pc' \in [Actors -> PcValues] /\ SinkTypes'
  <2>1. pc' \in [Actors -> PcValues]
    BY <1>0, <1>1, <1>2
  <2>2. \A a \in Sinks : pc'[a] = pc[a]
    BY <1>1, <1>2, TableNames, StreamKinds
  <2>3. SinkTypes'
    BY <1>2, <2>2 DEF Types, SinkTypes, SinkWell, Bodies, sinkVars
  <2> QED
    BY <2>1, <2>3
<1>3. CASE StartCsv(t)
  <2>1. /\ files' = [n \in Names |-> IF n[1] = t THEN << >> ELSE files[n]]
        /\ pc' = [pc EXCEPT ![t] = "rows"]
        /\ UNCHANGED <<out, posting, csv, verdict, left, sinkVars, streamVars, drainVars, ok>>
    BY <1>3 DEF StartCsv
  <2>2. FileTypes'
    BY <1>1, <2>1, MarkTokens DEF FileTypes
  <2>3. ActorTypes' /\ SinkTypes'
    BY <1>1, <1>2, <2>1 DEF ActorTypes
  <2> QED
    BY <2>1, <2>2, <2>3, TypesKept DEF Types, streamVars, drainVars
<1>4. CASE AppendRow(t)
  BY <1>4, AppendRowTypes
<1>5. CASE FinishCsv(t)
  <2>1. /\ csv' = [csv EXCEPT ![t] = Emptied(csv[t])]
        /\ out' = [out EXCEPT ![t] = FlushBuffer(t, csv[t])]
        /\ FlushBuffer(t, csv[t]) \in Seq(EntryType)
        /\ Emptied(csv[t]) \in CsvType /\ CsvWell(t, Emptied(csv[t]))
        /\ pc' = [pc EXCEPT ![t] = "sync"]
        /\ UNCHANGED <<posting, verdict, left, sinkVars, streamVars, drainVars, files, ok>>
    BY <1>5, FinishCsvEffect
  <2>2. OutTypes'
    BY <1>1, <2>1 DEF OutTypes
  <2>3. CsvTypes'
    BY <1>1, <2>1 DEF CsvTypes
  <2>4. ActorTypes' /\ SinkTypes'
    BY <1>1, <1>2, <2>1 DEF ActorTypes
  <2> QED
    BY <2>1, <2>2, <2>3, <2>4, TypesKept DEF Types, streamVars, drainVars
<1>6. CASE EndCsv(t) \/ Abandon(t)
  <2>1. /\ pc' = [pc EXCEPT ![t] = "done"]
        /\ \/ verdict' = [verdict EXCEPT ![t] = "ok"]
           \/ verdict' = [verdict EXCEPT ![t] = "failed"]
        /\ UNCHANGED <<out, posting, csv, left, sinkVars, streamVars, drainVars, files, ok>>
    BY <1>6 DEF EndCsv, Abandon
  <2>2. verdict' \in [Actors -> {"none", "ok", "failed", "discarded"}]
    BY <1>0, <1>1, <2>1
  <2>3. ActorTypes' /\ SinkTypes'
    BY <1>1, <1>2, <2>1, <2>2 DEF ActorTypes
  <2> QED
    BY <2>1, <2>3, TypesKept DEF Types, streamVars, drainVars
<1> QED
  BY <1>3, <1>4, <1>5, <1>6 DEF Table

\* What FinishTimeline queues for a file.
Close(f) == Entry(f, Write(Whole(f), << <<"]", 0>> >>), FALSE, FALSE)

LEMMA CloseType ==
  ASSUME NEW f \in JsonFiles
  PROVE  Close(f) \in EntryType
<1>1. f \in Streams /\ Whole(f) \in Names /\ << <<"]", 0>> >> \in FileType
  BY WholeName, MarkTokens DEF Streams
<1>2. Write(Whole(f), << <<"]", 0>> >>) \in OpType
  BY <1>1 DEF Write, OpType
<1>3. FALSE \in BOOLEAN
  OBVIOUS
<1> QED
  BY <1>1, <1>2, <1>3 DEF Close, Entry, EntryType

LEMMA FinisherKeepsTypes ==
  ASSUME Types, Finisher
  PROVE  Types'
<1>0. Main \in Actors /\ {"done", "wait"} \cup JsonFiles \subseteq PcValues
  BY StreamKinds DEF PcValues
<1>1. /\ pc \in [Actors -> PcValues] /\ out \in [Actors -> Seq(EntryType)]
      /\ verdict \in [Actors -> {"none", "ok", "failed", "discarded"}] /\ left \subseteq JsonFiles
      /\ ok \in BOOLEAN
  BY DEF Types, ActorTypes, OutTypes
<1>2. ASSUME NEW x \in PcValues, pc' = [pc EXCEPT ![Main] = x], UNCHANGED sinkVars
      PROVE  pc' \in [Actors -> PcValues] /\ SinkTypes'
  <2>1. pc' \in [Actors -> PcValues]
    BY <1>0, <1>1, <1>2
  <2>2. \A a \in Sinks : pc'[a] = pc[a]
    BY <1>1, <1>2, NamesApart, StreamKinds DEF Assemblers
  <2>3. SinkTypes'
    BY <1>2, <2>2 DEF Types, SinkTypes, SinkWell, Bodies, sinkVars
  <2> QED
    BY <2>1, <2>3
<1>3. CASE Return
  <2>1. /\ pc' = [pc EXCEPT ![Main] = "done"]
        /\ \/ verdict' = [verdict EXCEPT ![Main] = "ok"]
           \/ verdict' = [verdict EXCEPT ![Main] = "failed"]
        /\ UNCHANGED <<out, posting, csv, left, sinkVars, streamVars, drainVars, files, ok>>
    BY <1>3 DEF Return
  <2>2. verdict' \in [Actors -> {"none", "ok", "failed", "discarded"}]
    BY <1>0, <1>1, <2>1
  <2>3. ActorTypes' /\ SinkTypes'
    BY <1>0, <1>1, <1>2, <2>1, <2>2 DEF ActorTypes
  <2> QED
    BY <2>1, <2>3, TypesKept DEF Types, streamVars, drainVars
<1>4. CASE \E f \in JsonFiles : FinishStream(f)
  <2>1. PICK f \in JsonFiles : FinishStream(f)
    BY <1>4
  <2>2. /\ pc' = [pc EXCEPT ![Main] = f]
        /\ \/ out' = [out EXCEPT ![Main] = <<Close(f)>>] \/ out' = [out EXCEPT ![Main] = << >>]
        /\ UNCHANGED <<posting, csv, verdict, left, sinkVars, streamVars, drainVars, files, ok>>
    BY <2>1 DEF FinishStream, Close
  <2>3. <<Close(f)>> \in Seq(EntryType) /\ << >> \in Seq(EntryType)
    BY CloseType
  <2>4. OutTypes'
    BY <1>1, <2>2, <2>3 DEF OutTypes
  <2>5. ActorTypes' /\ SinkTypes'
    BY <1>0, <1>1, <1>2, <2>2 DEF ActorTypes
  <2> QED
    BY <2>2, <2>4, <2>5, TypesKept DEF Types, streamVars, drainVars
<1>5. CASE \E f \in JsonFiles : StreamFinished(f)
  <2>1. PICK f \in JsonFiles : StreamFinished(f)
    BY <1>5
  <2>2. /\ pc' = [pc EXCEPT ![Main] = "wait"] /\ left' = left \ {f}
        /\ UNCHANGED <<out, posting, csv, verdict, sinkVars, streamVars, drainVars, files, ok>>
    BY <2>1 DEF StreamFinished
  <2>5. ActorTypes' /\ SinkTypes'
    BY <1>0, <1>1, <1>2, <2>2 DEF ActorTypes
  <2> QED
    BY <2>2, <2>5, TypesKept DEF Types, streamVars, drainVars
<1> QED
  BY <1>3, <1>4, <1>5 DEF Finisher

\* EnsurePool makes a pool, or fails, before anything is queued.
LEMMA PoolTypes ==
  ASSUME Types, NEW p \in Actors, EnsurePool(p)
  PROVE  Types'
BY TypesKept DEF EnsurePool, Types, actorVars, streamVars

LEMMA StartThrowsEffect ==
  ASSUME Types, NEW p \in Actors, StartThrows(p), NEW e, e = Head(out[p])
  PROVE  /\ Free(p) /\ out[p] # << >> /\ e \in EntryType /\ Whole(e.stream) \in Names
         /\ out' = [out EXCEPT ![p] = << >>]
         /\ pc' = [pc EXCEPT ![p] = IF p = Main THEN "wait" ELSE "done"]
         /\ verdict' = [verdict EXCEPT ![p] = "failed"]
         /\ p = Main => left' = JsonFiles
         /\ p # Main => left' = left
         /\ First(e) => files' = [files EXCEPT ![Whole(e.stream)] = << >>]
         /\ ~First(e) => files' = files
         /\ UNCHANGED <<posting, csv, sinkVars, streamVars, tasks, at, hand, ok>>
<1>1. out[p] \in Seq(EntryType) /\ out[p] # << >>
  BY DEF Types, OutTypes, StartThrows
<1>2. e \in EntryType
  BY <1>1, HeadTailProperties
<1>3. Whole(e.stream) \in Names
  BY <1>2, WholeName DEF EntryType
<1> QED
  BY <1>1, <1>2, <1>3 DEF StartThrows, First

LEMMA StartThrowsTypes ==
  ASSUME Types, NEW p \in Actors, StartThrows(p)
  PROVE  Types'
<1>0. PICK e : e = Head(out[p])
  OBVIOUS
<1>1. /\ Whole(e.stream) \in Names /\ out' = [out EXCEPT ![p] = << >>]
      /\ pc' = [pc EXCEPT ![p] = IF p = Main THEN "wait" ELSE "done"]
      /\ verdict' = [verdict EXCEPT ![p] = "failed"]
      /\ p = Main => left' = JsonFiles
      /\ p # Main => left' = left
      /\ First(e) => files' = [files EXCEPT ![Whole(e.stream)] = << >>]
      /\ ~First(e) => files' = files
      /\ UNCHANGED <<posting, csv, sinkVars, streamVars, tasks, at, hand, ok>>
  BY <1>0, StartThrowsEffect
<1>2. /\ pc \in [Actors -> PcValues] /\ out \in [Actors -> Seq(EntryType)]
      /\ verdict \in [Actors -> {"none", "ok", "failed", "discarded"}] /\ left \subseteq JsonFiles
      /\ ok \in BOOLEAN /\ files \in [Names -> FileType] /\ SinkTypes
  BY DEF Types, ActorTypes, OutTypes, FileTypes
<1>3. ActorTypes'
  <2>1. {"wait", "done"} \subseteq PcValues
    BY DEF PcValues
  <2>2. pc' \in [Actors -> PcValues] /\ verdict' \in [Actors -> {"none", "ok", "failed", "discarded"}]
    BY <1>1, <1>2, <2>1
  <2> QED
    BY <1>1, <1>2, <2>2 DEF ActorTypes
<1>4. OutTypes'
  <2>1. << >> \in Seq(EntryType)
    OBVIOUS
  <2> QED
    BY <1>1, <1>2, <2>1 DEF OutTypes
<1>5. SinkTypes'
  <2>1. ASSUME NEW b \in Sinks PROVE SinkWell(b)'
    <3>1. b \in Actors /\ b # Main /\ SinkWell(b)
      BY <1>2, NamesApart, StreamKinds DEF SinkTypes, Assemblers
    <3>2. pc'[b] = pc[b] \/ pc'[b] = "done"
      BY <1>1, <1>2, <3>1
    <3> QED
      BY <1>1, <3>1, <3>2 DEF SinkWell, Bodies, Body, sinkVars
  <2> QED
    BY <1>1, <1>2, <2>1 DEF SinkTypes, sinkVars
<1>6. FileTypes'
  BY <1>1, <1>2, MarkTokens DEF FileTypes
<1> QED
  BY <1>1, <1>3, <1>4, <1>5, <1>6, TypesKept DEF Types, streamVars

LEMMA NextKeepsTypes == Types /\ [Next]_vars => Types'
<1> SUFFICES ASSUME Types, [Next]_vars PROVE Types'
  OBVIOUS
<1>1. ASSUME NEW p \in Actors, Enqueue(p) \/ Schedule(p) PROVE Types'
  BY <1>1, EnqueueTypes, ScheduleTypes
<1>2. ASSUME NEW d \in Drainers, Drain(d) PROVE Types'
  BY <1>2, FetchTypes, PopTypes, PerformTypes DEF Drain
<1>3. ASSUME NEW a \in Sinks, Sink(a) PROVE Types'
  BY <1>3, SinkKeepsTypes
<1>4. ASSUME NEW t \in Tables, Table(t) PROVE Types'
  BY <1>4, TableKeepsTypes
<1>5. CASE Finisher
  BY <1>5, FinisherKeepsTypes
<1>6. CASE UNCHANGED vars
  BY <1>6, TypesKept DEF Types, vars, actorVars, streamVars, drainVars
<1>7. ASSUME NEW p \in Actors, EnsurePool(p) \/ StartThrows(p) PROVE Types'
  BY <1>7, PoolTypes, StartThrowsTypes
<1> QED
  BY <1>1, <1>2, <1>3, <1>4, <1>5, <1>6, <1>7, StreamKinds DEF Next, Caller

\* The pool, its threads and what may go wrong.
PoolWell ==
  faults \subseteq FaultKinds /\ pool \in BOOLEAN /\ alive \subseteq Threads
  /\ alone \in [Actors -> BOOLEAN]

LEMMA InitPool == Init => PoolWell
<1> SUFFICES ASSUME Init PROVE PoolWell
  OBVIOUS
<1>1. faults \subseteq FaultKinds
  BY ConstantsAssumption DEF Init
<1>2. PoolAtStart /\ alone \in [Actors -> BOOLEAN]
  BY DEF Init
<1> QED
  BY <1>1, <1>2 DEF PoolWell, PoolAtStart, SomeThreads

LEMMA NextKeepsPool == PoolWell /\ [Next]_vars => PoolWell'
<1> SUFFICES ASSUME PoolWell, [Next]_vars PROVE PoolWell'
  OBVIOUS
<1>1. ASSUME NEW p \in Actors, EnsurePool(p) \/ StartThrows(p) PROVE PoolWell'
  BY <1>1 DEF PoolWell, EnsurePool, StartThrows, SomeThreads
<1>2. ASSUME NEW p \in Actors, Enqueue(p) \/ Schedule(p) PROVE PoolWell'
  <2>1. /\ UNCHANGED <<faults, pool, alive>>
        /\ \E b \in BOOLEAN : alone' = [alone EXCEPT ![p] = b]
    <3>1. CASE Enqueue(p)
      <4>1. PICK b : b = (alone[p] /\ MustSchedule(Head(out[p]).stream))
        OBVIOUS
      <4>2. alone' = [alone EXCEPT ![p] = b] /\ b \in BOOLEAN
        BY <3>1, <4>1 DEF Enqueue
      <4> QED
        BY <3>1, <4>2 DEF Enqueue
    <3>2. CASE Schedule(p)
      BY <3>2 DEF Schedule
    <3> QED
      BY <1>2, <3>1, <3>2
  <2> QED
    BY <2>1 DEF PoolWell
<1>3. CASE \/ \E d \in Drainers : Drain(d)
           \/ \E a \in Sinks : Sink(a)
           \/ \E t \in Tables : Table(t)
           \/ Finisher
           \/ UNCHANGED vars
  <2>1. UNCHANGED <<faults, pool, alive, alone>>
    BY <1>3 DEF Drain, Fetch, Pop, Perform, Sink, PushBatch, ReplayBreaks, Flush, Discard, Sync,
       Report, Table, StartCsv, AppendRow, FinishCsv, EndCsv, Abandon, Finisher, FinishStream,
       StreamFinished, Return, vars, drainVars
  <2> QED
    BY <2>1 DEF PoolWell
<1> QED
  BY <1>1, <1>2, <1>3, StreamKinds DEF Next, Caller

\* The values every variable may take; what is queued has its drain, and no queue is
\* over its cap, however many assemblers feed it (Enqueue and Drain).
THEOREM TypeCorrect == Spec => []TypeOK
<1>1. Types /\ PoolWell /\ IInv => TypeOK
  <2> SUFFICES ASSUME Types, PoolWell, IInv PROVE TypeOK
    OBVIOUS
  <2>1. \A s \in Streams : (queue[s] # << >> => scheduled[s]) /\ QueuedBytes(s) <= Cap
    BY DEF Types, Caps, IInv, QueuesScheduled, QueuedBytes, WritesIn
  <2> QED
    BY <2>1 DEF Types, ActorTypes, OutTypes, SinkTypes, CsvTypes, StreamTypes, HandTypes,
                FileTypes, PoolWell, TypeOK, PcValues
<1>2. Init => Types /\ PoolWell /\ IInv
  BY InitTypes, InitPool, InitIInv
<1>3. Types /\ PoolWell /\ IInv /\ [Next]_vars => Types' /\ PoolWell' /\ IInv'
  BY NextKeepsTypes, NextKeepsPool, NextKeepsIInv
<1> QED
  BY <1>1, <1>2, <1>3, PTL DEF Spec

-----------------------------------------------------------------------------
(***************************************************************************)
(* The operations of a stream that are still to be carried out, the one    *)
(* under way first.                                                        *)
(***************************************************************************)
HandIn(where, what, s) ==
  LET D == {d \in Drainers : where[d] = s}
  IN  IF D = {} THEN << >> ELSE what[CHOOSE d \in D : TRUE]
Hand(s) == HandIn(at, hand, s)
Pending(s) == Hand(s) \o queue[s]

LEMMA HandIs ==
  ASSUME NEW where, NEW what, NEW s, AtMostOne({d \in Drainers : where[d] = s})
  PROVE  /\ \A d \in Drainers : where[d] = s => HandIn(where, what, s) = what[d]
         /\ (\A d \in Drainers : where[d] # s) => HandIn(where, what, s) = << >>
<1> DEFINE D == {d \in Drainers : where[d] = s}
<1>1. HandIn(where, what, s) = IF D = {} THEN << >> ELSE what[CHOOSE d \in D : TRUE]
  BY DEF HandIn
<1>2. ASSUME NEW d \in D PROVE (CHOOSE x \in D : TRUE) = d
  <2>1. (CHOOSE x \in D : TRUE) \in D
    BY <1>2
  <2> QED
    BY <2>1 DEF AtMostOne
<1>3. \A d \in Drainers : where[d] = s => d \in D
  OBVIOUS
<1>4. (\A d \in Drainers : where[d] # s) => D = {}
  OBVIOUS
<1> HIDE DEF D
<1> QED
  BY <1>1, <1>2, <1>3, <1>4

LEMMA HandOfHolder ==
  ASSUME IInv, NEW s \in Streams
  PROVE  /\ \A d \in Drainers : at[d] = s => Hand(s) = hand[d]
         /\ (\A d \in Drainers : at[d] # s) => Hand(s) = << >>
<1>1. AtMostOne({d \in Drainers : at[d] = s})
  BY DEF IInv, DrainIffScheduled, Holders
<1> QED
  BY <1>1, HandIs DEF Hand

\* The same of the next state.
LEMMA NextHandOfHolder ==
  ASSUME IInv', NEW s \in Streams
  PROVE  /\ \A d \in Drainers : at'[d] = s => Hand(s)' = hand'[d]
         /\ (\A d \in Drainers : at'[d] # s) => Hand(s)' = << >>
<1>1. AtMostOne({d \in Drainers : at'[d] = s})
  BY DEF IInv, DrainIffScheduled, Holders
<1> QED
  BY <1>1, HandIs DEF Hand

LEMMA PendingType ==
  ASSUME Types, IInv, NEW s \in Streams
  PROVE  /\ Hand(s) \in Seq(OpType) /\ queue[s] \in Seq(OpType) /\ Pending(s) \in Seq(OpType)
         /\ Len(Pending(s)) = Len(Hand(s)) + Len(queue[s])
         /\ Hand(s) = << >> => Pending(s) = queue[s]
<1>1. queue[s] \in Seq(OpType) /\ hand \in [Drainers -> Seq(OpType)]
  BY DEF Types, StreamTypes, HandTypes
<1>2. Hand(s) \in Seq(OpType)
  <2>1. CASE \A d \in Drainers : at[d] # s
    <3>1. Hand(s) = << >>
      BY <2>1, HandOfHolder
    <3> QED
      BY <3>1
  <2>2. CASE \E d \in Drainers : at[d] = s
    <3>1. PICK d \in Drainers : at[d] = s
      BY <2>2
    <3>2. Hand(s) = hand[d]
      BY <3>1, HandOfHolder
    <3> QED
      BY <1>1, <3>2
  <2> QED
    BY <2>1, <2>2
<1> QED
  BY <1>1, <1>2, ConcatProperties, ConcatEmptySeq DEF Pending

\* Wait returns when nothing is to be carried out any more.
LEMMA DrainedPending ==
  ASSUME Types, IInv, NEW s \in Streams, Drained(s)
  PROVE  Pending(s) = << >>
<1>1. Holders(s) = {} /\ queue[s] = << >>
  BY DEF IInv, DrainIffScheduled, Drained
<1>2. Hand(s) = << >>
  <2>1. \A d \in Drainers : at[d] # s
    BY <1>1 DEF Holders
  <2> QED
    BY <2>1, HandOfHolder
<1> QED
  BY <1>1, <1>2, PendingType

\* What the steps of a drain do to the operations of stream s and the files.
Wrote(s, op) ==
  /\ op \in OpType /\ Pending(s) = <<op>> \o Pending(s)' /\ ok' = ok
  /\ files' = IF op.kind = "write" THEN [files EXCEPT ![op.file] = @ \o op.data]
              ELSE [files EXCEPT ![op.to] = files[op.file], ![op.file] = << >>]
Lost(s) == ok' = FALSE /\ Pending(s) # << >> /\ Pending(s)' = Tail(Pending(s)) /\ UNCHANGED files
GivenUp(s) == ok' = FALSE /\ Pending(s)' = << >> /\ UNCHANGED files
Quiet(s) == Pending(s)' = Pending(s) /\ UNCHANGED <<files, ok>>
Effect(s) == Quiet(s) \/ Lost(s) \/ GivenUp(s) \/ \E op \in OpType : Wrote(s, op)
Untold == <<pc, out, csv, verdict, left, sinkVars, opened>>
DrainEffect ==
  /\ UNCHANGED Untold
  /\ \E s \in Streams : Effect(s) /\ \A u \in Streams : u # s => Pending(u)' = Pending(u)

LEMMA OtherPending ==
  ASSUME IInv, IInv', NEW u \in Streams, queue'[u] = queue[u],
         \A d \in Drainers : (at'[d] = u <=> at[d] = u) /\ (at[d] = u => hand'[d] = hand[d])
  PROVE  Pending(u)' = Pending(u)
<1>1. Hand(u)' = Hand(u)
  <2>1. CASE \E d \in Drainers : at[d] = u
    <3>1. PICK d \in Drainers : at[d] = u
      BY <2>1
    <3>2. Hand(u) = hand[d]
      BY <3>1, HandOfHolder
    <3>3. at'[d] = u
      BY <3>1
    <3>4. Hand(u)' = hand'[d]
      BY <3>3, NextHandOfHolder
    <3> QED
      BY <3>1, <3>2, <3>4
  <2>2. CASE \A d \in Drainers : at[d] # u
    <3>1. \A d \in Drainers : at'[d] # u
      BY <2>2
    <3>2. Hand(u) = << >>
      BY <2>2, HandOfHolder
    <3>3. Hand(u)' = << >>
      BY <3>1, NextHandOfHolder
    <3> QED
      BY <3>2, <3>3
  <2> QED
    BY <2>1, <2>2
<1> QED
  BY <1>1 DEF Pending

\* The elements of a concatenation.
LEMMA ConcatAt ==
  ASSUME NEW S, NEW q \in Seq(S), NEW r \in Seq(S)
  PROVE  /\ q \o r \in Seq(S) /\ Len(q \o r) = Len(q) + Len(r)
         /\ \A i \in 1..Len(q) : (q \o r)[i] = q[i]
         /\ \A i \in 1..Len(r) : (q \o r)[Len(q) + i] = r[i]
<1>1. /\ q \o r \in Seq(S) /\ Len(q \o r) = Len(q) + Len(r)
      /\ \A i \in 1..(Len(q) + Len(r)) : (q \o r)[i] = IF i <= Len(q) THEN q[i] ELSE r[i - Len(q)]
  BY ConcatProperties
<1>2. Len(q) \in Nat /\ Len(r) \in Nat
  BY LenProperties
<1> DEFINE c == q \o r
<1>3. \A i \in 1..(Len(q) + Len(r)) : c[i] = IF i <= Len(q) THEN q[i] ELSE r[i - Len(q)]
  BY <1>1
<1>0. c \in Seq(S) /\ Len(c) = Len(q) + Len(r)
  BY <1>1
<1> HIDE DEF c
<1>4. \A i \in 1..Len(q) : c[i] = q[i]
  BY <1>2, <1>3
<1>5. ASSUME NEW i \in 1..Len(r) PROVE c[Len(q) + i] = r[i]
  <2>1. Len(q) + i \in 1..(Len(q) + Len(r)) /\ ~(Len(q) + i <= Len(q)) /\ (Len(q) + i) - Len(q) = i
    BY <1>2
  <2> QED
    BY <1>3, <2>1
<1> QED
  BY <1>0, <1>4, <1>5 DEF c

\* Appending to the second of two sequences appends to both.
LEMMA AppendBehind ==
  ASSUME NEW S, NEW q \in Seq(S), NEW r \in Seq(S), NEW x \in S
  PROVE  q \o Append(r, x) = Append(q \o r, x)
<1> DEFINE o == <<x>>
<1>1. o \in Seq(S) /\ Append(r, x) = r \o o
  BY AppendIsConcat
<1>2. q \o r \in Seq(S)
  BY ConcatProperties
<1>3. Append(q \o r, x) = (q \o r) \o o
  BY <1>2, AppendIsConcat
<1> HIDE DEF o
<1>4. (q \o r) \o o = q \o (r \o o)
  BY <1>1, ConcatAssociative
<1> QED
  BY <1>1, <1>3, <1>4

\* A sequence with one more element in front.
LEMMA InFront ==
  ASSUME NEW S, NEW x \in S, NEW q \in Seq(S)
  PROVE  /\ <<x>> \o q \in Seq(S) /\ Len(<<x>> \o q) = Len(q) + 1 /\ (<<x>> \o q)[1] = x
         /\ \A k \in 1..Len(q) : (<<x>> \o q)[k + 1] = q[k]
         /\ Tail(<<x>> \o q) = q /\ <<x>> \o q # << >>
<1> DEFINE p == <<x>> \o q
<1> DEFINE o == <<x>>
<1>0. o \in Seq(S) /\ Len(o) = 1 /\ o[1] = x /\ Len(q) \in Nat
  BY LenProperties
<1>a. p = o \o q
  OBVIOUS
<1> HIDE DEF o, p
<1>1. /\ p \in Seq(S) /\ Len(p) = 1 + Len(q) /\ p[1] = x
      /\ \A i \in 1..Len(q) : p[1 + i] = q[i]
  BY <1>0, <1>a, ConcatAt
<1>2. Len(p) = Len(q) + 1 /\ p[1] = x /\ p # << >>
  BY <1>0, <1>1
<1>3. \A k \in 1..Len(q) : p[k + 1] = q[k]
  BY <1>0, <1>1
<1>4. Tail(p) \in Seq(S) /\ Len(Tail(p)) = Len(q) /\ \A k \in 1..Len(q) : Tail(p)[k] = q[k]
  BY <1>0, <1>1, <1>2, <1>3, HeadTailProperties
<1>5. Tail(p) = q
  BY <1>0, <1>4, SeqEqual
<1> QED
  BY <1>1, <1>2, <1>3, <1>5 DEF p

LEMMA HeadInFront ==
  ASSUME NEW S, NEW q \in Seq(S), q # << >>
  PROVE  q = <<Head(q)>> \o Tail(q) /\ Head(q) = q[1] /\ Head(q) \in S
<1>1. /\ Head(q) \in S /\ Tail(q) \in Seq(S) /\ Len(Tail(q)) = Len(q) - 1 /\ Len(q) \in Nat
      /\ Head(q) = q[1] /\ Len(q) # 0
      /\ \A i \in 1..Len(Tail(q)) : Tail(q)[i] = q[i + 1]
  BY HeadTailProperties, LenProperties, EmptySeq
<1> DEFINE t == Tail(q)
           x == Head(q)
           p == <<x>> \o t
<1>2. x \in S /\ t \in Seq(S) /\ Len(t) = Len(q) - 1 /\ x = q[1]
  BY <1>1
<1>3. \A i \in 1..Len(t) : t[i] = q[i + 1]
  BY <1>1
<1> HIDE DEF t, x
<1>4. p \in Seq(S) /\ Len(p) = Len(t) + 1 /\ p[1] = x /\ \A k \in 1..Len(t) : p[k + 1] = t[k]
  BY <1>2, InFront
<1> HIDE DEF p
<1>5. ASSUME NEW i \in 1..Len(q) PROVE p[i] = q[i]
  <2>1. CASE i = 1
    BY <1>2, <1>4, <2>1
  <2>2. CASE i # 1
    <3>1. i - 1 \in 1..Len(t) /\ (i - 1) + 1 = i
      BY <1>1, <1>2, <2>2
    <3> QED
      BY <1>3, <1>4, <3>1
  <2> QED
    BY <2>1, <2>2
<1>6. p = q
  BY <1>1, <1>2, <1>4, <1>5, SeqEqual
<1> QED
  BY <1>1, <1>6 DEF t, x, p

\* Enqueue puts the operation behind all that are to be carried out.
LEMMA EnqueuePending ==
  ASSUME Types, IInv, IInv', NEW p \in Actors, Enqueue(p), NEW e, e = Head(out[p])
  PROVE  /\ Pending(e.stream)' = Append(Pending(e.stream), QueuedOp(e))
         /\ \A u \in Streams : u # e.stream => Pending(u)' = Pending(u)
<1> DEFINE s == e.stream
<1>1. /\ s \in Streams /\ QueuedOp(e) \in OpType
      /\ queue' = [queue EXCEPT ![s] = Append(@, QueuedOp(e))]
      /\ UNCHANGED <<at, hand>>
  BY EnqueueEffect
<1>2. queue \in [Streams -> Seq(OpType)] /\ Hand(s) \in Seq(OpType) /\ queue[s] \in Seq(OpType)
  BY <1>1, PendingType DEF Types, StreamTypes
<1>3. Hand(s)' = Hand(s)
  BY <1>1 DEF Hand
<1>4. Pending(s)' = Hand(s) \o Append(queue[s], QueuedOp(e))
  BY <1>1, <1>2, <1>3 DEF Pending
<1>5. Hand(s) \o Append(queue[s], QueuedOp(e)) = Append(Hand(s) \o queue[s], QueuedOp(e))
  <2> DEFINE h == Hand(s)
             q == queue[s]
             x == QueuedOp(e)
  <2>1. h \in Seq(OpType) /\ q \in Seq(OpType) /\ x \in OpType
    BY <1>1, <1>2
  <2> HIDE DEF h, q, x
  <2>2. h \o Append(q, x) = Append(h \o q, x)
    BY <2>1, AppendBehind
  <2> QED
    BY <2>2 DEF h, q, x
<1>9. Pending(s)' = Append(Pending(s), QueuedOp(e))
  BY <1>4, <1>5 DEF Pending
<1>10. ASSUME NEW u \in Streams, u # s PROVE Pending(u)' = Pending(u)
  BY <1>1, <1>2, <1>10, OtherPending
<1> QED
  BY <1>9, <1>10

\* A stream whose drain is not under way has no operation under way.
LEMMA ElsewhereNoHand ==
  ASSUME IInv, NEW s \in Streams, Posters(s) \cup Tickets(s) # {}
  PROVE  (\A d \in Drainers : at[d] # s) /\ Hand(s) = << >>
<1>1. \A d \in Drainers : at[d] # s
  BY DEF IInv, DrainIffScheduled, Holders
<1> QED
  BY <1>1, HandOfHolder

LEMMA NoOperation ==
  ASSUME Types, NEW d \in Drainers, at[d] = NoStream
  PROVE  hand[d] = << >>
BY DEF Types, HandTypes, HandWell

LEMMA ScheduleEffect ==
  ASSUME Types, Types', IInv, IInv', NEW p \in Actors, Schedule(p)
  PROVE  DrainEffect
<1>0. posting[p] \in Streams
  BY DEF Schedule, Types, StreamTypes
<1>a. PICK s \in Streams : s = posting[p]
  BY <1>0
<1>1. /\ s # NoStream /\ at[p] = NoStream /\ s \in Streams /\ p \in Drainers /\ posting[p] = s
      /\ UNCHANGED <<pc, out, csv, verdict, left, sinkVars, opened, hand, files>>
  BY <1>a DEF Schedule, IInv, PostersAreFree, Drainers
<1>2. at \in [Drainers -> Streams \cup {NoStream}] /\ queue \in [Streams -> Seq(OpType)]
      /\ ok \in BOOLEAN
  BY DEF Types, StreamTypes, ActorTypes
<1>3. (\A d \in Drainers : at[d] # s) /\ Hand(s) = << >> /\ Pending(s) = queue[s]
  <2>1. p \in Posters(s)
    BY <1>1 DEF Posters
  <2> QED
    BY <1>1, <2>1, ElsewhereNoHand, PendingType
<1>4. UNCHANGED Untold
  BY <1>1 DEF Untold
<1>5. SUFFICES Effect(s) /\ \A u \in Streams : u # s => Pending(u)' = Pending(u)
  BY <1>1, <1>4 DEF DrainEffect
<1>6. ASSUME NEW u \in Streams, u # s, at' = at \/ at' = [at EXCEPT ![p] = s],
             queue'[u] = queue[u]
      PROVE  Pending(u)' = Pending(u)
  <2>1. \A d \in Drainers : at'[d] = u <=> at[d] = u
    BY <1>1, <1>2, <1>6, NamesApart
  <2> QED
    BY <1>1, <1>6, <2>1, OtherPending
<1>7. CASE UNCHANGED <<at, queue, ok>>
  <2>1. Pending(s)' = Pending(s)
    BY <1>1, <1>7, OtherPending
  <2> QED
    BY <1>1, <1>6, <1>7, <2>1 DEF Effect, Quiet
<1>8. CASE at' = [at EXCEPT ![p] = s] /\ UNCHANGED <<queue, ok>>
  <2>1. at'[p] = s /\ hand'[p] = << >>
    BY <1>1, <1>2, <1>8, NoOperation
  <2>2. Hand(s)' = << >>
    BY <1>1, <2>1, NextHandOfHolder
  <2>3. Pending(s)' = queue[s]
    BY <1>1, <1>8, <1>2, <2>2, ConcatEmptySeq DEF Pending
  <2> QED
    BY <1>1, <1>3, <1>6, <1>8, <2>3 DEF Effect, Quiet
<1>9. CASE FailStream(s) /\ UNCHANGED at
  <2>1. queue' = [queue EXCEPT ![s] = << >>] /\ ok' = FALSE
    BY <1>9 DEF FailStream, Dropped
  <2>2. Hand(s)' = << >>
    BY <1>1, <1>3, <1>9, NextHandOfHolder
  <2>3. Pending(s)' = << >>
    BY <1>1, <1>2, <2>1, <2>2 DEF Pending
  <2> QED
    BY <1>1, <1>2, <1>6, <1>9, <2>1, <2>3 DEF Effect, GivenUp
<1> QED
  BY <1>1, <1>7, <1>8, <1>9 DEF Schedule

LEMMA FetchEffect ==
  ASSUME Types, Types', IInv, IInv', NEW d \in Drainers, Fetch(d)
  PROVE  DrainEffect
<1>0. Head(tasks) \in Streams
  BY HeadTailProperties DEF Fetch, Types, StreamTypes
<1>a. PICK s \in Streams : s = Head(tasks)
  BY <1>0
<1>1. /\ at[d] = NoStream /\ tasks # << >> /\ at' = [at EXCEPT ![d] = s] /\ tasks' = Tail(tasks)
      /\ UNCHANGED <<pc, out, posting, csv, verdict, left, sinkVars, streamVars, hand, files, ok>>
  BY <1>a DEF Fetch, actorVars
<1>2. /\ at \in [Drainers -> Streams \cup {NoStream}] /\ queue \in [Streams -> Seq(OpType)]
      /\ tasks \in Seq(Streams)
  BY DEF Types, StreamTypes
<1>3. s \in Streams /\ s = tasks[1] /\ 1 \in 1..Len(tasks)
  BY <1>1, <1>2, <1>a, HeadInFront, EmptySeq, LenProperties
<1>4. (\A x \in Drainers : at[x] # s) /\ Hand(s) = << >> /\ Pending(s) = queue[s]
  <2>1. 1 \in Tickets(s)
    BY <1>3 DEF Tickets
  <2> QED
    BY <1>3, <2>1, ElsewhereNoHand, PendingType
<1>5. Pending(s)' = queue[s]
  <2>1. at'[d] = s /\ hand'[d] = << >>
    BY <1>1, <1>2, NoOperation
  <2>2. Hand(s)' = << >>
    BY <1>3, <2>1, NextHandOfHolder
  <2> QED
    BY <1>1, <1>2, <1>3, <2>2, ConcatEmptySeq DEF Pending, streamVars
<1>6. ASSUME NEW u \in Streams, u # s PROVE Pending(u)' = Pending(u)
  <2>1. \A x \in Drainers : at'[x] = u <=> at[x] = u
    BY <1>1, <1>2, <1>6, NamesApart
  <2> QED
    BY <1>1, <1>6, <2>1, OtherPending DEF streamVars
<1> QED
  BY <1>1, <1>3, <1>4, <1>5, <1>6 DEF DrainEffect, Effect, Quiet, Untold, streamVars

LEMMA PopEffect ==
  ASSUME Types, Types', IInv, IInv', NEW d \in Drainers, Pop(d)
  PROVE  DrainEffect
<1>0. at[d] \in Streams
  BY DEF Pop, Types, StreamTypes
<1>a. PICK s \in Streams : s = at[d]
  BY <1>0
<1>1. /\ s # NoStream /\ at[d] = s /\ hand[d] = << >>
      /\ UNCHANGED <<pc, out, posting, csv, verdict, left, sinkVars, opened, tasks, files, ok>>
  BY <1>a DEF Pop, actorVars
<1>2. /\ at \in [Drainers -> Streams \cup {NoStream}] /\ queue \in [Streams -> Seq(OpType)]
      /\ s \in Streams /\ hand \in [Drainers -> Seq(OpType)] /\ queue[s] \in Seq(OpType)
  BY <1>1 DEF Types, StreamTypes, HandTypes
<1>3. Hand(s) = << >> /\ Pending(s) = queue[s]
  BY <1>1, <1>2, HandOfHolder, PendingType
<1>4. SUFFICES Pending(s)' = queue[s] /\ \A u \in Streams : u # s => Pending(u)' = Pending(u)
  BY <1>1, <1>2, <1>3 DEF DrainEffect, Effect, Quiet, Untold
<1>5. CASE queue[s] = << >> /\ at' = [at EXCEPT ![d] = NoStream] /\ UNCHANGED <<queue, hand>>
  <2>1. \A x \in Drainers : at'[x] # s
    <3>1. AtMostOne(Holders(s)) /\ d \in Holders(s)
      BY <1>1, <1>2 DEF IInv, DrainIffScheduled, Holders
    <3> QED
      BY <1>1, <1>2, <1>5, <3>1 DEF AtMostOne, Holders
  <2>2. Pending(s)' = queue[s]
    <3>1. Hand(s)' = << >>
      BY <1>2, <2>1, NextHandOfHolder
    <3> QED
      BY <1>2, <1>5, <3>1, ConcatEmptySeq DEF Pending
  <2>3. ASSUME NEW u \in Streams, u # s PROVE Pending(u)' = Pending(u)
    <3>1. \A x \in Drainers : at'[x] = u <=> at[x] = u
      BY <1>1, <1>2, <1>5, <2>3, NamesApart
    <3> QED
      BY <1>5, <2>3, <3>1, OtherPending
  <2> QED
    BY <2>2, <2>3
<1>6. CASE /\ queue[s] # << >> /\ hand' = [hand EXCEPT ![d] = <<Head(queue[s])>>]
           /\ queue' = [queue EXCEPT ![s] = Tail(@)] /\ UNCHANGED at
  <2>1. Hand(s)' = <<Head(queue[s])>>
    <3>1. at'[d] = s /\ hand'[d] = <<Head(queue[s])>>
      BY <1>1, <1>2, <1>6
    <3> QED
      BY <1>2, <3>1, NextHandOfHolder
  <2>2. Pending(s)' = <<Head(queue[s])>> \o Tail(queue[s])
    BY <1>2, <1>6, <2>1 DEF Pending
  <2>3. Pending(s)' = queue[s]
    BY <1>2, <1>6, <2>2, HeadInFront
  <2>4. ASSUME NEW u \in Streams, u # s PROVE Pending(u)' = Pending(u)
    <3>1. \A x \in Drainers : at[x] = u => hand'[x] = hand[x]
      BY <1>1, <1>2, <1>6, <2>4
    <3>2. queue'[u] = queue[u]
      BY <1>2, <1>6, <2>4
    <3> QED
      BY <1>6, <3>1, <3>2, OtherPending
  <2> QED
    BY <2>3, <2>4
<1> QED
  BY <1>1, <1>5, <1>6 DEF Pop

LEMMA PerformEffect ==
  ASSUME Types, Types', IInv, IInv', NEW d \in Drainers, Perform(d)
  PROVE  DrainEffect
<1>1. /\ hand[d] # << >> /\ hand' = [hand EXCEPT ![d] = << >>]
      /\ UNCHANGED <<pc, out, posting, csv, verdict, left, sinkVars, opened, tasks>>
  BY DEF Perform, actorVars
<1>2. PICK op \in OpType : hand[d] = <<op>> /\ at[d] # NoStream
  BY <1>1 DEF Types, HandTypes, HandWell
<1>0. at[d] \in Streams
  BY <1>2 DEF Types, StreamTypes
<1>a. PICK s \in Streams : s = at[d]
  BY <1>0
<1>3. /\ at \in [Drainers -> Streams \cup {NoStream}] /\ queue \in [Streams -> Seq(OpType)]
      /\ s \in Streams /\ hand \in [Drainers -> Seq(OpType)] /\ queue[s] \in Seq(OpType)
      /\ at[d] = s
  BY <1>2, <1>a DEF Types, StreamTypes, HandTypes
<1>4. Head(hand[d]) = op /\ Hand(s) = <<op>> /\ Pending(s) = <<op>> \o queue[s]
  <2>1. Hand(s) = hand[d]
    BY <1>3, HandOfHolder
  <2>2. Head(<<op>>) = op
    OBVIOUS
  <2>3. Head(hand[d]) = op
    BY <1>2, <2>2, Zenon
  <2> QED
    BY <1>2, <2>1, <2>3, Zenon DEF Pending
<1>5. Tail(Pending(s)) = queue[s] /\ Pending(s) # << >>
  BY <1>3, <1>4, InFront
<1>6. UNCHANGED Untold
  BY <1>1 DEF Untold
<1>7. CASE UNCHANGED <<queue, at>>
  <2>1. Pending(s)' = queue[s]
    <3>1. at'[d] = s /\ hand'[d] = << >>
      BY <1>1, <1>3, <1>7
    <3>2. Hand(s)' = << >>
      BY <1>3, <3>1, NextHandOfHolder
    <3> QED
      BY <1>3, <1>7, <3>2, ConcatEmptySeq DEF Pending
  <2>2. ASSUME NEW u \in Streams, u # s PROVE Pending(u)' = Pending(u)
    <3>1. \A x \in Drainers : at[x] = u => hand'[x] = hand[x]
      BY <1>1, <1>3, <2>2
    <3> QED
      BY <1>7, <3>1, OtherPending
  <2>3. CASE files' = [files EXCEPT ![op.file] = @ \o op.data] /\ op.kind = "write" /\ ok' = ok
    BY <1>3, <1>4, <1>6, <2>1, <2>2, <2>3 DEF DrainEffect, Effect, Wrote
  <2>4. CASE files' = [files EXCEPT ![op.to] = files[op.file], ![op.file] = << >>]
             /\ op.kind = "rename" /\ ok' = ok
    BY <1>3, <1>4, <1>6, <2>1, <2>2, <2>4 DEF DrainEffect, Effect, Wrote
  <2>5. CASE ok' = FALSE /\ UNCHANGED files
    BY <1>3, <1>5, <1>6, <2>1, <2>2, <2>5 DEF DrainEffect, Effect, Lost
  <2>6. \/ files' = [files EXCEPT ![op.file] = @ \o op.data] /\ op.kind = "write" /\ ok' = ok
        \/ files' = [files EXCEPT ![op.to] = files[op.file], ![op.file] = << >>]
           /\ op.kind = "rename" /\ ok' = ok
        \/ ok' = FALSE /\ UNCHANGED files
    <3>1. LET o == Head(hand[d]) IN
          \/ files' = [files EXCEPT ![o.file] = @ \o o.data] /\ o.kind = "write" /\ ok' = ok
          \/ files' = [files EXCEPT ![o.to] = files[o.file], ![o.file] = << >>]
             /\ o.kind = "rename" /\ ok' = ok
          \/ ok' = FALSE /\ UNCHANGED files
      BY DEF Perform, FailStream
    <3> QED
      BY <1>4, <3>1
  <2> QED
    BY <2>3, <2>4, <2>5, <2>6
<1>8. CASE FailStream(s) /\ at' = [at EXCEPT ![d] = NoStream] /\ UNCHANGED files
  <2>1. queue' = [queue EXCEPT ![s] = << >>] /\ ok' = FALSE
    BY <1>8 DEF FailStream, Dropped
  <2>2. \A x \in Drainers : at'[x] # s
    <3>1. AtMostOne(Holders(s)) /\ d \in Holders(s)
      BY <1>3 DEF IInv, DrainIffScheduled, Holders
    <3> QED
      BY <1>2, <1>3, <1>8, <3>1 DEF AtMostOne, Holders
  <2>3. Pending(s)' = << >>
    <3>1. Hand(s)' = << >>
      BY <1>3, <2>2, NextHandOfHolder
    <3> QED
      BY <1>3, <2>1, <3>1 DEF Pending
  <2>4. ASSUME NEW u \in Streams, u # s PROVE Pending(u)' = Pending(u)
    <3>1. \A x \in Drainers : at'[x] = u <=> at[x] = u
      BY <1>2, <1>3, <1>8, <2>4, NamesApart
    <3>2. \A x \in Drainers : at[x] = u => hand'[x] = hand[x]
      BY <1>1, <1>3, <2>4
    <3>3. queue'[u] = queue[u]
      BY <1>3, <2>1, <2>4
    <3> QED
      BY <3>1, <3>2, <3>3, OtherPending
  <2> QED
    BY <1>3, <1>6, <1>8, <2>1, <2>3, <2>4 DEF DrainEffect, Effect, GivenUp
<1> QED
  BY <1>3, <1>7, <1>8 DEF Perform

-----------------------------------------------------------------------------
(***************************************************************************)
(* The steps, as far as operations and files are concerned.                *)
(***************************************************************************)
LEMMA StepKinds ==
  ASSUME Types, Types', IInv, IInv', [Next]_vars
  PROVE  \/ \E p \in Actors : Enqueue(p)
         \/ \E p \in Actors : StartThrows(p)
         \/ DrainEffect
         \/ \E a \in Sinks : Sink(a)
         \/ \E t \in Tables : Table(t)
         \/ Finisher
         \/ UNCHANGED <<actorVars, streamVars, tasks, at, hand, files, ok>>
<1>1. ASSUME NEW p \in Actors, Schedule(p) PROVE DrainEffect
  BY <1>1, ScheduleEffect
<1>2. ASSUME NEW d \in Drainers, Drain(d) PROVE DrainEffect
  BY <1>2, FetchEffect, PopEffect, PerformEffect DEF Drain
<1>3. ASSUME NEW p \in Actors, EnsurePool(p) \/ UNCHANGED vars
      PROVE  UNCHANGED <<actorVars, streamVars, tasks, at, hand, files, ok>>
  BY <1>3 DEF EnsurePool, vars, drainVars
<1> QED
  BY <1>1, <1>2, <1>3, StreamKinds DEF Next, Caller

\* Steps that neither queue nor carry out operations.
LEMMA StillPending ==
  ASSUME UNCHANGED <<queue, at, hand>>
  PROVE  \A s \in Streams : Pending(s)' = Pending(s)
BY DEF Pending, Hand

LEMMA NextPendingType ==
  ASSUME Types', IInv', NEW s \in Streams
  PROVE  Pending(s)' \in Seq(OpType)
<1>1. queue'[s] \in Seq(OpType) /\ hand' \in [Drainers -> Seq(OpType)]
  BY DEF Types, StreamTypes, HandTypes
<1>2. Hand(s)' \in Seq(OpType)
  <2>1. CASE \A d \in Drainers : at'[d] # s
    <3>1. Hand(s)' = << >>
      BY <2>1, NextHandOfHolder
    <3> QED
      BY <3>1
  <2>2. CASE \E d \in Drainers : at'[d] = s
    <3>1. PICK d \in Drainers : at'[d] = s
      BY <2>2
    <3>2. Hand(s)' = hand'[d]
      BY <3>1, NextHandOfHolder
    <3> QED
      BY <1>1, <3>2
  <2> QED
    BY <2>1, <2>2
<1> QED
  BY <1>1, <1>2, ConcatProperties DEF Pending

\* q is p, or p without its first element, or empty.
LEMMA Shifts ==
  ASSUME NEW S, NEW p \in Seq(S), NEW q \in Seq(S),
         q = p \/ q = << >> \/ (p # << >> /\ q = Tail(p)) \/ \E x \in S : p = <<x>> \o q
  PROVE  /\ \A k \in 1..Len(q) : \E j \in 1..Len(p) : q[k] = p[j]
         /\ q # << >> => p # << >>
<1>1. Len(p) \in Nat /\ Len(q) \in Nat
  BY LenProperties
<1>2. CASE q = p
  BY <1>2
<1>3. CASE p # << >> /\ q = Tail(p)
  <2>1. Len(q) = Len(p) - 1 /\ \A k \in 1..Len(q) : q[k] = p[k + 1]
    BY <1>3, HeadTailProperties
  <2>2. \A k \in 1..Len(q) : k + 1 \in 1..Len(p)
    BY <1>1, <2>1
  <2> QED
    BY <1>3, <2>1, <2>2
<1>4. CASE q = << >>
  BY <1>4
<1>5. CASE \E x \in S : p = <<x>> \o q
  <2>1. PICK x \in S : p = <<x>> \o q
    BY <1>5
  <2>2. Len(p) = Len(q) + 1 /\ p # << >> /\ \A k \in 1..Len(q) : p[k + 1] = q[k]
    BY <2>1, InFront
  <2>3. \A k \in 1..Len(q) : k + 1 \in 1..Len(p)
    BY <1>1, <2>2
  <2> QED
    BY <2>2, <2>3
<1> QED
  BY <1>2, <1>3, <1>4, <1>5

\* Operations are lost or carried out from the front.
LEMMA EffectShifts ==
  ASSUME Types, Types', IInv, IInv', NEW s \in Streams, Effect(s)
  PROVE  /\ \A k \in 1..Len(Pending(s)') : \E j \in 1..Len(Pending(s)) :
              Pending(s)'[k] = Pending(s)[j]
         /\ Pending(s)' # << >> => Pending(s) # << >>
<1>1. Pending(s) \in Seq(OpType) /\ Pending(s)' \in Seq(OpType)
  BY PendingType, NextPendingType
<1>2. \/ Pending(s)' = Pending(s) \/ Pending(s)' = << >>
      \/ Pending(s) # << >> /\ Pending(s)' = Tail(Pending(s))
      \/ \E x \in OpType : Pending(s) = <<x>> \o Pending(s)'
  BY DEF Effect, Quiet, Lost, GivenUp, Wrote
<1> DEFINE p == Pending(s)
           q == Pending(s)'
<1>3. /\ p \in Seq(OpType) /\ q \in Seq(OpType)
      /\ q = p \/ q = << >> \/ (p # << >> /\ q = Tail(p)) \/ \E x \in OpType : p = <<x>> \o q
  BY <1>1, <1>2, Zenon
<1> HIDE DEF p, q
<1>4. /\ \A k \in 1..Len(q) : \E j \in 1..Len(p) : q[k] = p[j]
      /\ q # << >> => p # << >>
  BY <1>3, Shifts, Zenon
<1> QED
  BY <1>4, Zenon DEF p, q

-----------------------------------------------------------------------------
(***************************************************************************)
(* What the operations of a stream are.                                    *)
(***************************************************************************)
Separators == {"[", ","}
EventData(sep, b, n) == << <<sep, 0>>, <<b, n>> >>
ClosingData == << <<"]", 0>> >>
JsonOp(f, op) ==
  /\ op.kind = "write" /\ op.file = Whole(f)
  /\ \/ op.data = ClosingData
     \/ \E sep \in Separators : \E b \in Sinks : \E n \in Nat : op.data = EventData(sep, b, n)
TableOp(t, op) == op.file[1] = t /\ op.to[1] = t
OpOf(s, op) == (s \in JsonFiles => JsonOp(s, op)) /\ (s \in Tables => TableOp(s, op))
TableEntry(t, e) == e \in EntryType /\ e.stream = t /\ e.prefix = FALSE /\ TableOp(t, e.op)

OpsShape(s) == \A k \in 1..Len(Pending(s)) : OpOf(s, Pending(s)[k])
SinkOut(a) == \A k \in 1..Len(out[a]) : EventEntry(a, out[a][k])
TableOut(t) == \A k \in 1..Len(out[t]) : TableEntry(t, out[t][k])
MainOut ==
  \/ out[Main] = << >>
  \/ \E f \in JsonFiles : pc[Main] = f /\ opened[f] /\ out[Main] = <<Close(f)>>
Unopened(f) == ~opened[f] => files[Whole(f)] \in {Stale, << >>} /\ Pending(f) = << >>
Resting ==
  /\ \A p \in Assemblers : pc[p] = "done" => out[p] = << >>
  /\ \A t \in Tables : pc[t] = "assemble" => out[t] = << >>
  /\ pc[Main] # "wait" \/ left # JsonFiles => \A p \in Assemblers : pc[p] = "done"

Shapes ==
  /\ \A s \in Streams : OpsShape(s)
  /\ \A a \in Sinks : SinkOut(a)
  /\ \A t \in Tables : TableOut(t)
  /\ MainOut /\ Resting
  /\ \A f \in JsonFiles : Unopened(f)

\* The names of files of different streams.
LEMMA FileNames ==
  /\ \A f \in Streams : Whole(f)[1] = f /\ Whole(f) \in Names
  /\ \A t \in Tables : \A i : Slice(t, i)[1] = t
  /\ JsonFiles \cap Tables = {} /\ JsonFiles \subseteq Streams /\ Tables \subseteq Streams
  /\ \A f, s \in Streams : Whole(f) = Whole(s) => f = s
BY NamesApart, WholeName DEF Whole, Slice, Streams

LEMMA Pair ==
  ASSUME NEW x, NEW y
  PROVE  <<x>> \o <<y>> = <<x, y>>
<1> DEFINE S == {x, y}
           q == <<x>>
           r == <<y>>
           t == <<x, y>>
<1>1. /\ q \in Seq(S) /\ Len(q) = 1 /\ q[1] = x /\ r \in Seq(S) /\ Len(r) = 1 /\ r[1] = y
      /\ t \in Seq(S) /\ Len(t) = 2 /\ t[1] = x /\ t[2] = y
  OBVIOUS
<1> HIDE DEF q, r, t, S
<1>2. q \o r \in Seq(S) /\ Len(q \o r) = 2 /\ (q \o r)[1] = x /\ (q \o r)[2] = y
  <2> DEFINE c == q \o r
  <2>1. /\ c \in Seq(S) /\ Len(c) = Len(q) + Len(r)
        /\ \A i \in 1..Len(q) : c[i] = q[i]
        /\ \A i \in 1..Len(r) : c[Len(q) + i] = r[i]
    BY <1>1, ConcatAt
  <2> HIDE DEF c
  <2>2. c[1] = x /\ c[1 + 1] = y
    BY <1>1, <2>1
  <2> QED
    BY <1>1, <2>1, <2>2 DEF c
<1>3. q \o r = t
  <2>1. \A i \in 1..2 : (q \o r)[i] = t[i]
    BY <1>1, <1>2
  <2> QED
    BY <1>1, <1>2, <2>1, SeqEqual
<1> QED
  BY <1>3 DEF q, r, t

\* What Enqueue queues for the entry of a sink.
LEMMA EventOp ==
  ASSUME Types, NEW a \in Sinks, NEW e, EventEntry(a, e)
  PROVE  /\ e.stream \in JsonFiles /\ e.prefix = TRUE /\ NumberOf(e) \in Nat
         /\ QueuedOp(e).kind = "write" /\ QueuedOp(e).file = Whole(e.stream)
         /\ \E sep \in Separators :
              /\ sep = "[" <=> ~opened[e.stream]
              /\ QueuedOp(e).data = EventData(sep, a, NumberOf(e))
<1>1. e.stream \in JsonFiles
  <2>1. Targets[a] \in Seq(JsonFiles) /\ DOMAIN Targets[a] = 1..Len(Targets[a])
    BY ConstantsAssumption, LenProperties
  <2> QED
    BY <2>1, ElementOfSeq DEF EventEntry, Range
<1>2. e.prefix = TRUE /\ NumberOf(e) \in Nat /\ e.op = Write(Whole(e.stream), Body(a, NumberOf(e)))
  BY DEF EventEntry
<1> DEFINE sep == IF First(e) THEN "[" ELSE ","
           n == NumberOf(e)
<1>3. sep \in Separators /\ (sep = "[" <=> ~opened[e.stream])
  <2>1. opened[e.stream] \in BOOLEAN
    BY <1>1, FileNames DEF Types, StreamTypes
  <2> QED
    BY <1>2, <2>1 DEF First, Separators
<1>4. QueuedOp(e) = [e.op EXCEPT !.data = << <<sep, 0>> >> \o @]
  BY <1>2 DEF QueuedOp
<1> HIDE DEF sep, n
<1>5. e.op.data = << <<a, n>> >> /\ e.op.kind = "write" /\ e.op.file = Whole(e.stream)
  BY <1>2 DEF Write, Body, n
<1>6. << <<sep, 0>> >> \o << <<a, n>> >> = EventData(sep, a, n)
  BY Pair, Zenon DEF EventData
<1>7. e.op \in OpType
  BY DEF EventEntry, EntryType
<1>8. QueuedOp(e).kind = "write" /\ QueuedOp(e).file = Whole(e.stream)
      /\ QueuedOp(e).data = << <<sep, 0>> >> \o e.op.data
  BY <1>4, <1>5, <1>7 DEF OpType
<1> QED
  BY <1>1, <1>2, <1>3, <1>5, <1>6, <1>8 DEF n

\* The entries an actor may queue next.
LEMMA FirstEntry ==
  ASSUME Types, Shapes, NEW p \in Actors, out[p] # << >>, NEW e, e = Head(out[p])
  PROVE  /\ e \in EntryType /\ OpOf(e.stream, QueuedOp(e))
         /\ \/ p \in Sinks /\ EventEntry(p, e)
            \/ p \in Tables /\ TableEntry(p, e) /\ QueuedOp(e) = e.op
            \/ /\ p = Main
               /\ \E f \in JsonFiles :
                    /\ pc[Main] = f /\ opened[f] /\ out[Main] = <<Close(f)>> /\ e = Close(f)
                    /\ QueuedOp(e) = Write(Whole(f), ClosingData)
<1>1. out[p] # << >> /\ out[p] \in Seq(EntryType)
  BY DEF Types, OutTypes
<1>2. e \in EntryType /\ e = out[p][1] /\ 1 \in 1..Len(out[p])
  BY <1>1, HeadInFront, LenProperties, EmptySeq
<1>3. CASE p \in Sinks
  <2>1. EventEntry(p, e)
    BY <1>2, <1>3 DEF Shapes, SinkOut
  <2>2. /\ e.stream \in JsonFiles
        /\ QueuedOp(e).kind = "write" /\ QueuedOp(e).file = Whole(e.stream)
        /\ \E sep \in Separators : QueuedOp(e).data = EventData(sep, p, NumberOf(e))
        /\ NumberOf(e) \in Nat
    BY <1>3, <2>1, EventOp
  <2>3. JsonOp(e.stream, QueuedOp(e)) /\ e.stream \notin Tables
    BY <1>3, <2>2, FileNames DEF JsonOp
  <2> QED
    BY <1>2, <1>3, <2>1, <2>3 DEF OpOf
<1>4. CASE p \in Tables
  <2>1. TableEntry(p, e)
    BY <1>2, <1>4 DEF Shapes, TableOut
  <2>2. QueuedOp(e) = e.op /\ e.stream = p /\ TableOp(p, e.op) /\ p \notin JsonFiles
    BY <1>4, <2>1, FileNames DEF TableEntry, QueuedOp
  <2> QED
    BY <1>2, <1>4, <2>1, <2>2 DEF OpOf
<1>5. CASE p = Main
  <2>1. PICK f \in JsonFiles : pc[Main] = f /\ opened[f] /\ out[Main] = <<Close(f)>>
    BY <1>1, <1>5 DEF Shapes, MainOut
  <2>2. e = Close(f)
    <3>1. Head(<<Close(f)>>) = Close(f)
      OBVIOUS
    <3> QED
      BY <1>5, <2>1, <3>1, Zenon
  <2>3. QueuedOp(e) = Write(Whole(f), ClosingData) /\ e.stream = f
    <3>1. e.prefix = FALSE /\ e.op = Write(Whole(f), ClosingData) /\ e.stream = f
      BY <2>2 DEF Close, Entry, ClosingData
    <3> QED
      BY <3>1 DEF QueuedOp
  <2>4. JsonOp(f, QueuedOp(e)) /\ f \notin Tables
    BY <2>3, FileNames DEF JsonOp, Write
  <2> QED
    BY <1>2, <1>5, <2>1, <2>2, <2>3, <2>4 DEF OpOf
<1> QED
  BY <1>3, <1>4, <1>5 DEF Actors, Assemblers

LEMMA NextEntry ==
  ASSUME Types, Shapes, NEW p \in Actors, Enqueue(p), NEW e, e = Head(out[p])
  PROVE  /\ e \in EntryType /\ OpOf(e.stream, QueuedOp(e))
         /\ \/ p \in Sinks /\ EventEntry(p, e)
            \/ p \in Tables /\ TableEntry(p, e) /\ QueuedOp(e) = e.op
            \/ /\ p = Main
               /\ \E f \in JsonFiles :
                    /\ pc[Main] = f /\ opened[f] /\ out[Main] = <<Close(f)>> /\ e = Close(f)
                    /\ QueuedOp(e) = Write(Whole(f), ClosingData)
<1>1. out[p] # << >>
  BY DEF Enqueue
<1> QED
  BY <1>1, FirstEntry

LEMMA InitShapes == Init => Shapes
<1> SUFFICES ASSUME Init PROVE Shapes
  OBVIOUS
<1>1. Types /\ IInv
  BY InitTypes, InitIInv
<1>2. ASSUME NEW s \in Streams PROVE Pending(s) = << >>
  <2>1. Drained(s)
    BY DEF Init, Drained
  <2> QED
    BY <1>1, <2>1, DrainedPending
<1>3. \A s \in Streams : OpsShape(s)
  BY <1>2 DEF OpsShape
<1>4. \A p \in Actors : out[p] = << >>
  BY DEF Init
<1>5. (\A a \in Sinks : SinkOut(a)) /\ (\A t \in Tables : TableOut(t)) /\ MainOut
  BY <1>4, StreamKinds DEF SinkOut, TableOut, MainOut
<1>6. Resting
  <2>1. pc[Main] = "wait" /\ left = JsonFiles
    BY StreamKinds DEF Init
  <2>2. \A p \in Assemblers : out[p] = << >>
    BY <1>4 DEF Actors
  <2> QED
    BY <2>1, <2>2 DEF Resting, Assemblers
<1>7. \A f \in JsonFiles : Unopened(f)
  BY <1>2, FileNames DEF Init, Unopened
<1> QED
  BY <1>3, <1>5, <1>6, <1>7 DEF Shapes

LEMMA EnqueueKeepsShapes ==
  ASSUME Types, Types', IInv, IInv', Shapes, NEW p \in Actors, Enqueue(p)
  PROVE  Shapes'
<1>0. PICK e : e = Head(out[p])
  OBVIOUS
<1> DEFINE s == e.stream
<1>1. /\ out[p] # << >> /\ e \in EntryType /\ s \in Streams
      /\ QueuedOp(e) \in OpType
      /\ opened' = [opened EXCEPT ![s] = @ \/ e.prefix]
      /\ files' = IF First(e) THEN [files EXCEPT ![Whole(s)] = << >>] ELSE files
      /\ out' = [out EXCEPT ![p] = Tail(@)]
      /\ UNCHANGED <<pc, csv, verdict, left, sinkVars, tasks, at, hand, ok>>
  BY <1>0, EnqueueEffect
<1>2. /\ OpOf(s, QueuedOp(e))
      /\ \/ p \in Sinks /\ EventEntry(p, e)
         \/ p \in Tables /\ TableEntry(p, e) /\ QueuedOp(e) = e.op
         \/ /\ p = Main
            /\ \E f \in JsonFiles :
                 /\ pc[Main] = f /\ opened[f] /\ out[Main] = <<Close(f)>> /\ e = Close(f)
                 /\ QueuedOp(e) = Write(Whole(f), ClosingData)
  BY <1>0, NextEntry
<1>3. /\ Pending(s)' = Append(Pending(s), QueuedOp(e))
      /\ \A u \in Streams : u # s => Pending(u)' = Pending(u)
  BY <1>0, EnqueuePending
<1>4. /\ out \in [Actors -> Seq(EntryType)] /\ opened \in [Streams -> BOOLEAN]
      /\ files \in [Names -> FileType]
  BY DEF Types, OutTypes, StreamTypes, FileTypes
<1>5. /\ Tail(out[p]) \in Seq(EntryType) /\ Len(Tail(out[p])) = Len(out[p]) - 1
      /\ Len(out[p]) \in Nat
      /\ \A k \in 1..Len(Tail(out[p])) : Tail(out[p])[k] = out[p][k + 1]
  BY <1>1, <1>4, HeadTailProperties, LenProperties
<1>6. ASSUME NEW u \in Streams PROVE OpsShape(u)'
  <2>1. CASE u = s
    <3>1. /\ Pending(s) \in Seq(OpType) /\ Len(Append(Pending(s), QueuedOp(e))) = Len(Pending(s)) + 1
          /\ Len(Pending(s)) \in Nat
          /\ \A k \in 1..Len(Pending(s)) : Append(Pending(s), QueuedOp(e))[k] = Pending(s)[k]
          /\ Append(Pending(s), QueuedOp(e))[Len(Pending(s)) + 1] = QueuedOp(e)
      BY <1>1, PendingType, AppendProperties, LenProperties
    <3>2. ASSUME NEW k \in 1..(Len(Pending(s)) + 1)
          PROVE  OpOf(s, Append(Pending(s), QueuedOp(e))[k])
      <4>1. CASE k \in 1..Len(Pending(s))
        BY <1>1, <3>1, <4>1 DEF Shapes, OpsShape
      <4>2. CASE k = Len(Pending(s)) + 1
        BY <1>2, <3>1, <4>2
      <4> QED
        BY <3>1, <4>1, <4>2
    <3> QED
      BY <1>3, <2>1, <3>1, <3>2 DEF OpsShape
  <2>2. CASE u # s
    BY <1>3, <2>2 DEF Shapes, OpsShape
  <2> QED
    BY <2>1, <2>2
<1>7. \A k \in 1..Len(out'[p]) : k + 1 \in 1..Len(out[p]) /\ out'[p][k] = out[p][k + 1]
  BY <1>1, <1>4, <1>5
<1>8. \A q \in Actors : q # p => out'[q] = out[q]
  BY <1>1, <1>4
<1>9. ASSUME NEW a \in Sinks PROVE SinkOut(a)'
  <2>1. \A k \in 1..Len(out[a]) : EventEntry(a, out[a][k])
    BY DEF Shapes, SinkOut
  <2>2. CASE a = p
    <3>1. \A k \in 1..Len(out'[a]) : EventEntry(a, out'[a][k])
      BY <1>7, <2>1, <2>2
    <3> QED
      BY <3>1 DEF SinkOut
  <2>3. CASE a # p
    BY <1>8, <2>1, <2>3, StreamKinds DEF SinkOut
  <2> QED
    BY <2>2, <2>3
<1>10. ASSUME NEW t \in Tables PROVE TableOut(t)'
  BY <1>7, <1>8, StreamKinds DEF Shapes, TableOut
<1>11. MainOut'
  <2>1. \A f \in Streams : opened[f] => opened'[f]
    BY <1>1, <1>4
  <2>2. CASE p # Main
    BY <1>1, <1>8, <2>1, <2>2, StreamKinds, FileNames DEF Shapes, MainOut
  <2>3. CASE p = Main
    <3>1. PICK f \in JsonFiles : out[Main] = <<Close(f)>>
      BY <1>1, <2>3 DEF Shapes, MainOut
    <3>2. Tail(<<Close(f)>>) = << >>
      OBVIOUS
    <3> QED
      BY <1>1, <1>4, <2>3, <3>1, <3>2 DEF MainOut
  <2> QED
    BY <2>2, <2>3
<1>12. Resting'
  <2>1. \A q \in Assemblers : out[q] = << >> => out'[q] = << >>
    BY <1>1, <1>8 DEF Actors
  <2> QED
    BY <1>1, <2>1 DEF Shapes, Resting, Assemblers
<1>13. ASSUME NEW f \in JsonFiles PROVE Unopened(f)'
  <2>0. f \in Streams /\ opened[f] \in BOOLEAN /\ e.prefix \in BOOLEAN
    BY <1>1, <1>4, FileNames DEF EntryType
  <2>1. CASE f = s
    <3>1. opened'[f]
      <4>1. CASE p \in Sinks
        <5>1. e.prefix = TRUE
          BY <1>2, <4>1, NamesApart, StreamKinds DEF EventEntry, Assemblers
        <5> QED
          BY <1>1, <1>4, <2>0, <2>1, <5>1
      <4>2. CASE p \in Tables
        <5>1. p \notin Sinks /\ p # Main
          BY <4>2, TableNames
        <5>2. s = p
          BY <1>2, <5>1 DEF TableEntry
        <5> QED
          BY <2>1, <4>2, <5>2, FileNames
      <4>3. CASE p = Main
        <5>1. Main \notin Sinks /\ Main \notin Tables
          BY NamesApart DEF Assemblers
        <5>2. PICK g \in JsonFiles : opened[g] /\ e = Close(g)
          BY <1>2, <4>3, <5>1
        <5>3. g = s
          BY <5>2 DEF Close, Entry
        <5> QED
          BY <1>1, <1>4, <2>0, <2>1, <5>2, <5>3
      <4> QED
        BY <4>1, <4>2, <4>3 DEF Actors, Assemblers
    <3> QED
      BY <3>1 DEF Unopened
  <2>2. CASE f # s
    <3>1. opened'[f] = opened[f] /\ Pending(f)' = Pending(f)
      BY <1>1, <1>3, <1>4, <2>0, <2>2
    <3>2. files'[Whole(f)] = files[Whole(f)]
      BY <1>1, <1>4, <2>0, <2>2, FileNames
    <3> QED
      BY <3>1, <3>2 DEF Shapes, Unopened
  <2> QED
    BY <2>1, <2>2
<1> QED
  BY <1>6, <1>9, <1>10, <1>11, <1>12, <1>13 DEF Shapes

\* An operation of a stream touches files of that stream only.
LEMMA WroteFiles ==
  ASSUME Types, Types', IInv, IInv', Shapes, NEW s \in Streams, NEW op \in OpType, Wrote(s, op)
  PROVE  /\ OpOf(s, op) /\ Pending(s) # << >> /\ Pending(s)[1] = op
         /\ Len(Pending(s)) = Len(Pending(s)') + 1 /\ Len(Pending(s)') \in Nat
         /\ \A k \in 1..Len(Pending(s)') : Pending(s)'[k] = Pending(s)[k + 1]
         /\ \A n \in Names : n[1] # s => files'[n] = files[n]
         /\ \A f \in JsonFiles : files'[Whole(f)] = IF f = s THEN files[Whole(f)] \o op.data
                                                    ELSE files[Whole(f)]
<1>1. Pending(s)' \in Seq(OpType) /\ Pending(s) = <<op>> \o Pending(s)'
  BY NextPendingType DEF Wrote
<1> DEFINE q == Pending(s)'
           p == Pending(s)
<1>2. q \in Seq(OpType) /\ p = <<op>> \o q
  BY <1>1
<1> HIDE DEF p, q
<1>3. /\ Len(p) = Len(q) + 1 /\ p[1] = op /\ p # << >> /\ Len(q) \in Nat
      /\ \A k \in 1..Len(q) : p[k + 1] = q[k]
  BY <1>2, InFront, LenProperties
<1>4. OpOf(s, op)
  <2>1. 1 \in 1..Len(p)
    BY <1>3
  <2> QED
    BY <1>3, <2>1 DEF Shapes, OpsShape, p
<1>5. /\ files \in [Names -> FileType] /\ op.file \in Names /\ op.to \in Names
      /\ files' = IF op.kind = "write" THEN [files EXCEPT ![op.file] = @ \o op.data]
                  ELSE [files EXCEPT ![op.to] = files[op.file], ![op.file] = << >>]
  BY DEF Types, FileTypes, OpType, Wrote
<1>6. CASE s \in JsonFiles
  <2>1. op.kind = "write" /\ op.file = Whole(s)
    BY <1>4, <1>6 DEF OpOf, JsonOp
  <2>2. files' = [files EXCEPT ![Whole(s)] = @ \o op.data] /\ Whole(s)[1] = s /\ Whole(s) \in Names
    BY <1>5, <2>1, FileNames
  <2>3. \A n \in Names : n[1] # s => files'[n] = files[n]
    BY <1>5, <2>2
  <2>4. ASSUME NEW f \in JsonFiles
        PROVE  files'[Whole(f)] = IF f = s THEN files[Whole(f)] \o op.data ELSE files[Whole(f)]
    <3>1. CASE f = s
      BY <1>5, <2>2, <3>1
    <3>2. CASE f # s
      BY <2>3, <3>2, FileNames
    <3> QED
      BY <3>1, <3>2
  <2> QED
    BY <1>3, <1>4, <2>3, <2>4 DEF p, q
<1>7. CASE s \notin JsonFiles
  <2>1. s \in Tables /\ op.file[1] = s /\ op.to[1] = s
    BY <1>4, <1>7 DEF OpOf, TableOp, Streams
  <2>2. \A n \in Names : n[1] # s => files'[n] = files[n]
    BY <1>5, <2>1
  <2>3. \A f \in JsonFiles : files'[Whole(f)] = files[Whole(f)] /\ f # s
    BY <1>7, <2>2, FileNames
  <2> QED
    BY <1>3, <1>4, <2>2, <2>3 DEF p, q
<1> QED
  BY <1>6, <1>7

LEMMA DrainKeepsShapes ==
  ASSUME Types, Types', IInv, IInv', Shapes, DrainEffect
  PROVE  Shapes'
<1>1. PICK s \in Streams : Effect(s) /\ \A u \in Streams : u # s => Pending(u)' = Pending(u)
  BY DEF DrainEffect
<1>2. UNCHANGED <<pc, out, csv, verdict, left, sinkVars, opened>>
  BY DEF DrainEffect, Untold
<1>3. ASSUME NEW u \in Streams PROVE OpsShape(u)'
  <2>1. CASE u = s
    <3>1. \A k \in 1..Len(Pending(s)') : \E j \in 1..Len(Pending(s)) :
             Pending(s)'[k] = Pending(s)[j]
      BY <1>1, EffectShifts
    <3> QED
      BY <2>1, <3>1 DEF Shapes, OpsShape
  <2>2. CASE u # s
    BY <1>1, <2>2 DEF Shapes, OpsShape
  <2> QED
    BY <2>1, <2>2
<1>4. (\A a \in Sinks : SinkOut(a)') /\ (\A t \in Tables : TableOut(t)') /\ MainOut' /\ Resting'
  BY <1>2 DEF Shapes, SinkOut, TableOut, MainOut, Resting
<1>5. ASSUME NEW f \in JsonFiles PROVE Unopened(f)'
  <2> SUFFICES ASSUME ~opened[f] PROVE files'[Whole(f)] \in {Stale, << >>} /\ Pending(f)' = << >>
    BY <1>2 DEF Unopened
  <2>0. f \in Streams /\ files[Whole(f)] \in {Stale, << >>} /\ Pending(f) = << >>
    BY FileNames DEF Shapes, Unopened
  <2>1. Pending(f)' = << >>
    <3>1. CASE f = s
      BY <1>1, <2>0, <3>1, EffectShifts
    <3>2. CASE f # s
      BY <1>1, <2>0, <3>2
    <3> QED
      BY <3>1, <3>2
  <2>2. files'[Whole(f)] = files[Whole(f)]
    <3>1. CASE UNCHANGED files
      BY <3>1
    <3>2. CASE \E op \in OpType : Wrote(s, op)
      <4>1. PICK op \in OpType : Wrote(s, op)
        BY <3>2
      <4>2. Pending(s) # << >>
        BY <4>1, WroteFiles
      <4>3. f # s
        BY <2>0, <4>2
      <4> QED
        BY <4>1, <4>3, WroteFiles
    <3> QED
      BY <1>1, <3>1, <3>2 DEF Effect, Quiet, Lost, GivenUp
  <2> QED
    BY <2>0, <2>1, <2>2
<1> QED
  BY <1>3, <1>4, <1>5 DEF Shapes

TableEntries(t, q) == q \in Seq(EntryType) /\ \A k \in 1..Len(q) : TableEntry(t, q[k])

LEMMA NoEntries == \A t : TableEntries(t, << >>)
BY DEF TableEntries

LEMMA MoreEntries ==
  ASSUME NEW t, NEW q, NEW r, TableEntries(t, q), TableEntries(t, r)
  PROVE  TableEntries(t, q \o r)
<1>1. q \in Seq(EntryType) /\ r \in Seq(EntryType) /\ Len(q) \in Nat /\ Len(r) \in Nat
  BY LenProperties DEF TableEntries
<1> DEFINE c == q \o r
<1>2. /\ c \in Seq(EntryType) /\ Len(c) = Len(q) + Len(r)
      /\ \A i \in 1..Len(q) : c[i] = q[i]
      /\ \A i \in 1..Len(r) : c[Len(q) + i] = r[i]
  BY <1>1, ConcatAt
<1> HIDE DEF c
<1>3. ASSUME NEW k \in 1..Len(c) PROVE TableEntry(t, c[k])
  <2>1. CASE k <= Len(q)
    BY <1>1, <1>2, <2>1 DEF TableEntries
  <2>2. CASE ~(k <= Len(q))
    <3> DEFINE i == k - Len(q)
    <3>1. i \in 1..Len(r) /\ Len(q) + i = k
      BY <1>1, <1>2, <2>2
    <3>2. c[k] = r[i]
      BY <1>2, <3>1
    <3> QED
      BY <3>1, <3>2 DEF TableEntries
  <2> QED
    BY <2>1, <2>2
<1> QED
  BY <1>2, <1>3 DEF TableEntries, c

LEMMA OneEntry ==
  ASSUME NEW t \in Tables, NEW op \in OpType, TableOp(t, op)
  PROVE  TableEntries(t, <<CsvEntry(t, op)>>)
<1> DEFINE e == CsvEntry(t, op)
<1>0. FALSE \in BOOLEAN
  OBVIOUS
<1>1. TableEntry(t, e)
  <2>1. e \in EntryType
    BY <1>0, TableNames DEF CsvEntry, Entry, EntryType
  <2>2. e.stream = t /\ e.prefix = FALSE /\ e.op = op
    BY DEF CsvEntry, Entry
  <2> QED
    BY <2>1, <2>2 DEF TableEntry
<1>2. e \in EntryType
  BY <1>1 DEF TableEntry
<1> HIDE DEF e
<1>3. <<e>> \in Seq(EntryType) /\ Len(<<e>>) = 1 /\ <<e>>[1] = e
  BY <1>2
<1>4. \A k \in 1..1 : TableEntry(t, <<e>>[k])
  BY <1>1, <1>3
<1> QED
  BY <1>3, <1>4, Zenon DEF TableEntries, e

\* Where the stream of a table writes to.
LEMMA PathOf ==
  ASSUME NEW t \in Tables, NEW c \in CsvType, CsvWell(t, c), c.started
  PROVE  c.path \in Names /\ c.path[1] = t
         /\ (c.path = Whole(t) \/ \E i \in 0..MaxSlice : c.path = Slice(t, i))
<1>1. c.started = TRUE /\ c.sliceIndex \in 0..MaxSlice
  BY DEF CsvType
<1>2. c.path = IF c.sliceMode THEN Slice(t, c.sliceIndex) ELSE Whole(t)
  BY <1>1 DEF CsvWell
<1> QED
  BY <1>1, <1>2, TableNames, FileNames

LEMMA FlushEntries ==
  ASSUME NEW t \in Tables, NEW c \in CsvType, CsvWell(t, c)
  PROVE  TableEntries(t, FlushBuffer(t, c))
<1>1. CASE c.buffer = << >>
  BY <1>1, NoEntries DEF FlushBuffer
<1>2. CASE c.buffer # << >>
  <2>1. c.started
    BY <1>2 DEF CsvWell, CsvType
  <2>2. c.path \in Names /\ c.path[1] = t
    BY <2>1, PathOf
  <2> DEFINE op == Write(c.path, c.buffer)
  <2>3. op \in OpType /\ TableOp(t, op)
    BY <2>2 DEF Write, OpType, CsvType, TableOp
  <2> HIDE DEF op
  <2>4. TableEntries(t, <<CsvEntry(t, op)>>)
    BY <2>3, OneEntry
  <2>5. FlushBuffer(t, c) = <<CsvEntry(t, op)>>
    BY <1>2 DEF FlushBuffer, op
  <2> QED
    BY <2>4, <2>5
<1> QED
  BY <1>1, <1>2

\* Renaming the first file of a table to its slice 0.
RenameOp(t) == Rename(Whole(t), Slice(t, 0))

LEMMA RenameEntries ==
  ASSUME NEW t \in Tables, NEW j \in Jobs
  PROVE  RenameOp(t) \in OpType /\ TableEntries(t, <<CsvEntry(t, RenameOp(t))>>)
<1>1. 0 \in 0..MaxSlice
  <2>1. 0 \in Nat /\ 0 * Limit <= j.rows
    BY JobTypes, ConstantsAssumption
  <2> QED
    BY <2>1, MaxSliceBound
<1>2. /\ Slice(t, 0) \in Names /\ Whole(t) \in Names /\ << >> \in FileType
      /\ Whole(t)[1] = t /\ Slice(t, 0)[1] = t
  BY <1>1, TableNames, MarkTokens, FileNames
<1>3. RenameOp(t) \in OpType /\ TableOp(t, RenameOp(t))
  BY <1>2 DEF RenameOp, Rename, OpType, TableOp
<1> QED
  BY <1>3, OneEntry

\* What AppendCsv queues when the last slice is full.
LEMMA CompletingIs ==
  ASSUME NEW t \in Tables, NEW c \in CsvType, CsvWell(t, c), c.started
  PROVE  Completing(t, c) = FlushBuffer(t, c)
           \o (IF c.sliceMode THEN << >> ELSE <<CsvEntry(t, RenameOp(t))>>)
<1>1. CASE c.sliceMode
  BY <1>1 DEF Completing
<1>2. CASE ~c.sliceMode
  <2>1. c.path = Whole(t)
    BY <1>2 DEF CsvWell, CsvType
  <2> QED
    BY <1>2, <2>1 DEF Completing, RenameOp
<1> QED
  BY <1>1, <1>2

LEMMA AppendEntries ==
  ASSUME NEW t \in Tables, NEW c \in CsvType, CsvWell(t, c), c.next <= c.job.rows
  PROVE  TableEntries(t, Closing(t, c)) /\ TableEntries(t, Writing(t, c))
<1>1. TableEntries(t, Closing(t, c))
  <2>1. CASE c.started /\ Full(c)
    <3>1. TableEntries(t, FlushBuffer(t, c))
      BY FlushEntries
    <3>2. c.job \in Jobs
      BY DEF CsvType
    <3> DEFINE r == IF c.sliceMode THEN << >> ELSE <<CsvEntry(t, RenameOp(t))>>
    <3>3. TableEntries(t, r)
      BY <3>2, RenameEntries, NoEntries
    <3>4. Closing(t, c) = FlushBuffer(t, c) \o r
      BY <2>1, CompletingIs DEF Closing
    <3> HIDE DEF r
    <3> QED
      BY <3>1, <3>3, <3>4, MoreEntries
  <2>2. CASE ~(c.started /\ Full(c))
    BY <2>2, NoEntries DEF Closing
  <2> QED
    BY <2>1, <2>2
<1>2. TableEntries(t, Writing(t, c))
  <2> DEFINE w == WithRow(t, c)
  <2>1. w \in CsvType /\ CsvWell(t, w)
    BY WithRowWell
  <2>2. Writing(t, c) = IF Flushes(t, c) THEN FlushBuffer(t, w) ELSE << >>
    BY DEF Writing
  <2> HIDE DEF w
  <2>3. TableEntries(t, FlushBuffer(t, w)) /\ TableEntries(t, << >>)
    BY <2>1, FlushEntries, NoEntries
  <2> QED
    BY <2>2, <2>3, Zenon
<1> QED
  BY <1>1, <1>2

-----------------------------------------------------------------------------
\* Steps that leave the streams and the files of timelines alone.
LEMMA StreamsStand ==
  ASSUME Shapes, UNCHANGED <<queue, at, hand, opened>>,
         \A f \in JsonFiles : files'[Whole(f)] = files[Whole(f)]
  PROVE  (\A s \in Streams : OpsShape(s)') /\ \A f \in JsonFiles : Unopened(f)'
<1>1. \A s \in Streams : Pending(s)' = Pending(s)
  BY StillPending
<1> QED
  BY <1>1, FileNames DEF Shapes, OpsShape, Unopened

LEMMA SinkKeepsShapes ==
  ASSUME Types, Shapes, NEW a \in Sinks, Sink(a)
  PROVE  Shapes'
<1>1. UNCHANGED <<left, queue, scheduled, opened, tasks, at, hand, files>>
  BY SinkFrame DEF streamVars, drainVars
<1>2. (\A s \in Streams : OpsShape(s)') /\ \A f \in JsonFiles : Unopened(f)'
  BY <1>1, StreamsStand
<1>3. out \in [Actors -> Seq(EntryType)] /\ pc \in [Actors -> PcValues] /\ a \in Actors
  BY StreamKinds DEF Types, OutTypes, ActorTypes
<1>4. /\ \A k \in 1..Len(out'[a]) : EventEntry(a, out'[a][k])
      /\ \A q \in Actors : q # a => out'[q] = out[q] /\ pc'[q] = pc[q]
      /\ pc'[a] = "done" => out'[a] = << >>
      /\ pc[a] = "done" => pc'[a] = "done"
  <2>0. /\ \A k \in 1..Len(out[a]) : EventEntry(a, out[a][k])
        /\ pc[a] = "done" => out[a] = << >>
    BY DEF Shapes, SinkOut, Resting, Assemblers
  <2>1. CASE PushBatch(a)
    <3>1. /\ pc[a] = "assemble" /\ UNCHANGED pc
          /\ \/ UNCHANGED out
             \/ /\ out' = [out EXCEPT ![a] = ReplayThenRest(a, made[a] + 1)]
                /\ Publication(a, ReplayThenRest(a, made[a] + 1), FirstNew(a), made[a] + 1)
      BY <2>1, PushEffect
    <3> QED
      BY <1>3, <2>0, <3>1 DEF Publication
  <2>2. CASE ReplayBreaks(a)
    <3>1. /\ UNCHANGED pc
          /\ \E n \in 1..Len(out[a]) : out' = [out EXCEPT ![a] = SubSeq(@, n + 1, Len(@))]
      BY <2>2 DEF ReplayBreaks
    <3>2. PICK n \in 1..Len(out[a]) : out' = [out EXCEPT ![a] = SubSeq(@, n + 1, Len(@))]
      BY <3>1
    <3> DEFINE r == SubSeq(out[a], n + 1, Len(out[a]))
    <3>3. /\ Len(r) = Len(out[a]) - n /\ Len(out[a]) \in Nat
          /\ \A k \in 1..(Len(out[a]) - n) : r[k] = out[a][n + k]
      BY <1>3, WithoutFirst, LenProperties
    <3>4. out' = [out EXCEPT ![a] = r]
      BY <3>2
    <3> HIDE DEF r
    <3>5. ASSUME NEW k \in 1..Len(r) PROVE EventEntry(a, r[k])
      <4>1. n + k \in 1..Len(out[a]) /\ r[k] = out[a][n + k]
        BY <3>3
      <4> QED
        BY <2>0, <4>1
    <3>6. pc[a] # "done"
      <4>1. out[a] # << >>
        BY <2>2 DEF ReplayBreaks
      <4> QED
        BY <2>0, <4>1
    <3> QED
      BY <1>3, <3>1, <3>4, <3>5, <3>6
  <2>3. CASE Flush(a)
    <3>1. /\ pc[a] = "assemble" /\ pc' = [pc EXCEPT ![a] = "sync"]
          /\ \E n \in {made[a], made[a] + 1} : \E q : Published(a, n, q)
      BY <2>3, FlushEffect
    <3>2. PICK n \in {made[a], made[a] + 1} : \E q : Published(a, n, q)
      BY <3>1
    <3>3. PICK q : Published(a, n, q)
      BY <3>2
    <3> QED
      BY <1>3, <3>1, <3>3 DEF Published, Publication
  <2>4. CASE Discard(a) \/ Report(a)
    <3>1. pc' = [pc EXCEPT ![a] = "done"] /\ UNCHANGED out /\ out[a] = << >>
      BY <2>4 DEF Discard, Report, Idle
    <3> QED
      BY <1>3, <2>0, <3>1
  <2>5. CASE Sync(a)
    <3>1. UNCHANGED <<pc, out>>
      BY <2>5 DEF Sync
    <3> QED
      BY <2>0, <3>1
  <2> QED
    BY <2>1, <2>2, <2>3, <2>4, <2>5 DEF Sink
<1>5. a # Main /\ a \notin Tables
  BY NamesApart DEF Assemblers
<1>6. \A b \in Sinks : SinkOut(b)'
  BY <1>4, StreamKinds DEF Shapes, SinkOut
<1>7. \A t \in Tables : TableOut(t)'
  BY <1>4, <1>5, StreamKinds DEF Shapes, TableOut
<1>8. MainOut'
  BY <1>1, <1>4, <1>5, StreamKinds DEF Shapes, MainOut
<1>9. Resting'
  BY <1>1, <1>4, <1>5, StreamKinds DEF Shapes, Resting, Assemblers, Actors
<1> QED
  BY <1>2, <1>6, <1>7, <1>8, <1>9 DEF Shapes

LEMMA TableKeepsShapes ==
  ASSUME Types, Shapes, NEW t \in Tables, Table(t)
  PROVE  Shapes'
<1>0. /\ out \in [Actors -> Seq(EntryType)] /\ pc \in [Actors -> PcValues] /\ t \in Actors
      /\ csv[t] \in CsvType /\ CsvWell(t, csv[t]) /\ t # Main /\ t \notin Sinks
      /\ files \in [Names -> FileType]
  BY TableNames DEF Types, OutTypes, ActorTypes, CsvTypes, FileTypes
<1>1. /\ UNCHANGED <<left, queue, opened, at, hand>>
      /\ \A n \in Names : n[1] # t => files'[n] = files[n]
  BY <1>0 DEF Table, StartCsv, AppendRow, FinishCsv, EndCsv, Abandon, streamVars, drainVars
<1>2. (\A s \in Streams : OpsShape(s)') /\ \A f \in JsonFiles : Unopened(f)'
  <2>1. \A f \in JsonFiles : files'[Whole(f)] = files[Whole(f)]
    BY <1>1, FileNames
  <2> QED
    BY <1>1, <2>1, StreamsStand
<1>3. /\ \A k \in 1..Len(out'[t]) : TableEntry(t, out'[t][k])
      /\ \A q \in Actors : q # t => out'[q] = out[q] /\ pc'[q] = pc[q]
      /\ pc'[t] = "done" => out'[t] = << >>
      /\ pc[t] = "done" => pc'[t] = "done"
      /\ pc'[t] # "assemble"
  <2>0. /\ \A k \in 1..Len(out[t]) : TableEntry(t, out[t][k])
        /\ pc[t] = "assemble" => out[t] = << >>
    BY DEF Shapes, TableOut, Resting
  <2>1. CASE StartCsv(t)
    <3>1. pc[t] = "assemble" /\ pc' = [pc EXCEPT ![t] = "rows"] /\ UNCHANGED out
      BY <2>1 DEF StartCsv
    <3> QED
      BY <1>0, <2>0, <3>1
  <2>2. CASE AppendRow(t)
    <3>1. /\ pc[t] = "rows" /\ csv[t].next <= csv[t].job.rows /\ UNCHANGED pc
          /\ out' = [out EXCEPT ![t] = Closing(t, csv[t]) \o Writing(t, csv[t])]
      BY <2>2, AppendRowEffect
    <3>2. TableEntries(t, Closing(t, csv[t]) \o Writing(t, csv[t]))
      BY <1>0, <3>1, AppendEntries, MoreEntries
    <3> QED
      BY <1>0, <3>1, <3>2 DEF TableEntries
  <2>3. CASE FinishCsv(t)
    <3>1. /\ pc[t] = "rows" /\ pc' = [pc EXCEPT ![t] = "sync"]
          /\ out' = [out EXCEPT ![t] = FlushBuffer(t, csv[t])]
      BY <2>3, FinishCsvEffect
    <3>2. TableEntries(t, FlushBuffer(t, csv[t]))
      BY <1>0, FlushEntries
    <3> QED
      BY <1>0, <3>1, <3>2 DEF TableEntries
  <2>4. CASE EndCsv(t) \/ Abandon(t)
    <3>1. pc' = [pc EXCEPT ![t] = "done"] /\ UNCHANGED out /\ out[t] = << >>
      BY <2>4 DEF EndCsv, Abandon, Idle
    <3> QED
      BY <1>0, <2>0, <3>1
  <2> QED
    BY <2>1, <2>2, <2>3, <2>4 DEF Table
<1>4. \A b \in Sinks : SinkOut(b)'
  BY <1>0, <1>3, StreamKinds DEF Shapes, SinkOut
<1>5. \A u \in Tables : TableOut(u)'
  BY <1>3, StreamKinds DEF Shapes, TableOut
<1>6. MainOut'
  BY <1>0, <1>1, <1>3, StreamKinds DEF Shapes, MainOut
<1>7. Resting'
  BY <1>0, <1>1, <1>3, StreamKinds DEF Shapes, Resting, Assemblers, Actors
<1> QED
  BY <1>2, <1>4, <1>5, <1>6, <1>7 DEF Shapes

LEMMA FinisherKeepsShapes ==
  ASSUME Types, Shapes, Finisher
  PROVE  Shapes'
<1>0. /\ out \in [Actors -> Seq(EntryType)] /\ pc \in [Actors -> PcValues] /\ Main \in Actors
      /\ Main \notin Sinks /\ Main \notin Tables
  BY StreamKinds, NamesApart DEF Types, OutTypes, ActorTypes, Assemblers
<1>1. UNCHANGED <<queue, opened, at, hand, files>>
  BY DEF Finisher, Return, FinishStream, StreamFinished, streamVars, drainVars
<1>2. (\A s \in Streams : OpsShape(s)') /\ \A f \in JsonFiles : Unopened(f)'
  BY <1>1, StreamsStand
<1>3. /\ \A q \in Actors : q # Main => out'[q] = out[q] /\ pc'[q] = pc[q]
      /\ MainOut'
      /\ \A p \in Assemblers : pc[p] = "done"
  <2>1. CASE Return
    <3>1. /\ pc[Main] = "wait" /\ pc' = [pc EXCEPT ![Main] = "done"] /\ UNCHANGED out
          /\ \A p \in Assemblers : pc[p] = "done"
      BY <2>1 DEF Return
    <3>2. out[Main] = << >>
      BY <3>1, NamesApart DEF Shapes, MainOut
    <3> QED
      BY <1>0, <3>1, <3>2 DEF MainOut
  <2>2. CASE \E f \in JsonFiles : FinishStream(f)
    <3>1. PICK f \in JsonFiles : FinishStream(f)
      BY <2>2
    <3>2. /\ pc[Main] = "wait" /\ pc' = [pc EXCEPT ![Main] = f]
          /\ \A p \in Assemblers : pc[p] = "done"
          /\ out' = [out EXCEPT ![Main] = IF opened[f] THEN <<Close(f)>> ELSE << >>]
      BY <3>1 DEF FinishStream, Close
    <3>3. out'[Main] = (IF opened[f] THEN <<Close(f)>> ELSE << >>) /\ pc'[Main] = f
      BY <1>0, <3>2
    <3>4. MainOut'
      <4>1. CASE opened[f]
        <5>1. out'[Main] = <<Close(f)>> /\ pc'[Main] = f /\ opened'[f]
          BY <1>1, <3>3, <4>1
        <5>2. Close(f)' = Close(f)
          BY DEF Close
        <5> QED
          BY <5>1, <5>2 DEF MainOut
      <4>2. CASE ~opened[f]
        BY <3>3, <4>2 DEF MainOut
      <4> QED
        BY <4>1, <4>2
    <3> QED
      BY <1>0, <3>2, <3>4
  <2>3. CASE \E f \in JsonFiles : StreamFinished(f)
    <3>1. PICK f \in JsonFiles : StreamFinished(f)
      BY <2>3
    <3>2. /\ pc[Main] = f /\ pc' = [pc EXCEPT ![Main] = "wait"] /\ UNCHANGED out
          /\ out[Main] = << >>
      BY <3>1 DEF StreamFinished, Idle
    <3>3. pc[Main] # "wait"
      BY <3>2, NamesApart
    <3> QED
      BY <1>0, <3>2, <3>3 DEF MainOut, Shapes, Resting
  <2> QED
    BY <2>1, <2>2, <2>3 DEF Finisher
<1>4. \A b \in Sinks : SinkOut(b)'
  BY <1>0, <1>3, StreamKinds DEF Shapes, SinkOut
<1>5. \A u \in Tables : TableOut(u)'
  BY <1>0, <1>3, StreamKinds DEF Shapes, TableOut
<1>6. Resting'
  BY <1>0, <1>3, NamesApart, StreamKinds DEF Shapes, Resting, Assemblers, Actors
<1> QED
  BY <1>2, <1>3, <1>4, <1>5, <1>6 DEF Shapes

LEMMA MainFacts ==
  ASSUME Types
  PROVE  /\ Main \in Actors /\ Main \notin Assemblers /\ Main \notin Tables /\ Main \notin Sinks
         /\ out \in [Actors -> Seq(EntryType)] /\ pc \in [Actors -> PcValues]
         /\ verdict \in [Actors -> {"none", "ok", "failed", "discarded"}] /\ ok \in BOOLEAN
         /\ opened \in [Streams -> BOOLEAN] /\ files \in [Names -> FileType]
         /\ \A f \in JsonFiles : /\ f \in Streams /\ f \notin Tables /\ f # "wait" /\ f # "done"
                                 /\ Whole(f) \in Names /\ files[Whole(f)] \in FileType
<1>1. Main \in Actors /\ Main \notin Assemblers /\ Main \notin Tables /\ Main \notin Sinks
  BY NamesApart DEF Actors, Assemblers
<1>2. \A f \in JsonFiles : f \in Streams /\ f \notin Tables /\ Whole(f) \in Names
  BY FileNames
<1>3. \A f \in JsonFiles : f # "wait" /\ f # "done"
  BY NamesApart
<1> QED
  BY <1>1, <1>2, <1>3 DEF Types, OutTypes, ActorTypes, StreamTypes, FileTypes

\* Start throws in the middle of an actor's operations: those it had still to queue are
\* gone, and at most the file of a timeline nobody has opened is touched.
LEMMA StartThrowsFrame ==
  ASSUME Types, Shapes, NEW p \in Actors, StartThrows(p)
  PROVE  /\ out' = [out EXCEPT ![p] = << >>]
         /\ pc' = [pc EXCEPT ![p] = IF p = Main THEN "wait" ELSE "done"]
         /\ verdict' = [verdict EXCEPT ![p] = "failed"]
         /\ p = Main => left' = JsonFiles
         /\ p # Main => left' = left
         /\ UNCHANGED <<csv, sinkVars, opened, queue, at, hand, ok>>
         /\ out[p] # << >>
         /\ \/ files' = files
            \/ \E g \in JsonFiles : ~opened[g] /\ files' = [files EXCEPT ![Whole(g)] = << >>]
<1>0. PICK e : e = Head(out[p])
  OBVIOUS
<1>1. /\ out' = [out EXCEPT ![p] = << >>] /\ out[p] # << >>
      /\ pc' = [pc EXCEPT ![p] = IF p = Main THEN "wait" ELSE "done"]
      /\ verdict' = [verdict EXCEPT ![p] = "failed"]
      /\ p = Main => left' = JsonFiles
      /\ p # Main => left' = left
      /\ First(e) => files' = [files EXCEPT ![Whole(e.stream)] = << >>]
      /\ ~First(e) => files' = files
      /\ UNCHANGED <<csv, sinkVars, opened, queue, at, hand, ok>>
  BY <1>0, StartThrowsEffect DEF streamVars
<1>2. CASE First(e)
  <2>1. e.prefix /\ ~opened[e.stream]
    BY <1>2 DEF First
  <2>2. p \in Sinks /\ EventEntry(p, e)
    <3>1. \/ p \in Sinks /\ EventEntry(p, e)
          \/ p \in Tables /\ TableEntry(p, e)
          \/ \E f \in JsonFiles : e = Close(f)
      BY <1>0, <1>1, FirstEntry
    <3>2. ~(p \in Tables /\ TableEntry(p, e))
      BY <2>1 DEF TableEntry
    <3>3. ~\E f \in JsonFiles : e = Close(f)
      BY <2>1 DEF Close, Entry
    <3> QED
      BY <3>1, <3>2, <3>3
  <2>3. e.stream \in JsonFiles
    BY <2>2, EventOp
  <2> QED
    BY <1>1, <1>2, <2>1, <2>3
<1>3. CASE ~First(e)
  BY <1>1, <1>3
<1> QED
  BY <1>1, <1>2, <1>3

\* The file of a timeline that was not opened is empty or what an earlier export left.
LEMMA StartThrowsFiles ==
  ASSUME Types, Shapes, NEW p \in Actors, StartThrows(p)
  PROVE  /\ \A f \in JsonFiles :
              \/ files'[Whole(f)] = files[Whole(f)]
              \/ ~opened[f] /\ files'[Whole(f)] = << >>
         /\ \A n \in Names : n[1] \in Tables => files'[n] = files[n]
<1>1. \/ files' = files
      \/ \E g \in JsonFiles : ~opened[g] /\ files' = [files EXCEPT ![Whole(g)] = << >>]
  BY StartThrowsFrame
<1>2. /\ files \in [Names -> FileType]
      /\ \A f \in JsonFiles : Whole(f)[1] = f /\ Whole(f) \in Names /\ f \notin Tables
  BY MainFacts, FileNames
<1> QED
  BY <1>1, <1>2

LEMMA StartThrowsKeepsShapes ==
  ASSUME Types, Shapes, NEW p \in Actors, StartThrows(p)
  PROVE  Shapes'
<1>1. /\ out' = [out EXCEPT ![p] = << >>]
      /\ pc' = [pc EXCEPT ![p] = IF p = Main THEN "wait" ELSE "done"]
      /\ p = Main => left' = JsonFiles
      /\ p # Main => left' = left
      /\ UNCHANGED <<opened, queue, at, hand>> /\ out[p] # << >>
  BY StartThrowsFrame
<1>2. /\ out \in [Actors -> Seq(EntryType)] /\ pc \in [Actors -> PcValues] /\ Main \in Actors
      /\ Main \notin Assemblers /\ Sinks \subseteq Actors /\ Tables \subseteq Actors
      /\ Main \notin Sinks /\ Main \notin Tables
  BY MainFacts, StreamKinds
<1>3. \A s \in Streams : Pending(s)' = Pending(s)
  BY <1>1, StillPending
<1>4. \A s \in Streams : OpsShape(s)'
  BY <1>3 DEF Shapes, OpsShape
<1>5. ASSUME NEW f \in JsonFiles PROVE Unopened(f)'
  <2>1. f \in Streams
    BY FileNames
  <2> QED
    BY <1>1, <1>3, <2>1, StartThrowsFiles DEF Shapes, Unopened
<1>6. \A q \in Actors : out'[q] = out[q] \/ out'[q] = << >>
  BY <1>1, <1>2
<1>a. Len(<< >>) = 0 /\ 1..0 = {}
  OBVIOUS
<1>7. /\ \A b \in Sinks : SinkOut(b)'
      /\ \A u \in Tables : TableOut(u)'
  <2>1. ASSUME NEW b \in Sinks PROVE SinkOut(b)'
    BY <1>2, <1>6, <1>a DEF Shapes, SinkOut
  <2>2. ASSUME NEW u \in Tables PROVE TableOut(u)'
    BY <1>2, <1>6, <1>a DEF Shapes, TableOut
  <2> QED
    BY <2>1, <2>2
<1>8. MainOut'
  <2>1. CASE p = Main
    BY <1>1, <1>2, <2>1 DEF MainOut
  <2>2. CASE p # Main
    <3>1. out'[Main] = out[Main] /\ pc'[Main] = pc[Main]
      BY <1>1, <1>2, <2>2
    <3> QED
      BY <1>1, <3>1 DEF Shapes, MainOut, Close
  <2> QED
    BY <2>1, <2>2
<1>9. Resting'
  <2>1. ASSUME NEW q \in Assemblers, pc'[q] = "done" PROVE out'[q] = << >>
    <3>1. q \in Actors
      BY DEF Actors
    <3>2. CASE q = p
      BY <1>1, <1>2, <3>1, <3>2
    <3>3. CASE q # p
      BY <1>1, <1>2, <2>1, <3>1, <3>3 DEF Shapes, Resting
    <3> QED
      BY <3>2, <3>3
  <2>2. ASSUME NEW u \in Tables, pc'[u] = "assemble" PROVE out'[u] = << >>
    BY <1>1, <1>2, <2>2 DEF Shapes, Resting
  <2>3. ASSUME pc'[Main] # "wait" \/ left' # JsonFiles, NEW q \in Assemblers PROVE pc'[q] = "done"
    <3>1. p # Main
      BY <1>1, <1>2, <2>3
    <3>2. pc'[Main] = pc[Main] /\ left' = left
      BY <1>1, <1>2, <3>1
    <3>3. pc[q] = "done" /\ q \in Actors
      BY <2>3, <3>2 DEF Shapes, Resting, Actors
    <3> QED
      BY <1>1, <1>2, <3>1, <3>3
  <2> QED
    BY <2>1, <2>2, <2>3 DEF Resting
<1> QED
  BY <1>4, <1>5, <1>7, <1>8, <1>9 DEF Shapes

\* What the operations are, and who has some to queue, holds throughout.
LEMMA NextKeepsShapes ==
  ASSUME Types, Types', IInv, IInv', Shapes, [Next]_vars
  PROVE  Shapes'
<1>1. CASE UNCHANGED <<actorVars, streamVars, tasks, at, hand, files, ok>>
  <2>1. UNCHANGED <<queue, at, hand, opened, files, out, pc, left>>
    BY <1>1 DEF actorVars, streamVars
  <2>2. (\A s \in Streams : OpsShape(s)') /\ \A f \in JsonFiles : Unopened(f)'
    BY <2>1, StreamsStand
  <2> QED
    BY <2>1, <2>2 DEF Shapes, SinkOut, TableOut, MainOut, Resting
<1> QED
  BY <1>1, StepKinds, EnqueueKeepsShapes, StartThrowsKeepsShapes, DrainKeepsShapes,
     SinkKeepsShapes, TableKeepsShapes, FinisherKeepsShapes

-----------------------------------------------------------------------------
(***************************************************************************)
(* Where the events of a sink are: in the file, in an operation of the     *)
(* stream still to be carried out, or with the sink, still to be queued.   *)
(***************************************************************************)
Tells(a, op, n) == \E sep \in Separators : op.data = EventData(sep, a, n)
TellsIn(a, q) == {n \in Nat : \E k \in 1..Len(q) : Tells(a, q[k], n)}
OrderIn(a, q) ==
  \A i, j \in 1..Len(q) : \A m, n \in Nat :
    i < j /\ Tells(a, q[i], m) /\ Tells(a, q[j], n) => m < n
NumbersFor(f, q) == {NumberOf(q[k]) : k \in {i \in 1..Len(q) : q[i].stream = f}}
OrderFor(f, q) ==
  \A i, j \in 1..Len(q) :
    i < j /\ q[i].stream = f /\ q[j].stream = f => NumberOf(q[i]) < NumberOf(q[j])

Below(S, T) == \A m \in S : \A n \in T : m < n
InFile(a, f) == Of(a, files[Whole(f)])
InQueue(a, f) == TellsIn(a, Pending(f))
InOut(a, f) == NumbersFor(f, out[a])

\* The events of a for f are in their order, wherever they are.
InLine(F, Q, R, n) == Below(F, Q) /\ Below(F \cup Q, R) /\ F \cup Q \cup R \subseteq 1..n
Ordered(a, f) ==
  /\ Ascending(a, files[Whole(f)]) /\ OrderIn(a, Pending(f)) /\ OrderFor(f, out[a])
  /\ InLine(InFile(a, f), InQueue(a, f), InOut(a, f), made[a])

\* A sink that has published nothing: all there is of it is in its spill file.
Unpublished(a) == ~disabled[a] /\ (pc[a] = "assemble" \/ verdict[a] = "discarded")
Accounted(a, f) ==
  /\ Unpublished(a) => InFile(a, f) = {} /\ InQueue(a, f) = {} /\ InOut(a, f) = {}
  /\ ok /\ pc[a] # "done" /\ ~Unpublished(a) /\ f \in Range(Targets[a]) =>
       1..made[a] \subseteq InFile(a, f) \cup InQueue(a, f) \cup InOut(a, f)

\* What a sink has waited for stays written.
Awaited(a) ==
  /\ synced[a] > 0 => pc[a] \in {"sync", "done"} /\ out[a] = << >>
  /\ synced[a] <= Len(Targets[a])
  /\ \A k \in 1..Len(Targets[a]) : k <= synced[a] => InQueue(a, Targets[a][k]) = {}
  /\ pc[a] # "done" => verdict[a] = "none"
  /\ verdict[a] = "ok" =>
       \A f \in Range(Targets[a]) : InQueue(a, f) = {} /\ InFile(a, f) = 1..made[a]

Stories ==
  /\ \A a \in Sinks : \A f \in JsonFiles : Ordered(a, f) /\ Accounted(a, f)
  /\ \A a \in Sinks : Awaited(a)

\* Positions of the same events elsewhere: q is a rest of p.
RestOf(p, q) == \E d \in Nat : \A k \in 1..Len(q) : k + d \in 1..Len(p) /\ q[k] = p[k + d]

LEMMA TellsOne ==
  ASSUME NEW a, NEW b, NEW m, NEW n, NEW op, Tells(a, op, m), Tells(b, op, n)
  PROVE  a = b /\ m = n
BY DEF Tells, EventData

LEMMA ClosingTellsNothing ==
  ASSUME NEW op, op.data = ClosingData, NEW a, NEW n
  PROVE  ~Tells(a, op, n)
<1> SUFFICES ASSUME NEW sep \in Separators, ClosingData = EventData(sep, a, n) PROVE FALSE
  BY DEF Tells
<1>1. Len(ClosingData) = 1 /\ Len(EventData(sep, a, n)) = 2
  BY DEF ClosingData, EventData
<1> QED
  BY <1>1

LEMMA RestTells ==
  ASSUME NEW p, NEW q, RestOf(p, q), Len(p) \in Nat, Len(q) \in Nat, NEW a
  PROVE  TellsIn(a, q) \subseteq TellsIn(a, p) /\ (OrderIn(a, p) => OrderIn(a, q))
<1>1. PICK d \in Nat : \A k \in 1..Len(q) : k + d \in 1..Len(p) /\ q[k] = p[k + d]
  BY DEF RestOf
<1>2. TellsIn(a, q) \subseteq TellsIn(a, p)
  BY <1>1 DEF TellsIn
<1>3. ASSUME OrderIn(a, p), NEW i \in 1..Len(q), NEW j \in 1..Len(q), NEW m \in Nat, NEW n \in Nat,
             i < j, Tells(a, q[i], m), Tells(a, q[j], n)
      PROVE  m < n
  <2>1. i + d \in 1..Len(p) /\ j + d \in 1..Len(p) /\ i + d < j + d
    BY <1>1, <1>3
  <2>2. Tells(a, p[i + d], m) /\ Tells(a, p[j + d], n)
    BY <1>1, <1>3
  <2> QED
    BY <1>3, <2>1, <2>2 DEF OrderIn
<1> QED
  BY <1>2, <1>3 DEF OrderIn

LEMMA AppendTells ==
  ASSUME NEW q \in Seq(OpType), NEW op \in OpType, NEW a
  PROVE  /\ TellsIn(a, Append(q, op)) = TellsIn(a, q) \cup {n \in Nat : Tells(a, op, n)}
         /\ OrderIn(a, q) /\ Below(TellsIn(a, q), {n \in Nat : Tells(a, op, n)})
              => OrderIn(a, Append(q, op))
<1> DEFINE r == Append(q, op)
<1>1. /\ Len(r) = Len(q) + 1 /\ Len(q) \in Nat /\ r[Len(q) + 1] = op
      /\ \A i \in 1..Len(q) : r[i] = q[i]
  BY AppendProperties, LenProperties
<1> HIDE DEF r
<1>2. \A k \in 1..Len(r) : k \in 1..Len(q) \/ k = Len(q) + 1
  BY <1>1
<1>3. TellsIn(a, r) = TellsIn(a, q) \cup {n \in Nat : Tells(a, op, n)}
  <2>1. ASSUME NEW n \in TellsIn(a, r) PROVE n \in TellsIn(a, q) \/ Tells(a, op, n)
    BY <1>1, <1>2 DEF TellsIn
  <2>2. ASSUME NEW n \in TellsIn(a, q) PROVE n \in TellsIn(a, r)
    <3>1. PICK k \in 1..Len(q) : Tells(a, q[k], n)
      BY DEF TellsIn
    <3>2. k \in 1..Len(r) /\ r[k] = q[k] /\ n \in Nat
      BY <1>1 DEF TellsIn
    <3> QED
      BY <3>1, <3>2 DEF TellsIn
  <2>3. ASSUME NEW n \in Nat, Tells(a, op, n) PROVE n \in TellsIn(a, r)
    <3>1. Len(q) + 1 \in 1..Len(r)
      BY <1>1
    <3> QED
      BY <1>1, <2>3, <3>1 DEF TellsIn
  <2>4. TellsIn(a, r) \subseteq Nat
    BY DEF TellsIn
  <2> QED
    BY <2>1, <2>2, <2>3, <2>4
<1>4. ASSUME OrderIn(a, q), Below(TellsIn(a, q), {n \in Nat : Tells(a, op, n)}),
             NEW i \in 1..Len(r), NEW j \in 1..Len(r), NEW m \in Nat, NEW n \in Nat,
             i < j, Tells(a, r[i], m), Tells(a, r[j], n)
      PROVE  m < n
  <2>1. i \in 1..Len(q) /\ r[i] = q[i]
    BY <1>1, <1>2, <1>4
  <2>2. CASE j \in 1..Len(q)
    BY <1>1, <1>4, <2>1, <2>2 DEF OrderIn
  <2>3. CASE j = Len(q) + 1
    <3>1. m \in TellsIn(a, q) /\ Tells(a, op, n)
      BY <1>1, <1>4, <2>1, <2>3 DEF TellsIn
    <3> QED
      BY <1>4, <3>1 DEF Below
  <2> QED
    BY <1>2, <2>2, <2>3
<1>5. OrderIn(a, q) /\ Below(TellsIn(a, q), {n \in Nat : Tells(a, op, n)}) => OrderIn(a, r)
  BY <1>4 DEF OrderIn
<1> QED
  BY <1>3, <1>5 DEF r

\* The first operation leaves the queue: what it tells is below what the others tell.
LEMMA FirstTells ==
  ASSUME NEW op \in OpType, NEW q \in Seq(OpType), NEW a
  PROVE  /\ TellsIn(a, <<op>> \o q) = {n \in Nat : Tells(a, op, n)} \cup TellsIn(a, q)
         /\ OrderIn(a, <<op>> \o q)
              => OrderIn(a, q) /\ Below({n \in Nat : Tells(a, op, n)}, TellsIn(a, q))
<1> DEFINE p == <<op>> \o q
<1>1. /\ Len(p) = Len(q) + 1 /\ Len(q) \in Nat /\ p[1] = op
      /\ \A k \in 1..Len(q) : p[k + 1] = q[k]
  BY InFront, LenProperties
<1> HIDE DEF p
<1>2. \A k \in 1..Len(p) : k = 1 \/ (k - 1 \in 1..Len(q) /\ p[k] = q[k - 1])
  <2> TAKE k \in 1..Len(p)
  <2> SUFFICES ASSUME k # 1 PROVE k - 1 \in 1..Len(q) /\ p[k] = q[k - 1]
    OBVIOUS
  <2>1. k - 1 \in 1..Len(q) /\ (k - 1) + 1 = k
    BY <1>1
  <2>2. p[(k - 1) + 1] = q[k - 1]
    BY <1>1, <2>1
  <2> QED
    BY <2>1, <2>2
<1>3. RestOf(p, q)
  <2>1. \A k \in 1..Len(q) : k + 1 \in 1..Len(p) /\ q[k] = p[k + 1]
    BY <1>1
  <2> QED
    BY <2>1 DEF RestOf
<1>4. TellsIn(a, q) \subseteq TellsIn(a, p) /\ (OrderIn(a, p) => OrderIn(a, q))
  <2>1. Len(p) \in Nat
    BY <1>1
  <2> QED
    BY <1>1, <1>3, <2>1, RestTells
<1>5. 1 \in 1..Len(p)
  BY <1>1
<1>6. TellsIn(a, p) = {n \in Nat : Tells(a, op, n)} \cup TellsIn(a, q)
  <2>1. ASSUME NEW n \in TellsIn(a, p) PROVE Tells(a, op, n) \/ n \in TellsIn(a, q)
    BY <1>1, <1>2 DEF TellsIn
  <2>2. ASSUME NEW n \in Nat, Tells(a, op, n) PROVE n \in TellsIn(a, p)
    BY <1>1, <1>5, <2>2 DEF TellsIn
  <2>3. TellsIn(a, p) \subseteq Nat
    BY DEF TellsIn
  <2> QED
    BY <1>4, <2>1, <2>2, <2>3
<1>7. ASSUME OrderIn(a, p), NEW m \in Nat, Tells(a, op, m), NEW n \in TellsIn(a, q) PROVE m < n
  <2>1. PICK k \in 1..Len(q) : Tells(a, q[k], n)
    BY DEF TellsIn
  <2>2. k + 1 \in 1..Len(p) /\ 1 < k + 1 /\ Tells(a, p[k + 1], n) /\ n \in Nat
    BY <1>1, <2>1 DEF TellsIn
  <2> QED
    BY <1>1, <1>5, <1>7, <2>2 DEF OrderIn
<1> QED
  BY <1>4, <1>6, <1>7 DEF Below, p

\* The same of a file an operation is written to.
LEMMA FileTells ==
  ASSUME NEW x \in FileType, NEW f, NEW op, JsonOp(f, op), NEW a \in Sinks
  PROVE  /\ Of(a, x \o op.data) = Of(a, x) \cup {n \in Nat : Tells(a, op, n)}
         /\ Ascending(a, x) /\ Below(Of(a, x), {n \in Nat : Tells(a, op, n)})
              => Ascending(a, x \o op.data)
<1> DEFINE y == op.data
           N == {n \in Nat : Tells(a, op, n)}
<1>1. /\ y \in FileType /\ Len(y) \in Nat /\ DOMAIN y = 1..Len(y)
      /\ \A i, j \in 1..Len(y) : y[i][1] = a /\ y[j][1] = a => i = j
      /\ \A i \in 1..Len(y) : y[i][1] = a => y[i][2] \in N
      /\ \A n \in N : \E i \in 1..Len(y) : y[i][1] = a /\ y[i][2] = n
  <2>0. a \notin Marks /\ a \in Assemblers
    BY NamesApart DEF Assemblers
  <2>1. CASE y = ClosingData
    <3>1. y \in FileType /\ Len(y) = 1 /\ DOMAIN y = 1..1 /\ y[1][1] = "]"
      <4>1. << <<"]", 0>> >> \in FileType
        BY MarkTokens
      <4>2. y = << <<"]", 0>> >>
        BY <2>1 DEF ClosingData
      <4> HIDE DEF y
      <4> QED
        BY <4>1, <4>2
    <3>2. N = {}
      BY <2>1, ClosingTellsNothing
    <3> HIDE DEF y, N
    <3>3. y[1][1] # a
      BY <2>0, <3>1 DEF Marks
    <3> QED
      BY <3>1, <3>2, <3>3
  <2>2. CASE \E sep \in Separators : \E b \in Sinks : \E n \in Nat : y = EventData(sep, b, n)
    <3>1. PICK sep \in Separators, b \in Sinks, n \in Nat : y = EventData(sep, b, n)
      BY <2>2
    <3>2. <<sep, 0>> \in Tokens \X Nat /\ <<b, n>> \in Tokens \X Nat
      BY MarkTokens DEF Separators, Marks, Assemblers
    <3>3. /\ y \in FileType /\ Len(y) = 2 /\ DOMAIN y = 1..2 /\ y[1] = <<sep, 0>> /\ y[2] = <<b, n>>
      BY <3>1, <3>2 DEF EventData, FileType
    <3>4. Tells(b, op, n)
      BY <3>1 DEF Tells
    <3>5. \A m \in N : a = b /\ m = n
      BY <3>4, TellsOne
    <3>6. a = b => n \in N
      BY <3>4
    <3> HIDE DEF y, N
    <3>7. y[1][1] # a /\ y[2][1] = b /\ y[2][2] = n
      <4>1. sep # a
        BY <2>0 DEF Separators, Marks
      <4> QED
        BY <3>3, <4>1
    <3>8. \A i \in 1..Len(y) : i = 1 \/ i = 2
      BY <3>3
    <3>9. 2 \in 1..Len(y) /\ Len(y) \in Nat
      BY <3>3
    <3> QED
      BY <3>3, <3>5, <3>6, <3>7, <3>8, <3>9
  <2> QED
    BY <2>1, <2>2 DEF JsonOp
<1> DEFINE z == x \o y
<1>2. Len(x) \in Nat /\ DOMAIN x = 1..Len(x)
  BY LenProperties DEF FileType
<1>3. /\ z \in FileType /\ Len(z) = Len(x) + Len(y)
      /\ \A i \in 1..Len(x) : z[i] = x[i]
      /\ \A i \in 1..Len(y) : z[Len(x) + i] = y[i]
  BY <1>1, ConcatAt DEF FileType
<1>4. DOMAIN z = 1..Len(z)
  BY <1>3, LenProperties DEF FileType
<1> HIDE DEF y, z, N
<1>5. \A k \in 1..Len(z) :
        \/ k \in 1..Len(x) /\ z[k] = x[k]
        \/ k - Len(x) \in 1..Len(y) /\ z[k] = y[k - Len(x)]
  <2> TAKE k \in 1..Len(z)
  <2>0. Len(z) = Len(x) + Len(y) /\ Len(x) \in Nat /\ Len(y) \in Nat
    BY <1>1, <1>2, <1>3
  <2>1. CASE k <= Len(x)
    <3>1. k \in 1..Len(x)
      BY <2>0, <2>1
    <3> QED
      BY <1>3, <3>1
  <2>2. CASE ~(k <= Len(x))
    <3>1. k - Len(x) \in 1..Len(y) /\ Len(x) + (k - Len(x)) = k
      BY <2>0, <2>2
    <3>2. z[Len(x) + (k - Len(x))] = y[k - Len(x)]
      BY <1>3, <3>1
    <3> QED
      BY <3>1, <3>2
  <2> QED
    BY <2>1, <2>2
<1>6. Of(a, z) = Of(a, x) \cup N
  <2>1. ASSUME NEW n \in Of(a, z) PROVE n \in Of(a, x) \cup N
    <3>1. PICK k \in 1..Len(z) : z[k][1] = a /\ z[k][2] = n
      BY <1>4 DEF Of
    <3>2. CASE k \in 1..Len(x) /\ z[k] = x[k]
      BY <1>2, <3>1, <3>2 DEF Of
    <3>3. CASE k - Len(x) \in 1..Len(y) /\ z[k] = y[k - Len(x)]
      BY <1>1, <3>1, <3>3
    <3> QED
      BY <1>5, <3>2, <3>3
  <2>2. ASSUME NEW n \in Of(a, x) PROVE n \in Of(a, z)
    <3>1. PICK k \in 1..Len(x) : x[k][1] = a /\ x[k][2] = n
      BY <1>2 DEF Of
    <3>2. k \in 1..Len(z) /\ z[k] = x[k]
      BY <1>1, <1>2, <1>3
    <3> QED
      BY <1>4, <3>1, <3>2 DEF Of
  <2>3. ASSUME NEW n \in N PROVE n \in Of(a, z)
    <3>1. PICK k \in 1..Len(y) : y[k][1] = a /\ y[k][2] = n
      BY <1>1
    <3>2. Len(x) + k \in 1..Len(z) /\ z[Len(x) + k] = y[k]
      BY <1>1, <1>2, <1>3
    <3> QED
      BY <1>4, <3>1, <3>2 DEF Of
  <2> QED
    BY <2>1, <2>2, <2>3
<1>7. ASSUME Ascending(a, x), Below(Of(a, x), N), NEW i \in 1..Len(z), NEW j \in 1..Len(z),
             i < j, z[i][1] = a, z[j][1] = a
      PROVE  z[i][2] < z[j][2]
  <2>1. CASE /\ i \in 1..Len(x) /\ z[i] = x[i]
             /\ j \in 1..Len(x) /\ z[j] = x[j]
    BY <1>2, <1>7, <2>1 DEF Ascending
  <2>2. CASE /\ i \in 1..Len(x) /\ z[i] = x[i]
             /\ j - Len(x) \in 1..Len(y) /\ z[j] = y[j - Len(x)]
    <3>1. x[i][2] \in Of(a, x)
      BY <1>2, <1>7, <2>2 DEF Of
    <3>2. y[j - Len(x)][2] \in N
      BY <1>1, <1>7, <2>2
    <3> QED
      BY <1>7, <2>2, <3>1, <3>2 DEF Below
  <2>3. CASE i - Len(x) \in 1..Len(y) /\ z[i] = y[i - Len(x)]
    <3>1. j - Len(x) \in 1..Len(y) /\ z[j] = y[j - Len(x)]
      BY <1>2, <1>5, <1>7, <2>3
    <3>2. i - Len(x) = j - Len(x)
      BY <1>1, <1>7, <2>3, <3>1
    <3> QED
      BY <1>2, <1>7, <3>2
  <2> QED
    BY <1>5, <2>1, <2>2, <2>3
<1>8. Ascending(a, x) /\ Below(Of(a, x), N) => Ascending(a, z)
  BY <1>4, <1>7 DEF Ascending
<1> QED
  BY <1>6, <1>8 DEF y, z, N

\* An event moves from the sink to the queue, from the queue to the file, or is lost.
LEMMA LineQueued ==
  ASSUME NEW F, NEW Q, NEW R, NEW R2, NEW m, NEW n, InLine(F, Q, R, m),
         R = {n} \cup R2, Below({n}, R2)
  PROVE  /\ InLine(F, Q \cup {n}, R2, m) /\ Below(Q, {n})
         /\ F \cup Q \cup R = F \cup (Q \cup {n}) \cup R2
BY DEF InLine, Below

LEMMA LineWritten ==
  ASSUME NEW F, NEW Q, NEW R, NEW N, NEW Q2, NEW m, InLine(F, Q, R, m),
         Q = N \cup Q2, Below(N, Q2)
  PROVE  /\ InLine(F \cup N, Q2, R, m) /\ Below(F, N)
         /\ F \cup Q \cup R = (F \cup N) \cup Q2 \cup R
BY DEF InLine, Below

LEMMA LineLost ==
  ASSUME NEW F, NEW Q, NEW R, NEW Q2 \in SUBSET Q, NEW R2 \in SUBSET R, NEW m, InLine(F, Q, R, m)
  PROVE  InLine(F, Q2, R2, m)
BY DEF InLine, Below

LEMMA LinePublished ==
  ASSUME NEW F, NEW Q, NEW R, NEW m \in Nat, NEW hi \in Nat, m <= hi, InLine(F, Q, {}, m),
         \/ F = {} /\ Q = {} /\ R \subseteq 1..hi
         \/ R \subseteq (m + 1)..hi
  PROVE  InLine(F, Q, R, hi)
<1>1. Below(F, Q) /\ F \cup Q \subseteq 1..m
  BY DEF InLine
<1>2. Below(F \cup Q, R)
  <2> SUFFICES ASSUME NEW i \in F \cup Q, NEW j \in R PROVE i < j
    BY DEF Below
  <2>1. i \in 1..m /\ j \in (m + 1)..hi
    BY <1>1
  <2> QED
    BY <2>1
<1>3. F \cup Q \cup R \subseteq 1..hi
  <2>1. F \cup Q \subseteq 1..hi
    BY <1>1
  <2>2. R \subseteq 1..hi
    OBVIOUS
  <2> QED
    BY <2>1, <2>2
<1> QED
  BY <1>1, <1>2, <1>3 DEF InLine

-----------------------------------------------------------------------------
\* What a sink has still to queue, as it queues the first entry or loses some.
LEMMA TailNumbers ==
  ASSUME NEW q \in Seq(EntryType), q # << >>, NEW f
  PROVE  /\ Head(q).stream = f =>
              /\ NumbersFor(f, q) = {NumberOf(Head(q))} \cup NumbersFor(f, Tail(q))
              /\ OrderFor(f, q) => Below({NumberOf(Head(q))}, NumbersFor(f, Tail(q)))
         /\ Head(q).stream # f => NumbersFor(f, Tail(q)) = NumbersFor(f, q)
         /\ OrderFor(f, q) => OrderFor(f, Tail(q))
<1> DEFINE r == Tail(q)
           h == Head(q)
<1>1. /\ Len(r) = Len(q) - 1 /\ Len(q) \in Nat /\ Len(q) # 0 /\ h = q[1]
      /\ \A i \in 1..Len(r) : r[i] = q[i + 1]
  BY HeadTailProperties, LenProperties, EmptySeq
<1> HIDE DEF r, h
<1>2. \A k \in 1..Len(q) : k = 1 \/ (k - 1 \in 1..Len(r) /\ q[k] = r[k - 1])
  <2> TAKE k \in 1..Len(q)
  <2> SUFFICES ASSUME k # 1 PROVE k - 1 \in 1..Len(r) /\ q[k] = r[k - 1]
    OBVIOUS
  <2>1. k - 1 \in 1..Len(r) /\ (k - 1) + 1 = k
    BY <1>1
  <2>2. r[k - 1] = q[(k - 1) + 1]
    BY <1>1, <2>1
  <2> QED
    BY <2>1, <2>2
<1>3. \A k \in 1..Len(r) : k + 1 \in 1..Len(q) /\ q[k + 1] = r[k] /\ 1 < k + 1
  BY <1>1
<1>4. 1 \in 1..Len(q)
  BY <1>1
<1>5. NumbersFor(f, r) \subseteq NumbersFor(f, q)
  BY <1>3 DEF NumbersFor
<1>6. \A n \in NumbersFor(f, q) : (h.stream = f /\ n = NumberOf(h)) \/ n \in NumbersFor(f, r)
  <2> TAKE n \in NumbersFor(f, q)
  <2>1. PICK k \in 1..Len(q) : q[k].stream = f /\ NumberOf(q[k]) = n
    BY DEF NumbersFor
  <2>2. CASE k = 1
    BY <1>1, <2>1, <2>2
  <2>3. CASE k - 1 \in 1..Len(r) /\ q[k] = r[k - 1]
    BY <2>1, <2>3 DEF NumbersFor
  <2> QED
    BY <1>2, <2>2, <2>3
<1>7. h.stream = f => NumberOf(h) \in NumbersFor(f, q)
  BY <1>1, <1>4 DEF NumbersFor
<1>8. ASSUME OrderFor(f, q), h.stream = f, NEW n \in NumbersFor(f, r) PROVE NumberOf(h) < n
  <2>1. PICK k \in 1..Len(r) : r[k].stream = f /\ NumberOf(r[k]) = n
    BY DEF NumbersFor
  <2>2. k + 1 \in 1..Len(q) /\ q[k + 1] = r[k] /\ 1 < k + 1
    BY <1>3
  <2> QED
    BY <1>1, <1>4, <1>8, <2>1, <2>2 DEF OrderFor
<1>9. ASSUME OrderFor(f, q), NEW i \in 1..Len(r), NEW j \in 1..Len(r), i < j,
             r[i].stream = f, r[j].stream = f
      PROVE  NumberOf(r[i]) < NumberOf(r[j])
  <2>1. /\ i + 1 \in 1..Len(q) /\ q[i + 1] = r[i] /\ j + 1 \in 1..Len(q) /\ q[j + 1] = r[j]
        /\ i + 1 < j + 1
    BY <1>3, <1>9
  <2> QED
    BY <1>9, <2>1 DEF OrderFor
<1>10. OrderFor(f, q) => OrderFor(f, r)
  BY <1>9 DEF OrderFor
<1>11. h.stream = f => /\ NumbersFor(f, q) = {NumberOf(h)} \cup NumbersFor(f, r)
                       /\ OrderFor(f, q) => Below({NumberOf(h)}, NumbersFor(f, r))
  BY <1>5, <1>6, <1>7, <1>8 DEF Below
<1>12. h.stream # f => NumbersFor(f, r) = NumbersFor(f, q)
  BY <1>5, <1>6
<1> QED
  BY <1>10, <1>11, <1>12 DEF r, h

LEMMA LostNumbers ==
  ASSUME NEW q \in Seq(EntryType), NEW n \in 1..Len(q), NEW f
  PROVE  /\ NumbersFor(f, SubSeq(q, n + 1, Len(q))) \subseteq NumbersFor(f, q)
         /\ OrderFor(f, q) => OrderFor(f, SubSeq(q, n + 1, Len(q)))
<1> DEFINE r == SubSeq(q, n + 1, Len(q))
<1>1. Len(r) = Len(q) - n /\ Len(q) \in Nat /\ \A k \in 1..(Len(q) - n) : r[k] = q[n + k]
  BY WithoutFirst, LenProperties
<1> HIDE DEF r
<1>2. \A k \in 1..Len(r) : n + k \in 1..Len(q) /\ r[k] = q[n + k]
  BY <1>1
<1>3. NumbersFor(f, r) \subseteq NumbersFor(f, q)
  BY <1>2 DEF NumbersFor
<1>4. ASSUME OrderFor(f, q), NEW i \in 1..Len(r), NEW j \in 1..Len(r), i < j,
             r[i].stream = f, r[j].stream = f
      PROVE  NumberOf(r[i]) < NumberOf(r[j])
  <2>1. /\ n + i \in 1..Len(q) /\ r[i] = q[n + i] /\ n + j \in 1..Len(q) /\ r[j] = q[n + j]
        /\ n + i < n + j
    BY <1>1, <1>2, <1>4
  <2> QED
    BY <1>4, <2>1 DEF OrderFor
<1>5. OrderFor(f, q) => OrderFor(f, r)
  BY <1>4 DEF OrderFor
<1> QED
  BY <1>3, <1>5 DEF r

LEMMA PublicationNumbers ==
  ASSUME NEW a, NEW q, NEW lo, NEW hi, Publication(a, q, lo, hi), NEW f
  PROVE  /\ OrderFor(f, q) /\ NumbersFor(f, q) \subseteq lo..hi
         /\ f \in Range(Targets[a]) => lo..hi \subseteq NumbersFor(f, q)
<1>1. OrderFor(f, q)
  BY DEF Publication, OrderFor
<1>2. NumbersFor(f, q) \subseteq lo..hi
  BY DEF Publication, NumbersFor
<1>3. f \in Range(Targets[a]) => lo..hi \subseteq NumbersFor(f, q)
  <2> SUFFICES ASSUME f \in Range(Targets[a]), NEW n \in lo..hi PROVE n \in NumbersFor(f, q)
    OBVIOUS
  <2>1. PICK k \in 1..Len(q) : q[k].stream = f /\ NumberOf(q[k]) = n
    BY DEF Publication
  <2> QED
    BY <2>1 DEF NumbersFor
<1> QED
  BY <1>1, <1>2, <1>3

LEMMA NothingFor == \A f : NumbersFor(f, << >>) = {} /\ OrderFor(f, << >>)
BY DEF NumbersFor, OrderFor

LEMMA NothingTold == \A a : TellsIn(a, << >>) = {} /\ OrderIn(a, << >>)
BY DEF TellsIn, OrderIn

LEMMA NothingIn ==
  \A a \in Sinks : /\ Of(a, Stale) = {} /\ Ascending(a, Stale)
                   /\ Of(a, << >>) = {} /\ Ascending(a, << >>)
<1> TAKE a \in Sinks
<1>1. a # "stale"
  BY NamesApart DEF Marks, Assemblers
<1>2. DOMAIN Stale = {1} /\ Stale[1][1] = "stale"
  BY DEF Stale
<1> HIDE DEF Stale
<1> QED
  BY <1>1, <1>2 DEF Of, Ascending

LEMMA SinkFacts ==
  ASSUME Types, NEW a \in Sinks
  PROVE  /\ made \in [Sinks -> 0..Batches] /\ made[a] \in Nat /\ Batches \in Nat
         /\ out \in [Actors -> Seq(EntryType)] /\ out[a] \in Seq(EntryType)
         /\ disabled \in [Sinks -> BOOLEAN] /\ synced \in [Sinks -> Nat]
         /\ pc \in [Actors -> PcValues] /\ files \in [Names -> FileType]
         /\ verdict \in [Actors -> {"none", "ok", "failed", "discarded"}] /\ ok \in BOOLEAN
         /\ a \in Actors /\ a # Main /\ a \notin Tables
         /\ Targets[a] \in Seq(JsonFiles) /\ Len(Targets[a]) \in Nat
         /\ Range(Targets[a]) = {Targets[a][k] : k \in 1..Len(Targets[a])}
         /\ \A k \in 1..Len(Targets[a]) : Targets[a][k] \in JsonFiles
         /\ \A f \in Range(Targets[a]) : f \in JsonFiles
<1>1. /\ made \in [Sinks -> 0..Batches] /\ Batches \in Nat /\ made[a] \in Nat
      /\ disabled \in [Sinks -> BOOLEAN] /\ synced \in [Sinks -> Nat]
  BY ConstantsAssumption DEF Types, SinkTypes
<1>2. a \in Actors /\ a # Main /\ a \notin Tables
  BY NamesApart DEF Actors, Assemblers
<1>3. /\ Targets[a] \in Seq(JsonFiles) /\ Len(Targets[a]) \in Nat
      /\ DOMAIN Targets[a] = 1..Len(Targets[a])
      /\ \A k \in 1..Len(Targets[a]) : Targets[a][k] \in JsonFiles
  BY ConstantsAssumption, LenProperties, ElementOfSeq
<1>4. Range(Targets[a]) = {Targets[a][k] : k \in 1..Len(Targets[a])}
  BY <1>3 DEF Range
<1> QED
  BY <1>1, <1>2, <1>3, <1>4 DEF Types, OutTypes, ActorTypes, FileTypes

LEMMA InitStories == Init => Stories
<1> SUFFICES ASSUME Init PROVE Stories
  OBVIOUS
<1>0. Types /\ IInv
  BY InitTypes, InitIInv
<1>1. \A s \in Streams : Pending(s) = << >>
  <2> TAKE s \in Streams
  <2>1. Drained(s)
    BY DEF Init, Drained
  <2> QED
    BY <1>0, <2>1, DrainedPending
<1>2. \A p \in Actors : out[p] = << >> /\ verdict[p] = "none"
  BY DEF Init
<1>3. \A a \in Sinks : made[a] = 0 /\ synced[a] = 0
  BY DEF Init
<1>4. \A f \in JsonFiles : files[Whole(f)] = Stale /\ f \in Streams
  BY FileNames DEF Init
<1>5. ASSUME NEW a \in Sinks, NEW f \in JsonFiles PROVE Ordered(a, f) /\ Accounted(a, f)
  <2>1. InFile(a, f) = {} /\ InQueue(a, f) = {} /\ InOut(a, f) = {}
    BY <1>1, <1>2, <1>4, NothingIn, NothingTold, NothingFor, StreamKinds DEF InFile, InQueue, InOut
  <2>2. /\ Ascending(a, files[Whole(f)]) /\ OrderIn(a, Pending(f)) /\ OrderFor(f, out[a])
    BY <1>1, <1>2, <1>4, NothingIn, NothingTold, NothingFor, StreamKinds
  <2>3. 1..made[a] = {}
    BY <1>3
  <2> QED
    BY <2>1, <2>2, <2>3 DEF Ordered, Accounted, InLine, Below
<1>6. ASSUME NEW a \in Sinks PROVE Awaited(a)
  <2>1. verdict[a] = "none" /\ synced[a] = 0
    BY <1>2, <1>3, StreamKinds
  <2>2. Len(Targets[a]) \in Nat
    BY <1>0, SinkFacts
  <2> QED
    BY <2>1, <2>2 DEF Awaited
<1> QED
  BY <1>5, <1>6 DEF Stories

\* Enqueue moves an event of its caller, and none of anybody else.
LEMMA EnqueueSets ==
  ASSUME Types, Types', IInv, IInv', Shapes, NEW p \in Actors, Enqueue(p),
         NEW a \in Sinks, NEW f \in JsonFiles, Ordered(a, f)
  PROVE  /\ InFile(a, f)' = InFile(a, f) /\ Ascending(a, files[Whole(f)])'
         /\ OrderFor(f, out[a])'
         /\ \/ /\ InQueue(a, f)' = InQueue(a, f) /\ InOut(a, f)' = InOut(a, f)
               /\ OrderIn(a, Pending(f))'
            \/ /\ p = a
               /\ \E n \in Nat :
                    /\ InQueue(a, f)' = InQueue(a, f) \cup {n}
                    /\ InOut(a, f) = {n} \cup InOut(a, f)' /\ Below({n}, InOut(a, f)')
                    /\ Below(InQueue(a, f), {n}) => OrderIn(a, Pending(f))'
<1>0. PICK e : e = Head(out[p])
  OBVIOUS
<1>a. PICK s : s = e.stream
  OBVIOUS
<1>1. /\ out[p] # << >> /\ e \in EntryType /\ s \in Streams /\ QueuedOp(e) \in OpType
      /\ files' = IF First(e) THEN [files EXCEPT ![Whole(s)] = << >>] ELSE files
      /\ out' = [out EXCEPT ![p] = Tail(@)]
  BY <1>0, <1>a, EnqueueEffect
<1>2. /\ Pending(s)' = Append(Pending(s), QueuedOp(e))
      /\ \A u \in Streams : u # s => Pending(u)' = Pending(u)
  BY <1>0, <1>a, EnqueuePending
<1>3. \/ p \in Sinks /\ EventEntry(p, e)
      \/ p \in Tables /\ TableEntry(p, e)
      \/ p = Main /\ QueuedOp(e).data = ClosingData
  BY <1>0, NextEntry DEF Write
<1>4. /\ out \in [Actors -> Seq(EntryType)] /\ out[a] \in Seq(EntryType)
      /\ files \in [Names -> FileType] /\ a \in Actors /\ a # Main /\ a \notin Tables
  BY SinkFacts
<1>5. f \in Streams /\ Whole(f) \in Names /\ f \notin Tables
  BY FileNames
<1>6. Ascending(a, files[Whole(f)]) /\ OrderIn(a, Pending(f)) /\ OrderFor(f, out[a])
  BY DEF Ordered
<1>7. InFile(a, f)' = InFile(a, f) /\ Ascending(a, files[Whole(f)])'
  <2>1. CASE First(e) /\ f = s
    <3>1. files[Whole(f)] \in {Stale, << >>}
      BY <1>a, <2>1 DEF First, Shapes, Unopened
    <3>2. files'[Whole(f)] = << >>
      BY <1>1, <1>4, <1>5, <2>1
    <3> QED
      BY <3>1, <3>2, NothingIn DEF InFile
  <2>2. CASE ~(First(e) /\ f = s)
    <3>1. files'[Whole(f)] = files[Whole(f)]
      BY <1>1, <1>4, <1>5, <2>2, FileNames
    <3> QED
      BY <1>6, <3>1 DEF InFile
  <2> QED
    BY <2>1, <2>2
<1>8. CASE p # a
  <2>1. out'[a] = out[a]
    BY <1>1, <1>4, <1>8
  <2>2. InOut(a, f)' = InOut(a, f) /\ OrderFor(f, out[a])'
    BY <1>6, <2>1 DEF InOut
  <2>3. InQueue(a, f)' = InQueue(a, f) /\ OrderIn(a, Pending(f))'
    <3>1. CASE f # s
      <4>1. Pending(f)' = Pending(f)
        BY <1>2, <1>5, <3>1
      <4> QED
        BY <1>6, <4>1 DEF InQueue
    <3>2. CASE f = s
      <4>1. \A n \in Nat : ~Tells(a, QueuedOp(e), n)
        <5>1. CASE p \in Sinks
          <6>1. Tells(p, QueuedOp(e), NumberOf(e))
            BY <1>3, <5>1, EventOp, StreamKinds, NamesApart DEF Tells, Assemblers
          <6> QED
            BY <1>8, <6>1, TellsOne
        <5>2. CASE p \in Tables /\ TableEntry(p, e)
          BY <1>a, <1>5, <3>2, <5>2 DEF TableEntry
        <5>3. CASE QueuedOp(e).data = ClosingData
          BY <5>3, ClosingTellsNothing
        <5> QED
          BY <1>3, <5>1, <5>2, <5>3
      <4>2. Pending(f) \in Seq(OpType)
        BY <1>5, PendingType
      <4>3. {n \in Nat : Tells(a, QueuedOp(e), n)} = {}
        BY <4>1
      <4>4. /\ TellsIn(a, Append(Pending(f), QueuedOp(e))) = TellsIn(a, Pending(f))
            /\ OrderIn(a, Append(Pending(f), QueuedOp(e)))
        BY <1>1, <1>6, <4>2, <4>3, AppendTells, ZenonT(60) DEF Below
      <4> QED
        BY <1>2, <3>2, <4>4 DEF InQueue
    <3> QED
      BY <3>1, <3>2
  <2> QED
    BY <1>7, <2>2, <2>3
<1>9. CASE p = a
  <2>1. EventEntry(a, e) /\ out'[a] = Tail(out[a]) /\ e = Head(out[a]) /\ out[a] # << >>
    BY <1>0, <1>1, <1>3, <1>4, <1>9
  <2>2. /\ s = f => /\ InOut(a, f) = {NumberOf(e)} \cup InOut(a, f)'
                    /\ Below({NumberOf(e)}, InOut(a, f)')
        /\ s # f => InOut(a, f)' = InOut(a, f)
        /\ OrderFor(f, out[a])'
    BY <1>a, <1>4, <1>6, <2>1, TailNumbers DEF InOut
  <2>3. CASE f # s
    <3>1. Pending(f)' = Pending(f)
      BY <1>2, <1>5, <2>3
    <3> QED
      BY <1>6, <1>7, <2>2, <2>3, <3>1 DEF InQueue
  <2>4. CASE f = s
    <3>1. NumberOf(e) \in Nat /\ Tells(a, QueuedOp(e), NumberOf(e))
      BY <2>1, EventOp DEF Tells
    <3>2. {n \in Nat : Tells(a, QueuedOp(e), n)} = {NumberOf(e)}
      BY <3>1, TellsOne
    <3>3. Pending(f) \in Seq(OpType)
      BY <1>5, PendingType
    <3>4. /\ TellsIn(a, Append(Pending(f), QueuedOp(e))) = TellsIn(a, Pending(f)) \cup {NumberOf(e)}
          /\ Below(TellsIn(a, Pending(f)), {NumberOf(e)}) => OrderIn(a, Append(Pending(f), QueuedOp(e)))
      BY <1>1, <1>6, <3>2, <3>3, AppendTells
    <3>5. /\ InQueue(a, f)' = InQueue(a, f) \cup {NumberOf(e)}
          /\ Below(InQueue(a, f), {NumberOf(e)}) => OrderIn(a, Pending(f))'
      BY <1>2, <2>4, <3>4 DEF InQueue
    <3> QED
      BY <1>7, <1>9, <2>2, <2>4, <3>1, <3>5
  <2> QED
    BY <2>3, <2>4
<1> QED
  BY <1>8, <1>9

LEMMA EnqueueKeepsStories ==
  ASSUME Types, Types', IInv, IInv', Shapes, Stories, NEW p \in Actors, Enqueue(p)
  PROVE  Stories'
<1>1. /\ out[p] # << >> /\ out' = [out EXCEPT ![p] = Tail(@)]
      /\ UNCHANGED <<pc, verdict, made, disabled, synced, ok>>
  BY EnqueueEffect DEF sinkVars
<1>2. ASSUME NEW a \in Sinks, NEW f \in JsonFiles PROVE Ordered(a, f)' /\ Accounted(a, f)'
  <2>0. Ordered(a, f) /\ Accounted(a, f)
    BY DEF Stories
  <2>1. /\ InFile(a, f)' = InFile(a, f) /\ Ascending(a, files[Whole(f)])' /\ OrderFor(f, out[a])'
        /\ \/ /\ InQueue(a, f)' = InQueue(a, f) /\ InOut(a, f)' = InOut(a, f)
              /\ OrderIn(a, Pending(f))'
           \/ \E n \in Nat :
                /\ InQueue(a, f)' = InQueue(a, f) \cup {n}
                /\ InOut(a, f) = {n} \cup InOut(a, f)' /\ Below({n}, InOut(a, f)')
                /\ Below(InQueue(a, f), {n}) => OrderIn(a, Pending(f))'
    BY <2>0, EnqueueSets
  <2>2. InLine(InFile(a, f), InQueue(a, f), InOut(a, f), made[a])
    BY <2>0 DEF Ordered
  <2>3. Unpublished(a)' = Unpublished(a)
    BY <1>1 DEF Unpublished
  <2>4. CASE InQueue(a, f)' = InQueue(a, f) /\ InOut(a, f)' = InOut(a, f) /\ OrderIn(a, Pending(f))'
    BY <1>1, <2>0, <2>1, <2>3, <2>4 DEF Ordered, Accounted
  <2>5. CASE \E n \in Nat :
               /\ InQueue(a, f)' = InQueue(a, f) \cup {n}
               /\ InOut(a, f) = {n} \cup InOut(a, f)' /\ Below({n}, InOut(a, f)')
               /\ Below(InQueue(a, f), {n}) => OrderIn(a, Pending(f))'
    <3>1. PICK n \in Nat :
               /\ InQueue(a, f)' = InQueue(a, f) \cup {n}
               /\ InOut(a, f) = {n} \cup InOut(a, f)' /\ Below({n}, InOut(a, f)')
               /\ Below(InQueue(a, f), {n}) => OrderIn(a, Pending(f))'
      BY <2>5
    <3>2. /\ InLine(InFile(a, f), InQueue(a, f) \cup {n}, InOut(a, f)', made[a])
          /\ Below(InQueue(a, f), {n})
      BY <2>2, <3>1, LineQueued
    <3>3. Ordered(a, f)'
      BY <1>1, <2>1, <3>1, <3>2 DEF Ordered
    <3>4. InOut(a, f) # {} /\ InFile(a, f) \cup InQueue(a, f) \cup InOut(a, f)
             = InFile(a, f)' \cup InQueue(a, f)' \cup InOut(a, f)'
      BY <2>1, <3>1
    <3>5. Accounted(a, f)'
      BY <1>1, <2>0, <2>3, <3>4 DEF Accounted
    <3> QED
      BY <3>3, <3>5
  <2> QED
    BY <2>1, <2>4, <2>5
<1>3. ASSUME NEW a \in Sinks PROVE Awaited(a)'
  <2>0. /\ Awaited(a) /\ a \in Actors /\ out \in [Actors -> Seq(EntryType)]
        /\ synced[a] \in Nat
        /\ pc[a] = "done" => out[a] = << >>
        /\ \A k \in 1..Len(Targets[a]) : Targets[a][k] \in JsonFiles
        /\ \A f \in Range(Targets[a]) : f \in JsonFiles
    BY SinkFacts DEF Stories, Shapes, Resting, Assemblers
  <2>1. \A f \in JsonFiles : /\ InFile(a, f)' = InFile(a, f)
                             /\ p # a => InQueue(a, f)' = InQueue(a, f)
    BY EnqueueSets DEF Stories
  <2>2. p = a => synced[a] = 0 /\ verdict[a] # "ok"
    BY <1>1, <2>0 DEF Awaited
  <2>3. p # a => out'[a] = out[a]
    BY <1>1, <2>0
  <2>4. CASE p = a
    <3>1. Len(Targets[a]) \in Nat
      BY SinkFacts
    <3>2. synced'[a] = 0 /\ verdict'[a] # "ok"
      BY <1>1, <2>2, <2>4
    <3>3. \A k \in 1..Len(Targets[a]) : ~(k <= synced'[a])
      BY <3>1, <3>2
    <3>4. ~(synced'[a] > 0) /\ synced'[a] <= Len(Targets[a])
      BY <3>1, <3>2
    <3>5. pc'[a] # "done" => verdict'[a] = "none"
      BY <1>1, <2>0 DEF Awaited
    <3> QED
      BY <3>2, <3>3, <3>4, <3>5 DEF Awaited
  <2>5. CASE p # a
    BY <1>1, <2>0, <2>1, <2>3, <2>5 DEF Awaited
  <2> QED
    BY <2>4, <2>5
<1> QED
  BY <1>2, <1>3 DEF Stories

\* A drain writes the first event of the queue, or loses some: the run has failed then.
LEMMA DrainSets ==
  ASSUME Types, Types', IInv, IInv', Shapes, DrainEffect,
         NEW a \in Sinks, NEW f \in JsonFiles, Ordered(a, f)
  PROVE  /\ Ascending(a, files[Whole(f)])' /\ OrderIn(a, Pending(f))'
         /\ InQueue(a, f)' \subseteq InQueue(a, f)
         /\ InLine(InFile(a, f)', InQueue(a, f)', InOut(a, f), made[a])
         /\ InQueue(a, f) = {} => InFile(a, f)' = InFile(a, f)
         /\ InFile(a, f)' \subseteq InFile(a, f) \cup InQueue(a, f)
         /\ \/ InFile(a, f) \cup InQueue(a, f) = InFile(a, f)' \cup InQueue(a, f)' /\ ok' = ok
            \/ ok' = FALSE
<1>1. PICK s \in Streams : Effect(s) /\ \A u \in Streams : u # s => Pending(u)' = Pending(u)
  BY DEF DrainEffect
<1>2. f \in Streams /\ Whole(f) \in Names
  BY FileNames
<1>3. /\ Ascending(a, files[Whole(f)]) /\ OrderIn(a, Pending(f))
      /\ InLine(InFile(a, f), InQueue(a, f), InOut(a, f), made[a])
  BY DEF Ordered
<1>4. ok' \in {ok, FALSE}
  BY <1>1 DEF Effect, Quiet, Lost, GivenUp, Wrote
<1>5. CASE f # s
  <2>1. Pending(f)' = Pending(f)
    BY <1>1, <1>2, <1>5
  <2>2. files'[Whole(f)] = files[Whole(f)]
    <3>1. CASE UNCHANGED files
      BY <3>1
    <3>2. CASE \E op \in OpType : Wrote(s, op)
      BY <1>5, <3>2, WroteFiles
    <3> QED
      BY <1>1, <3>1, <3>2 DEF Effect, Quiet, Lost, GivenUp
  <2>3. InFile(a, f)' = InFile(a, f) /\ InQueue(a, f)' = InQueue(a, f)
    BY <2>1, <2>2 DEF InFile, InQueue
  <2> QED
    BY <1>3, <1>4, <2>1, <2>2, <2>3
<1>6. CASE f = s /\ \E op \in OpType : Wrote(s, op)
  <2>1. PICK op \in OpType : Wrote(f, op)
    BY <1>6
  <2>2. OpOf(f, op) /\ files'[Whole(f)] = files[Whole(f)] \o op.data
    BY <1>2, <2>1, WroteFiles
  <2>3. JsonOp(f, op)
    BY <2>2 DEF OpOf
  <2> DEFINE N == {n \in Nat : Tells(a, op, n)}
  <2>4. /\ TellsIn(a, Pending(f)) = N \cup TellsIn(a, Pending(f)')
        /\ OrderIn(a, Pending(f)') /\ Below(N, TellsIn(a, Pending(f)'))
    <3>1. Pending(f)' \in Seq(OpType) /\ Pending(f) = <<op>> \o Pending(f)'
      BY <1>2, <2>1, NextPendingType DEF Wrote
    <3>2. PICK q \in Seq(OpType) : q = Pending(f)'
      BY <3>1
    <3>3. PICK p : p = Pending(f)
      OBVIOUS
    <3>4. p = <<op>> \o q
      BY <3>1, <3>2, <3>3
    <3>5. /\ TellsIn(a, <<op>> \o q) = N \cup TellsIn(a, q)
          /\ OrderIn(a, <<op>> \o q) => OrderIn(a, q) /\ Below(N, TellsIn(a, q))
      BY FirstTells
    <3> HIDE DEF N
    <3> QED
      BY <1>3, <3>2, <3>3, <3>4, <3>5
  <2>5. files[Whole(f)] \in FileType
    BY <1>2 DEF Types, FileTypes
  <2>6. /\ Of(a, files'[Whole(f)]) = Of(a, files[Whole(f)]) \cup N
        /\ Ascending(a, files[Whole(f)]) /\ Below(Of(a, files[Whole(f)]), N)
             => Ascending(a, files'[Whole(f)])
    BY <2>2, <2>3, <2>5, FileTells
  <2> HIDE DEF N
  <2>7. /\ InFile(a, f)' = InFile(a, f) \cup N /\ InQueue(a, f) = N \cup InQueue(a, f)'
        /\ Below(N, InQueue(a, f)') /\ OrderIn(a, Pending(f))'
    BY <2>4, <2>6 DEF InFile, InQueue
  <2>8. /\ InLine(InFile(a, f) \cup N, InQueue(a, f)', InOut(a, f), made[a])
        /\ Below(InFile(a, f), N)
    BY <1>3, <2>7, LineWritten
  <2>9. Ascending(a, files[Whole(f)])'
    BY <1>3, <2>6, <2>8 DEF InFile
  <2>10. ok' = ok
    BY <2>1 DEF Wrote
  <2> QED
    BY <2>7, <2>8, <2>9, <2>10
<1>7. CASE f = s /\ ~\E op \in OpType : Wrote(s, op)
  <2>1. Quiet(f) \/ Lost(f) \/ GivenUp(f)
    BY <1>1, <1>7 DEF Effect
  <2>2. UNCHANGED files
    BY <2>1 DEF Quiet, Lost, GivenUp
  <2>3. InFile(a, f)' = InFile(a, f) /\ Ascending(a, files[Whole(f)])'
    BY <1>3, <2>2 DEF InFile
  <2>4. InQueue(a, f)' \subseteq InQueue(a, f) /\ OrderIn(a, Pending(f))'
    <3>1. CASE Pending(f)' = Pending(f)
      BY <1>3, <3>1 DEF InQueue
    <3>2. CASE Pending(f)' = << >>
      BY <3>2, NothingTold DEF InQueue
    <3>3. CASE Pending(f) # << >> /\ Pending(f)' = Tail(Pending(f))
      <4>0. Pending(f) \in Seq(OpType)
        BY <1>2, PendingType
      <4>1. PICK p \in Seq(OpType) : p = Pending(f)
        BY <4>0
      <4>3. PICK op \in OpType : \E q \in Seq(OpType) : p = <<op>> \o q /\ q = Tail(p)
        BY <3>3, <4>1, HeadInFront, HeadTailProperties
      <4>4. PICK q \in Seq(OpType) : p = <<op>> \o q /\ q = Tail(p)
        BY <4>3
      <4>5. /\ TellsIn(a, <<op>> \o q) = {n \in Nat : Tells(a, op, n)} \cup TellsIn(a, q)
            /\ OrderIn(a, <<op>> \o q) => OrderIn(a, q)
        BY FirstTells
      <4>2. /\ TellsIn(a, Tail(Pending(f))) \subseteq TellsIn(a, Pending(f))
            /\ OrderIn(a, Tail(Pending(f)))
        BY <1>3, <4>1, <4>4, <4>5
      <4> QED
        BY <3>3, <4>2 DEF InQueue
    <3> QED
      BY <2>1, <3>1, <3>2, <3>3 DEF Quiet, Lost, GivenUp
  <2>5. InLine(InFile(a, f), InQueue(a, f)', InOut(a, f), made[a])
    BY <1>3, <2>4, LineLost
  <2>6. \/ ok' = ok /\ InQueue(a, f)' = InQueue(a, f)
        \/ ok' = FALSE
    BY <2>1 DEF Quiet, Lost, GivenUp, InQueue
  <2> QED
    BY <2>3, <2>4, <2>5, <2>6
<1> QED
  BY <1>5, <1>6, <1>7

LEMMA DrainKeepsStories ==
  ASSUME Types, Types', IInv, IInv', Shapes, Stories, DrainEffect
  PROVE  Stories'
<1>1. UNCHANGED <<pc, out, verdict, made, disabled, synced>>
  BY DEF DrainEffect, Untold, sinkVars
<1>2. ASSUME NEW a \in Sinks, NEW f \in JsonFiles PROVE Ordered(a, f)' /\ Accounted(a, f)'
  <2>0. Ordered(a, f) /\ Accounted(a, f)
    BY DEF Stories
  <2>1. /\ Ascending(a, files[Whole(f)])' /\ OrderIn(a, Pending(f))'
        /\ InQueue(a, f)' \subseteq InQueue(a, f)
        /\ InLine(InFile(a, f)', InQueue(a, f)', InOut(a, f), made[a])
        /\ InFile(a, f)' \subseteq InFile(a, f) \cup InQueue(a, f)
        /\ \/ InFile(a, f) \cup InQueue(a, f) = InFile(a, f)' \cup InQueue(a, f)' /\ ok' = ok
           \/ ok' = FALSE
    BY <2>0, DrainSets
  <2>2. Unpublished(a)' = Unpublished(a) /\ InOut(a, f)' = InOut(a, f)
    BY <1>1 DEF Unpublished, InOut
  <2>3. Ordered(a, f)'
    BY <1>1, <2>0, <2>1, <2>2 DEF Ordered
  <2>4. Accounted(a, f)'
    BY <1>1, <2>0, <2>1, <2>2 DEF Accounted
  <2> QED
    BY <2>3, <2>4
<1>3. ASSUME NEW a \in Sinks PROVE Awaited(a)'
  <2>0. /\ Awaited(a)
        /\ \A k \in 1..Len(Targets[a]) : Targets[a][k] \in JsonFiles
        /\ \A f \in Range(Targets[a]) : f \in JsonFiles
    BY SinkFacts DEF Stories
  <2>1. \A f \in JsonFiles :
          InQueue(a, f) = {} => InQueue(a, f)' = {} /\ InFile(a, f)' = InFile(a, f)
    <3> TAKE f \in JsonFiles
    <3>1. /\ InQueue(a, f)' \subseteq InQueue(a, f)
          /\ InQueue(a, f) = {} => InFile(a, f)' = InFile(a, f)
      BY DrainSets DEF Stories
    <3> QED
      BY <3>1
  <2> QED
    BY <1>1, <2>0, <2>1 DEF Awaited
<1> QED
  BY <1>2, <1>3 DEF Stories

\* Nothing but the sink itself changes what it has made and what is left of it.
LEMMA StoriesStand ==
  ASSUME Stories, UNCHANGED <<queue, at, hand>>, ok' => ok,
         \A f \in JsonFiles : files'[Whole(f)] = files[Whole(f)],
         NEW a \in Sinks, out'[a] = out[a], pc'[a] = pc[a], verdict'[a] = verdict[a],
         made'[a] = made[a], disabled'[a] = disabled[a], synced'[a] = synced[a]
  PROVE  (\A f \in JsonFiles : Ordered(a, f)' /\ Accounted(a, f)') /\ Awaited(a)'
<1>1. \A s \in Streams : Pending(s)' = Pending(s)
  BY StillPending
<1>2. \A f \in JsonFiles : /\ f \in Streams /\ InFile(a, f)' = InFile(a, f)
                           /\ InQueue(a, f)' = InQueue(a, f) /\ InOut(a, f)' = InOut(a, f)
  BY <1>1, FileNames DEF InFile, InQueue, InOut
<1>3. Unpublished(a)' = Unpublished(a)
  BY DEF Unpublished
<1>4. ASSUME NEW f \in JsonFiles PROVE Ordered(a, f)' /\ Accounted(a, f)'
  <2>1. Ordered(a, f) /\ Accounted(a, f)
    BY DEF Stories
  <2>2. Ordered(a, f)'
    BY <1>1, <1>2, <2>1 DEF Ordered
  <2>3. Accounted(a, f)'
    BY <1>2, <1>3, <2>1 DEF Accounted
  <2> QED
    BY <2>2, <2>3
<1>5. Awaited(a)'
  <2>1. /\ Awaited(a)
        /\ \A k \in 1..Len(Targets[a]) : Targets[a][k] \in JsonFiles
        /\ \A f \in Range(Targets[a]) : f \in JsonFiles
    <3>1. Targets[a] \in Seq(JsonFiles) /\ DOMAIN Targets[a] = 1..Len(Targets[a])
      BY ConstantsAssumption, LenProperties
    <3> QED
      BY <3>1, ElementOfSeq DEF Stories, Range
  <2> QED
    BY <1>2, <2>1 DEF Awaited
<1> QED
  BY <1>4, <1>5

LEMMA TableKeepsStories ==
  ASSUME Types, Stories, NEW t \in Tables, Table(t)
  PROVE  Stories'
<1>0. t \in Actors /\ t \notin Sinks
  BY TableNames
<1>1. /\ UNCHANGED <<queue, at, hand, ok, made, disabled, synced>>
      /\ \A n \in Names : n[1] # t => files'[n] = files[n]
  BY DEF Table, StartCsv, AppendRow, FinishCsv, EndCsv, Abandon, streamVars, drainVars, sinkVars,
     Types, FileTypes
<1>2. \A a \in Sinks : out'[a] = out[a] /\ pc'[a] = pc[a] /\ verdict'[a] = verdict[a]
  <2> TAKE a \in Sinks
  <2>1. /\ out \in [Actors -> Seq(EntryType)] /\ pc \in [Actors -> PcValues]
        /\ verdict \in [Actors -> {"none", "ok", "failed", "discarded"}] /\ a \in Actors
    BY SinkFacts
  <2> QED
    BY <1>0, <2>1 DEF Table, StartCsv, AppendRow, FinishCsv, EndCsv, Abandon
<1>3. \A f \in JsonFiles : files'[Whole(f)] = files[Whole(f)]
  BY <1>1, FileNames
<1> QED
  BY <1>1, <1>2, <1>3, StoriesStand DEF Stories

LEMMA FinisherKeepsStories ==
  ASSUME Types, Stories, Finisher
  PROVE  Stories'
<1>1. UNCHANGED <<queue, at, hand, ok, made, disabled, synced, files>>
  BY DEF Finisher, Return, FinishStream, StreamFinished, streamVars, drainVars, sinkVars
<1>2. \A a \in Sinks : out'[a] = out[a] /\ pc'[a] = pc[a] /\ verdict'[a] = verdict[a]
  <2> TAKE a \in Sinks
  <2>1. /\ out \in [Actors -> Seq(EntryType)] /\ pc \in [Actors -> PcValues]
        /\ verdict \in [Actors -> {"none", "ok", "failed", "discarded"}] /\ a \in Actors /\ a # Main
    BY SinkFacts
  <2> QED
    BY <2>1 DEF Finisher, Return, FinishStream, StreamFinished
<1> QED
  BY <1>1, <1>2, StoriesStand DEF Stories

\* A sink publishes: what was in its spill file, or what it has made since.
LEMMA PublishKeepsStories ==
  ASSUME Types, Stories, UNCHANGED <<queue, at, hand, files, ok>>,
         NEW a \in Sinks, pc[a] = "assemble", out[a] = << >>,
         NEW n \in {made[a], made[a] + 1}, NEW q, Published(a, n, q), ~Unpublished(a)'
  PROVE  \A f \in JsonFiles : Ordered(a, f)' /\ Accounted(a, f)'
<1>1. \A s \in Streams : Pending(s)' = Pending(s)
  BY StillPending
<1>2. made[a] \in Nat /\ a \in Actors /\ n \in Nat /\ made[a] <= n
  BY SinkFacts
<1>3. made'[a] = n /\ out'[a] = q /\ Publication(a, q, FirstNew(a), n)
  BY <1>2, SinkFacts DEF Published
<1> SUFFICES ASSUME NEW f \in JsonFiles PROVE Ordered(a, f)' /\ Accounted(a, f)'
  OBVIOUS
<1>4. /\ f \in Streams /\ InFile(a, f)' = InFile(a, f) /\ InQueue(a, f)' = InQueue(a, f)
      /\ InOut(a, f) = {} /\ InOut(a, f)' = NumbersFor(f, q)
  BY <1>1, <1>3, FileNames, NothingFor DEF InFile, InQueue, InOut
<1>5. /\ OrderFor(f, q) /\ NumbersFor(f, q) \subseteq FirstNew(a)..n
      /\ f \in Range(Targets[a]) => FirstNew(a)..n \subseteq NumbersFor(f, q)
  BY <1>3, PublicationNumbers
<1>6. Ordered(a, f) /\ Accounted(a, f)
  BY DEF Stories
<1>7. InLine(InFile(a, f), InQueue(a, f), {}, made[a])
  BY <1>4, <1>6 DEF Ordered
<1>8. CASE disabled[a]
  <2>1. FirstNew(a) = made[a] + 1 /\ ~Unpublished(a)
    BY <1>8 DEF FirstNew, Unpublished
  <2>2. InLine(InFile(a, f), InQueue(a, f), NumbersFor(f, q), n)
    BY <1>2, <1>5, <1>7, <2>1, LinePublished
  <2>3. Ordered(a, f)'
    BY <1>1, <1>3, <1>4, <1>5, <1>6, <2>2 DEF Ordered
  <2>4. ok /\ f \in Range(Targets[a]) => 1..n \subseteq InFile(a, f) \cup InQueue(a, f) \cup NumbersFor(f, q)
    <3> SUFFICES ASSUME ok, f \in Range(Targets[a]), NEW i \in 1..n
                 PROVE  i \in InFile(a, f) \cup InQueue(a, f) \cup NumbersFor(f, q)
      OBVIOUS
    <3>1. i \in 1..made[a] \/ i \in (made[a] + 1)..n
      BY <1>2
    <3>2. 1..made[a] \subseteq InFile(a, f) \cup InQueue(a, f)
      BY <1>4, <1>6, <2>1 DEF Accounted
    <3> QED
      BY <1>5, <2>1, <3>1, <3>2
  <2>5. Accounted(a, f)'
    BY <1>3, <1>4, <2>4 DEF Accounted
  <2> QED
    BY <2>3, <2>5
<1>9. CASE ~disabled[a]
  <2>1. FirstNew(a) = 1 /\ Unpublished(a)
    BY <1>9 DEF FirstNew, Unpublished
  <2>2. InFile(a, f) = {} /\ InQueue(a, f) = {}
    BY <1>6, <2>1 DEF Accounted
  <2>3. InLine(InFile(a, f), InQueue(a, f), NumbersFor(f, q), n)
    BY <1>2, <1>5, <1>7, <2>1, <2>2, LinePublished
  <2>4. Ordered(a, f)'
    BY <1>1, <1>3, <1>4, <1>5, <1>6, <2>3 DEF Ordered
  <2>5. Accounted(a, f)'
    BY <1>3, <1>4, <1>5, <2>1 DEF Accounted
  <2> QED
    BY <2>4, <2>5
<1> QED
  BY <1>8, <1>9

LEMMA SinkKeepsStories ==
  ASSUME Types, IInv, Shapes, Stories, NEW a \in Sinks, Sink(a)
  PROVE  Stories'
<1>1. UNCHANGED <<queue, at, hand, files>> /\ (ok' => ok)
  BY SinkFrame DEF streamVars, drainVars
<1>2. /\ made \in [Sinks -> 0..Batches] /\ made[a] \in Nat /\ out \in [Actors -> Seq(EntryType)]
      /\ disabled \in [Sinks -> BOOLEAN] /\ synced \in [Sinks -> Nat]
      /\ pc \in [Actors -> PcValues] /\ a \in Actors /\ out[a] \in Seq(EntryType)
      /\ verdict \in [Actors -> {"none", "ok", "failed", "discarded"}]
      /\ Targets[a] \in Seq(JsonFiles) /\ Len(Targets[a]) \in Nat
      /\ Range(Targets[a]) = {Targets[a][k] : k \in 1..Len(Targets[a])}
      /\ \A k \in 1..Len(Targets[a]) : Targets[a][k] \in JsonFiles
      /\ \A f \in Range(Targets[a]) : f \in JsonFiles
  BY SinkFacts
<1>3. ASSUME NEW b \in Sinks, b # a
      PROVE  (\A f \in JsonFiles : Ordered(b, f)' /\ Accounted(b, f)') /\ Awaited(b)'
  <2>1. b \in Actors
    BY StreamKinds
  <2>2. /\ out'[b] = out[b] /\ pc'[b] = pc[b] /\ verdict'[b] = verdict[b]
        /\ made'[b] = made[b] /\ disabled'[b] = disabled[b] /\ synced'[b] = synced[b]
    BY <1>2, <1>3, <2>1 DEF Sink, PushBatch, ReplayBreaks, Flush, Discard, Sync, Report, sinkVars
  <2> QED
    BY <1>1, <2>2, StoriesStand
<1>4. \A s \in Streams : Pending(s)' = Pending(s)
  BY <1>1, StillPending
<1>5. \A f \in JsonFiles : /\ f \in Streams /\ InFile(a, f)' = InFile(a, f)
                           /\ InQueue(a, f)' = InQueue(a, f)
  BY <1>1, <1>4, FileNames DEF InFile, InQueue
<1>6. /\ \A f \in JsonFiles : Ordered(a, f) /\ Accounted(a, f)
      /\ Awaited(a)
      /\ pc[a] = "done" => out[a] = << >>
  BY DEF Stories, Shapes, Resting, Assemblers
<1>7. pc[a] # "done" => synced[a] = 0 \/ pc[a] = "sync"
  BY <1>2, <1>6 DEF Awaited
<1>8. pc[a] # "done" => verdict[a] = "none"
  BY <1>6 DEF Awaited
<1>9. ASSUME out'[a] = out[a], made'[a] = made[a], Unpublished(a)' = Unpublished(a),
             pc[a] # "done"
      PROVE  \A f \in JsonFiles : Ordered(a, f)' /\ Accounted(a, f)'
  <2> SUFFICES ASSUME NEW f \in JsonFiles PROVE Ordered(a, f)' /\ Accounted(a, f)'
    OBVIOUS
  <2>1. InOut(a, f)' = InOut(a, f)
    BY <1>9 DEF InOut
  <2>2. Ordered(a, f) /\ Accounted(a, f)
    BY <1>6
  <2>3. Ordered(a, f)'
    BY <1>1, <1>4, <1>5, <1>9, <2>1, <2>2 DEF Ordered
  <2>4. Accounted(a, f)'
    BY <1>1, <1>5, <1>9, <2>1, <2>2 DEF Accounted
  <2> QED
    BY <2>3, <2>4
\* Nothing was waited for yet, and nothing is reported.
<1>10. ASSUME synced'[a] = 0, verdict'[a] # "ok", pc'[a] # "done" => verdict'[a] = "none"
       PROVE  Awaited(a)'
  <2>1. ~(synced'[a] > 0) /\ synced'[a] <= Len(Targets[a])
    BY <1>2, <1>10
  <2>2. \A k \in 1..Len(Targets[a]) : ~(k <= synced'[a])
    BY <1>2, <1>10
  <2> QED
    BY <1>10, <2>1, <2>2 DEF Awaited
<1>11. ASSUME (\A f \in JsonFiles : Ordered(a, f)' /\ Accounted(a, f)') /\ Awaited(a)'
       PROVE  Stories'
  BY <1>3, <1>11 DEF Stories
<1>12. CASE PushBatch(a)
  <2>1. /\ pc[a] = "assemble" /\ out[a] = << >> /\ made' = [made EXCEPT ![a] = @ + 1]
        /\ UNCHANGED <<pc, synced, verdict, ok>>
        /\ \/ ~disabled[a] /\ UNCHANGED <<out, disabled>>
           \/ /\ disabled' = [disabled EXCEPT ![a] = TRUE]
              /\ out' = [out EXCEPT ![a] = ReplayThenRest(a, made[a] + 1)]
              /\ Publication(a, ReplayThenRest(a, made[a] + 1), FirstNew(a), made[a] + 1)
    BY <1>12, PushEffect DEF Idle
  <2>2. Awaited(a)'
    BY <1>7, <1>8, <1>10, <2>1
  <2>3. CASE ~disabled[a] /\ UNCHANGED <<out, disabled>>
    <3>1. made'[a] = made[a] + 1 /\ Unpublished(a) /\ Unpublished(a)' /\ out'[a] = out[a]
      BY <1>2, <2>1, <2>3 DEF Unpublished
    <3>2. ASSUME NEW f \in JsonFiles PROVE Ordered(a, f)' /\ Accounted(a, f)'
      <4>1. Ordered(a, f) /\ Accounted(a, f) /\ InOut(a, f)' = InOut(a, f)
        BY <1>6, <3>1 DEF InOut
      <4>2. 1..made[a] \subseteq 1..(made[a] + 1)
        BY <1>2
      <4>3. InLine(InFile(a, f), InQueue(a, f), InOut(a, f), made[a] + 1)
        BY <4>1, <4>2 DEF Ordered, InLine
      <4>4. Ordered(a, f)'
        BY <1>1, <1>4, <1>5, <3>1, <4>1, <4>3 DEF Ordered
      <4>5. Accounted(a, f)'
        BY <1>5, <3>1, <4>1 DEF Accounted
      <4> QED
        BY <4>4, <4>5
    <3> QED
      BY <1>11, <2>2, <3>2
  <2>4. CASE /\ disabled' = [disabled EXCEPT ![a] = TRUE]
             /\ out' = [out EXCEPT ![a] = ReplayThenRest(a, made[a] + 1)]
             /\ Publication(a, ReplayThenRest(a, made[a] + 1), FirstNew(a), made[a] + 1)
    <3>1. made' = [made EXCEPT ![a] = made[a] + 1]
      BY <2>1
    <3>2. Published(a, made[a] + 1, ReplayThenRest(a, made[a] + 1))
      BY <2>4, <3>1 DEF Published
    <3>3. disabled'[a] = TRUE
      BY <1>2, <2>4
    <3>4. ~Unpublished(a)'
      BY <3>3 DEF Unpublished
    <3>5. made[a] + 1 \in {made[a], made[a] + 1}
      OBVIOUS
    <3>6. \A f \in JsonFiles : Ordered(a, f)' /\ Accounted(a, f)'
      BY <1>1, <2>1, <3>2, <3>4, <3>5, PublishKeepsStories, Zenon
    <3> QED
      BY <1>11, <2>2, <3>6
  <2> QED
    BY <2>1, <2>3, <2>4
<1>13. CASE Flush(a)
  <2>1. /\ pc[a] = "assemble" /\ out[a] = << >> /\ pc' = [pc EXCEPT ![a] = "sync"]
        /\ UNCHANGED <<synced, verdict, disabled, ok>>
        /\ \E n \in {made[a], made[a] + 1} : \E q : Published(a, n, q)
    BY <1>13, FlushEffect DEF Idle
  <2>2. pc'[a] = "sync" /\ verdict'[a] = "none"
    BY <1>2, <1>8, <2>1
  <2>3. ~Unpublished(a)'
    BY <2>2 DEF Unpublished
  <2>4. PICK n \in {made[a], made[a] + 1} : \E q : Published(a, n, q)
    BY <2>1
  <2>5. PICK q : Published(a, n, q)
    BY <2>4
  <2>6. \A f \in JsonFiles : Ordered(a, f)' /\ Accounted(a, f)'
    BY <1>1, <2>1, <2>3, <2>5, PublishKeepsStories
  <2>7. Awaited(a)'
    BY <1>7, <1>10, <2>1, <2>2
  <2> QED
    BY <1>11, <2>6, <2>7
<1>14. CASE ReplayBreaks(a)
  <2>1. /\ out[a] # << >> /\ ok' = FALSE
        /\ \E n \in 1..Len(out[a]) : out' = [out EXCEPT ![a] = SubSeq(@, n + 1, Len(@))]
        /\ UNCHANGED <<pc, verdict, made, disabled, synced>>
    BY <1>14 DEF ReplayBreaks, sinkVars
  <2>2. PICK n \in 1..Len(out[a]) : out' = [out EXCEPT ![a] = SubSeq(@, n + 1, Len(@))]
    BY <2>1
  <2>3. out'[a] = SubSeq(out[a], n + 1, Len(out[a]))
    BY <1>2, <2>2
  <2>4. ASSUME NEW f \in JsonFiles PROVE Ordered(a, f)' /\ Accounted(a, f)'
    <3>1. Ordered(a, f) /\ Accounted(a, f)
      BY <1>6
    <3>2. InOut(a, f)' \subseteq InOut(a, f) /\ OrderFor(f, out[a])'
      BY <1>2, <2>3, <3>1, LostNumbers DEF InOut, Ordered
    <3>3. InLine(InFile(a, f), InQueue(a, f), InOut(a, f)', made[a])
      BY <3>1, <3>2, LineLost DEF Ordered
    <3>4. Ordered(a, f)'
      BY <1>1, <1>4, <1>5, <2>1, <3>1, <3>2, <3>3 DEF Ordered
    <3>5. Unpublished(a)' = Unpublished(a)
      BY <2>1 DEF Unpublished
    <3>6. Accounted(a, f)'
      BY <1>5, <2>1, <3>1, <3>2, <3>5 DEF Accounted
    <3> QED
      BY <3>4, <3>6
  <2>5. synced[a] = 0 /\ pc[a] # "done"
    BY <1>2, <1>6, <2>1 DEF Awaited
  <2>6. Awaited(a)'
    BY <1>8, <1>10, <2>1, <2>5
  <2> QED
    BY <1>11, <2>4, <2>6
<1>15. CASE Discard(a)
  <2>1. /\ pc[a] = "assemble" /\ pc' = [pc EXCEPT ![a] = "done"]
        /\ verdict' = [verdict EXCEPT ![a] = "discarded"]
        /\ UNCHANGED <<out, made, disabled, synced>>
    BY <1>15 DEF Discard
  <2>2. pc'[a] = "done" /\ verdict'[a] = "discarded"
    BY <1>2, <2>1
  <2>3. Unpublished(a)' = Unpublished(a)
    BY <2>1, <2>2 DEF Unpublished
  <2>4. Awaited(a)'
    BY <1>7, <1>10, <2>1, <2>2
  <2> QED
    BY <1>9, <1>11, <2>1, <2>3, <2>4
<1>16. CASE Sync(a)
  <2>1. /\ pc[a] = "sync" /\ out[a] = << >> /\ synced[a] < Len(Targets[a])
        /\ Drained(Targets[a][synced[a] + 1])
        /\ synced' = [synced EXCEPT ![a] = @ + 1]
        /\ UNCHANGED <<pc, out, verdict, made, disabled, ok>>
    BY <1>16 DEF Sync, Idle
  <2>2. Unpublished(a)' = Unpublished(a)
    BY <2>1 DEF Unpublished
  <2> DEFINE k == synced[a] + 1
  <2>3. k \in 1..Len(Targets[a]) /\ synced'[a] = k
    BY <1>2, <2>1
  <2>4. InQueue(a, Targets[a][k]) = {}
    <3>1. Targets[a][k] \in Streams /\ Drained(Targets[a][k])
      BY <1>2, <1>5, <2>1, <2>3
    <3>2. Pending(Targets[a][k]) = << >>
      BY <3>1, DrainedPending
    <3> QED
      BY <3>2, NothingTold DEF InQueue
  <2>5. \A i \in 1..Len(Targets[a]) : i <= k => i <= synced[a] \/ i = k
    BY <1>2
  <2>6. \A i \in 1..Len(Targets[a]) : i <= k => InQueue(a, Targets[a][i]) = {}
    BY <1>6, <2>4, <2>5 DEF Awaited
  <2>7. \A i \in 1..Len(Targets[a]) : i <= synced'[a] => InQueue(a, Targets[a][i])' = {}
    BY <1>2, <1>5, <2>3, <2>6
  <2>8. pc'[a] = "sync" /\ verdict'[a] = "none" /\ out'[a] = << >> /\ synced'[a] <= Len(Targets[a])
    BY <1>8, <2>1, <2>3
  <2>9. Awaited(a)'
    BY <2>7, <2>8 DEF Awaited
  <2> QED
    BY <1>9, <1>11, <2>1, <2>2, <2>9
<1>17. CASE Report(a)
  <2>1. /\ pc[a] = "sync" /\ out[a] = << >> /\ synced[a] = Len(Targets[a])
        /\ pc' = [pc EXCEPT ![a] = "done"]
        /\ \/ ok /\ verdict' = [verdict EXCEPT ![a] = "ok"]
           \/ ~ok /\ verdict' = [verdict EXCEPT ![a] = "failed"]
        /\ UNCHANGED <<out, made, disabled, synced, ok>>
    BY <1>17 DEF Report, Idle, sinkVars
  <2>2. pc'[a] = "done" /\ verdict'[a] \in {"ok", "failed"} /\ (verdict'[a] = "ok" => ok)
    BY <1>2, <2>1
  <2>3. ~Unpublished(a) /\ ~Unpublished(a)'
    BY <1>8, <2>1, <2>2 DEF Unpublished
  <2>4. \A f \in Range(Targets[a]) : InQueue(a, f) = {}
    <3> TAKE f \in Range(Targets[a])
    <3>1. PICK k \in 1..Len(Targets[a]) : f = Targets[a][k]
      BY <1>2
    <3>2. k <= synced[a]
      BY <1>2, <2>1
    <3> QED
      BY <1>6, <3>1, <3>2 DEF Awaited
  <2>5. ASSUME ok, NEW f \in Range(Targets[a]) PROVE InFile(a, f) = 1..made[a]
    <3>1. f \in JsonFiles /\ InQueue(a, f) = {} /\ InOut(a, f) = {}
      BY <1>2, <2>1, <2>4, NothingFor DEF InOut
    <3>2. Ordered(a, f) /\ Accounted(a, f)
      BY <1>6, <3>1
    <3>3. InFile(a, f) \subseteq 1..made[a]
      BY <3>2 DEF Ordered, InLine
    <3>4. 1..made[a] \subseteq InFile(a, f)
      BY <2>1, <2>3, <2>5, <3>1, <3>2 DEF Accounted
    <3> QED
      BY <3>3, <3>4
  <2>6. Awaited(a)'
    <3>1. \A k \in 1..Len(Targets[a]) : InQueue(a, Targets[a][k])' = {}
      BY <1>2, <1>5, <2>4
    <3>2. verdict'[a] = "ok" =>
            \A f \in Range(Targets[a]) : InQueue(a, f)' = {} /\ InFile(a, f)' = 1..made'[a]
      BY <1>2, <1>5, <2>1, <2>2, <2>4, <2>5
    <3>3. synced'[a] <= Len(Targets[a]) /\ out'[a] = << >>
      BY <1>2, <2>1
    <3>4. \A k \in 1..Len(Targets[a]) : k <= synced'[a] => InQueue(a, Targets[a][k])' = {}
      BY <3>1
    <3>5. /\ synced'[a] > 0 => pc'[a] \in {"sync", "done"} /\ out'[a] = << >>
          /\ pc'[a] # "done" => verdict'[a] = "none"
      BY <2>2, <3>3
    <3> QED
      BY <3>2, <3>3, <3>4, <3>5, Zenon DEF Awaited
  <2>7. Unpublished(a)' = Unpublished(a)
    BY <2>3 DEF Unpublished
  <2> QED
    BY <1>9, <1>11, <2>1, <2>6, <2>7
<1> QED
  BY <1>12, <1>13, <1>14, <1>15, <1>16, <1>17 DEF Sink

\* The events the sink had still to queue are lost, and it has failed.
LEMMA StartThrowsKeepsStories ==
  ASSUME Types, Shapes, Stories, NEW p \in Actors, StartThrows(p)
  PROVE  Stories'
<1>1. /\ out' = [out EXCEPT ![p] = << >>]
      /\ pc' = [pc EXCEPT ![p] = IF p = Main THEN "wait" ELSE "done"]
      /\ verdict' = [verdict EXCEPT ![p] = "failed"]
      /\ UNCHANGED <<made, disabled, synced, opened, queue, at, hand, ok>> /\ out[p] # << >>
  BY StartThrowsFrame DEF sinkVars
<1>2. /\ out \in [Actors -> Seq(EntryType)] /\ pc \in [Actors -> PcValues]
      /\ verdict \in [Actors -> {"none", "ok", "failed", "discarded"}]
      /\ Main \in Actors /\ Sinks \subseteq Actors /\ Main \notin Sinks
  BY MainFacts, StreamKinds
<1>3. \A s \in Streams : Pending(s)' = Pending(s)
  BY <1>1, StillPending
<1>4. ASSUME NEW a \in Sinks, NEW f \in JsonFiles
      PROVE  /\ InFile(a, f)' = InFile(a, f) /\ InQueue(a, f)' = InQueue(a, f)
             /\ Ascending(a, files[Whole(f)]) => Ascending(a, files'[Whole(f)])
  <2>1. f \in Streams /\ Unopened(f)
    BY FileNames DEF Shapes
  <2>2. InQueue(a, f)' = InQueue(a, f)
    BY <1>3, <2>1 DEF InQueue
  <2>3. CASE files'[Whole(f)] = files[Whole(f)]
    BY <2>2, <2>3 DEF InFile
  <2>4. CASE ~opened[f] /\ files'[Whole(f)] = << >>
    <3>1. files[Whole(f)] \in {Stale, << >>}
      BY <2>1, <2>4 DEF Unopened
    <3> QED
      BY <2>2, <2>4, <3>1, NothingIn, StreamKinds DEF InFile
  <2> QED
    BY <2>3, <2>4, StartThrowsFiles
<1>5. ASSUME NEW a \in Sinks, NEW f \in JsonFiles PROVE Ordered(a, f)' /\ Accounted(a, f)'
  <2>0. Ordered(a, f) /\ Accounted(a, f) /\ f \in Streams
    BY FileNames DEF Stories
  <2>1. CASE a # p
    <3>1. out'[a] = out[a] /\ pc'[a] = pc[a] /\ verdict'[a] = verdict[a]
      BY <1>1, <1>2, <2>1
    <3>2. InOut(a, f)' = InOut(a, f) /\ Unpublished(a)' = Unpublished(a)
      BY <1>1, <3>1 DEF InOut, Unpublished
    <3>3. Ordered(a, f)'
      BY <1>1, <1>3, <1>4, <2>0, <3>1, <3>2 DEF Ordered
    <3>4. Accounted(a, f)'
      BY <1>1, <1>4, <2>0, <3>1, <3>2 DEF Accounted
    <3> QED
      BY <3>3, <3>4
  <2>2. CASE a = p
    <3>1. out'[a] = << >> /\ pc'[a] = "done" /\ verdict'[a] = "failed"
      BY <1>1, <1>2, <2>2
    <3>2. InOut(a, f)' = {} /\ OrderFor(f, out'[a])
      BY <3>1, NothingFor DEF InOut
    <3>3. ~Unpublished(a)'
      BY <3>1 DEF Unpublished
    <3>4. InLine(InFile(a, f), InQueue(a, f), {}, made[a])
      BY <2>0 DEF Ordered, InLine, Below
    <3>5. Ordered(a, f)'
      BY <1>1, <1>3, <1>4, <2>0, <3>2, <3>4 DEF Ordered
    <3>6. Accounted(a, f)'
      BY <3>1, <3>3 DEF Accounted
    <3> QED
      BY <3>5, <3>6
  <2> QED
    BY <2>1, <2>2
<1>6. ASSUME NEW a \in Sinks PROVE Awaited(a)'
  <2>0. /\ Awaited(a)
        /\ \A k \in 1..Len(Targets[a]) : Targets[a][k] \in JsonFiles
        /\ \A f \in Range(Targets[a]) : f \in JsonFiles
    BY SinkFacts DEF Stories
  <2>1. CASE a # p
    <3>1. out'[a] = out[a] /\ pc'[a] = pc[a] /\ verdict'[a] = verdict[a]
      BY <1>1, <1>2, <2>1
    <3> QED
      BY <1>1, <1>4, <2>0, <3>1 DEF Awaited
  <2>2. CASE a = p
    <3>1. out'[a] = << >> /\ pc'[a] = "done" /\ verdict'[a] = "failed"
      BY <1>1, <1>2, <2>2
    <3> QED
      BY <1>1, <1>4, <2>0, <3>1 DEF Awaited
  <2> QED
    BY <2>1, <2>2
<1> QED
  BY <1>5, <1>6 DEF Stories

LEMMA NextKeepsStories ==
  ASSUME Types, Types', IInv, IInv', Shapes, Stories, [Next]_vars
  PROVE  Stories'
<1>1. CASE UNCHANGED <<actorVars, streamVars, tasks, at, hand, files, ok>>
  <2>1. UNCHANGED <<queue, at, hand, ok, files, out, pc, verdict, made, disabled, synced>>
    BY <1>1 DEF actorVars, streamVars, sinkVars
  <2> QED
    BY <2>1, StoriesStand DEF Stories
<1> QED
  BY <1>1, StepKinds, EnqueueKeepsStories, StartThrowsKeepsStories, DrainKeepsStories,
     SinkKeepsStories, TableKeepsStories, FinisherKeepsStories

-----------------------------------------------------------------------------
(***************************************************************************)
(* A timeline while it is written: what is in the file can be continued by *)
(* what is queued, and the bracket that ends it comes last.                *)
(***************************************************************************)
IsClosing(op) == op.data = ClosingData
HalfOpen(x) ==
  /\ Len(x) % 2 = 0
  /\ \A k \in 1..Len(x) : /\ k = 1 => x[k][1] = "["
                          /\ k % 2 = 1 /\ k # 1 => x[k][1] = ","
                          /\ k % 2 = 0 => x[k][1] \in Sinks
Array(x) ==
  /\ Len(x) % 2 = 1 /\ x[1][1] = "[" /\ x[Len(x)][1] = "]"
  /\ \A k \in 2..(Len(x) - 1) : IF k % 2 = 1 THEN x[k][1] = "," ELSE x[k][1] \in Sinks
Separated(x, q) ==
  \A k \in 1..Len(q) :
    /\ IsClosing(q[k]) => k = Len(q) /\ (x # << >> \/ k # 1)
    /\ \A sep \in Separators : \A b \in Sinks : \A n \in Nat :
         q[k].data = EventData(sep, b, n) => (sep = "[" <=> x = << >> /\ k = 1)
Closes(q) == \E k \in 1..Len(q) : IsClosing(q[k])

Sealed(f) == Array(files[Whole(f)]) \/ Closes(Pending(f))
Timeline(f) ==
  /\ \/ Array(files[Whole(f)]) /\ Pending(f) = << >>
     \/ /\ HalfOpen(files[Whole(f)]) /\ Separated(files[Whole(f)], Pending(f))
        /\ files[Whole(f)] = << >> => Pending(f) # << >>
  /\ Sealed(f) <=> f \notin left \/ (pc[Main] = f /\ out[Main] = << >>)
  /\ f \notin left => Pending(f) = << >>
Finished(f) == opened[f] => Array(files[Whole(f)]) /\ Pending(f) = << >>

Timelines ==
  /\ ok /\ verdict[Main] # "failed" => \A f \in JsonFiles : opened[f] => Timeline(f)
  /\ verdict[Main] = "ok" => pc[Main] = "done" /\ \A f \in JsonFiles : Finished(f)
  /\ \A f \in JsonFiles : pc[Main] = f => f \in left
  /\ pc[Main] # "done" => verdict[Main] # "ok"

LEMMA NotBoth == \A x : HalfOpen(x) => ~Array(x)
<1> SUFFICES ASSUME NEW x, HalfOpen(x), Array(x) PROVE FALSE
  OBVIOUS
<1>1. Len(x) % 2 = 0
  BY DEF HalfOpen
<1>2. Len(x) % 2 = 1
  BY DEF Array
<1> QED
  BY <1>1, <1>2

LEMMA Parity ==
  \A n \in Nat : n % 2 = 0 => (n + 1) % 2 = 1 /\ (n + 2) % 2 = 0
OBVIOUS

\* One sequence behind another, in a file.
LEMMA FileConcat ==
  ASSUME NEW x \in FileType, NEW y \in FileType
  PROVE  /\ Len(x \o y) = Len(x) + Len(y) /\ Len(x) \in Nat /\ x \o y \in FileType
         /\ \A i \in 1..Len(x) : (x \o y)[i] = x[i]
         /\ \A i \in 1..Len(y) : (x \o y)[Len(x) + i] = y[i]
         /\ x = << >> <=> Len(x) = 0
         /\ x \o y = << >> <=> Len(x \o y) = 0
<1>1. x \in Seq(Tokens \X Nat) /\ y \in Seq(Tokens \X Nat)
  BY DEF FileType
<1>2. /\ Len(x \o y) = Len(x) + Len(y) /\ Len(x) \in Nat /\ x \o y \in Seq(Tokens \X Nat)
      /\ \A i \in 1..Len(x) : (x \o y)[i] = x[i]
      /\ \A i \in 1..Len(y) : (x \o y)[Len(x) + i] = y[i]
  BY <1>1, ConcatAt, LenProperties
<1>3. (x = << >> <=> Len(x) = 0) /\ (x \o y = << >> <=> Len(x \o y) = 0)
  BY <1>1, <1>2, EmptySeq
<1> QED
  BY <1>2, <1>3 DEF FileType

LEMMA NothingWritten == HalfOpen(<< >>) /\ ~Array(<< >>) /\ ~Closes(<< >>)
<1>1. Len(<< >>) = 0
  BY EmptySeq
<1>2. 0 % 2 = 0 /\ 1..0 = {}
  OBVIOUS
<1> QED
  BY <1>1, <1>2 DEF HalfOpen, Array, Closes

\* Of the operations of a timeline, those with an event are not the closing one.
LEMMA EventsDoNotClose ==
  ASSUME NEW op, NEW sep, NEW b, NEW n, op.data = EventData(sep, b, n)
  PROVE  ~IsClosing(op)
<1>1. Len(ClosingData) = 1 /\ Len(EventData(sep, b, n)) = 2
  BY DEF ClosingData, EventData
<1> QED
  BY <1>1 DEF IsClosing

LEMMA QueueEvent ==
  ASSUME NEW x, NEW q \in Seq(OpType), NEW op \in OpType, Separated(x, q), ~Closes(q),
         NEW sep \in Separators, NEW b \in Sinks, NEW n \in Nat, op.data = EventData(sep, b, n),
         sep = "[" <=> x = << >> /\ q = << >>
  PROVE  Separated(x, Append(q, op)) /\ ~Closes(Append(q, op))
<1> DEFINE r == Append(q, op)
<1>1. /\ Len(r) = Len(q) + 1 /\ Len(q) \in Nat /\ r[Len(q) + 1] = op
      /\ \A i \in 1..Len(q) : r[i] = q[i]
      /\ q = << >> <=> Len(q) = 0
  BY AppendProperties, LenProperties, EmptySeq
<1> HIDE DEF r
<1>2. \A k \in 1..Len(r) : (k \in 1..Len(q) /\ r[k] = q[k]) \/ (k = Len(q) + 1 /\ r[k] = op)
  BY <1>1
<1>3. ~IsClosing(op)
  BY EventsDoNotClose
<1>4. \A k \in 1..Len(q) : ~IsClosing(q[k])
  BY DEF Closes
<1>5. \A k \in 1..Len(r) : ~IsClosing(r[k])
  BY <1>2, <1>3, <1>4
<1>6. ASSUME NEW k \in 1..Len(r), NEW sep2 \in Separators, NEW c \in Sinks, NEW m \in Nat,
             r[k].data = EventData(sep2, c, m)
      PROVE  sep2 = "[" <=> x = << >> /\ k = 1
  <2>1. CASE k \in 1..Len(q) /\ r[k] = q[k]
    BY <1>6, <2>1 DEF Separated
  <2>2. CASE k = Len(q) + 1 /\ r[k] = op
    <3>1. sep2 = sep
      BY <1>6, <2>2 DEF EventData
    <3>2. k = 1 <=> q = << >>
      BY <1>1, <2>2
    <3> QED
      BY <3>1, <3>2
  <2> QED
    BY <1>2, <2>1, <2>2
<1> QED
  BY <1>5, <1>6 DEF Separated, Closes, r

LEMMA QueueClosing ==
  ASSUME NEW x, NEW q \in Seq(OpType), NEW op \in OpType, Separated(x, q), ~Closes(q),
         IsClosing(op), x = << >> => q # << >>
  PROVE  Separated(x, Append(q, op)) /\ Closes(Append(q, op))
<1> DEFINE r == Append(q, op)
<1>1. /\ Len(r) = Len(q) + 1 /\ Len(q) \in Nat /\ r[Len(q) + 1] = op
      /\ \A i \in 1..Len(q) : r[i] = q[i]
      /\ q = << >> <=> Len(q) = 0
  BY AppendProperties, LenProperties, EmptySeq
<1> HIDE DEF r
<1>2. \A k \in 1..Len(r) : (k \in 1..Len(q) /\ r[k] = q[k]) \/ (k = Len(q) + 1 /\ r[k] = op)
  BY <1>1
<1>3. \A sep \in Separators : \A b \in Sinks : \A n \in Nat : op.data # EventData(sep, b, n)
  BY EventsDoNotClose
<1>4. \A k \in 1..Len(q) : ~IsClosing(q[k])
  BY DEF Closes
<1>5. ASSUME NEW k \in 1..Len(r), IsClosing(r[k]) PROVE k = Len(r) /\ (x # << >> \/ k # 1)
  <2>1. k = Len(q) + 1
    BY <1>2, <1>4, <1>5
  <2> QED
    BY <1>1, <2>1
<1>6. ASSUME NEW k \in 1..Len(r), NEW sep \in Separators, NEW b \in Sinks, NEW n \in Nat,
             r[k].data = EventData(sep, b, n)
      PROVE  sep = "[" <=> x = << >> /\ k = 1
  BY <1>2, <1>3, <1>6 DEF Separated
<1>7. Len(r) \in 1..Len(r) /\ IsClosing(r[Len(r)])
  BY <1>1
<1> QED
  BY <1>5, <1>6, <1>7 DEF Separated, Closes, r

LEMMA WriteEvent ==
  ASSUME NEW x \in FileType, NEW q \in Seq(OpType), NEW op \in OpType,
         HalfOpen(x), Separated(x, <<op>> \o q),
         NEW sep \in Separators, NEW b \in Sinks, NEW n \in Nat, op.data = EventData(sep, b, n)
  PROVE  /\ HalfOpen(x \o op.data) /\ Separated(x \o op.data, q) /\ x \o op.data # << >>
         /\ Closes(<<op>> \o q) <=> Closes(q)
<1> DEFINE p == <<op>> \o q
           y == op.data
           z == x \o y
<1>1. /\ Len(p) = Len(q) + 1 /\ Len(q) \in Nat /\ p[1] = op
      /\ \A k \in 1..Len(q) : p[k + 1] = q[k]
  BY InFront, LenProperties
<1>2. <<sep, 0>> \in Tokens \X Nat /\ <<b, n>> \in Tokens \X Nat
  BY MarkTokens DEF Separators, Marks, Assemblers
<1>3. y \in FileType /\ Len(y) = 2 /\ y[1] = <<sep, 0>> /\ y[2] = <<b, n>>
  BY <1>2 DEF EventData, FileType
<1> HIDE DEF y
<1>4. /\ Len(z) = Len(x) + Len(y) /\ Len(x) \in Nat
      /\ \A i \in 1..Len(x) : z[i] = x[i]
      /\ \A i \in 1..Len(y) : z[Len(x) + i] = y[i]
      /\ x = << >> <=> Len(x) = 0
      /\ z = << >> <=> Len(z) = 0
  BY <1>3, FileConcat
<1> HIDE DEF p, y, z
<1>5. Len(z) = Len(x) + 2 /\ z[Len(x) + 1] = <<sep, 0>> /\ z[Len(x) + 2] = <<b, n>> /\ z # << >>
  BY <1>3, <1>4
<1>6. sep = "[" <=> x = << >>
  <2>1. 1 \in 1..Len(p)
    BY <1>1
  <2> QED
    BY <1>1, <2>1 DEF Separated, p
<1>7. sep # "[" => sep = ","
  BY DEF Separators
<1>8. \A k \in 1..Len(z) : (k \in 1..Len(x) /\ z[k] = x[k]) \/ k = Len(x) + 1 \/ k = Len(x) + 2
  BY <1>4, <1>5
<1>9. HalfOpen(z)
  <2>1. Len(x) % 2 = 0
    BY DEF HalfOpen
  <2>2. Len(z) % 2 = 0 /\ (Len(x) + 1) % 2 = 1 /\ (Len(x) + 2) % 2 = 0
    BY <1>4, <1>5, <2>1, Parity
  <2>3. ASSUME NEW k \in 1..Len(z)
        PROVE  /\ k = 1 => z[k][1] = "["
               /\ k % 2 = 1 /\ k # 1 => z[k][1] = ","
               /\ k % 2 = 0 => z[k][1] \in Sinks
    <3>1. CASE k \in 1..Len(x) /\ z[k] = x[k]
      BY <3>1 DEF HalfOpen
    <3>2. CASE k = Len(x) + 1
      <4>1. z[k] = <<sep, 0>> /\ k % 2 = 1
        BY <1>5, <2>2, <3>2
      <4>2. k = 1 <=> x = << >>
        BY <1>4, <3>2
      <4>3. z[k][1] = sep /\ ~(k % 2 = 0)
        BY <4>1
      <4> QED
        BY <1>6, <1>7, <4>2, <4>3
    <3>3. CASE k = Len(x) + 2
      <4>1. z[k] = <<b, n>> /\ k % 2 = 0
        BY <1>5, <2>2, <3>3
      <4>2. k # 1
        BY <1>4, <3>3
      <4>3. z[k][1] = b /\ ~(k % 2 = 1)
        BY <4>1
      <4> QED
        BY <4>2, <4>3
    <3> QED
      BY <1>8, <3>1, <3>2, <3>3
  <2> QED
    BY <2>2, <2>3 DEF HalfOpen
<1>10. Separated(z, q)
  <2>1. ASSUME NEW k \in 1..Len(q), IsClosing(q[k]) PROVE k = Len(q)
    <3>1. k + 1 \in 1..Len(p) /\ p[k + 1] = q[k]
      BY <1>1
    <3>2. k + 1 = Len(p)
      BY <2>1, <3>1 DEF Separated, p
    <3> QED
      BY <1>1, <3>2
  <2>2. ASSUME NEW k \in 1..Len(q), NEW sep2 \in Separators, NEW c \in Sinks, NEW m \in Nat,
               q[k].data = EventData(sep2, c, m)
        PROVE  sep2 # "["
    <3>1. k + 1 \in 1..Len(p) /\ p[k + 1] = q[k] /\ k + 1 # 1
      BY <1>1
    <3> QED
      BY <2>2, <3>1 DEF Separated, p
  <2> QED
    BY <1>5, <2>1, <2>2 DEF Separated
<1>11. Closes(p) <=> Closes(q)
  <2>1. ~IsClosing(op)
    BY EventsDoNotClose
  <2>2. ASSUME NEW k \in 1..Len(p), IsClosing(p[k]) PROVE Closes(q)
    <3>1. k # 1
      BY <1>1, <2>1, <2>2
    <3>2. k - 1 \in 1..Len(q) /\ (k - 1) + 1 = k
      BY <1>1, <3>1
    <3>3. q[k - 1] = p[k]
      BY <1>1, <3>2
    <3> QED
      BY <2>2, <3>2, <3>3 DEF Closes
  <2>3. ASSUME NEW k \in 1..Len(q), IsClosing(q[k]) PROVE Closes(p)
    <3>1. k + 1 \in 1..Len(p) /\ p[k + 1] = q[k]
      BY <1>1
    <3> QED
      BY <2>3, <3>1 DEF Closes
  <2> QED
    BY <2>2, <2>3 DEF Closes
<1> QED
  BY <1>5, <1>9, <1>10, <1>11 DEF p, y, z

LEMMA WriteClosing ==
  ASSUME NEW x \in FileType, NEW q \in Seq(OpType), NEW op \in OpType,
         HalfOpen(x), Separated(x, <<op>> \o q), IsClosing(op)
  PROVE  Array(x \o op.data) /\ q = << >> /\ Closes(<<op>> \o q)
<1> DEFINE p == <<op>> \o q
           y == op.data
           z == x \o y
<1>1. /\ Len(p) = Len(q) + 1 /\ Len(q) \in Nat /\ p[1] = op /\ (q = << >> <=> Len(q) = 0)
  BY InFront, LenProperties, EmptySeq
<1>2. y \in FileType /\ Len(y) = 1 /\ y[1] = <<"]", 0>>
  <2>1. << <<"]", 0>> >> \in FileType
    BY MarkTokens
  <2>2. y = << <<"]", 0>> >>
    BY DEF IsClosing, ClosingData
  <2> HIDE DEF y
  <2> QED
    BY <2>1, <2>2
<1> HIDE DEF y
<1>3. /\ Len(z) = Len(x) + Len(y) /\ Len(x) \in Nat
      /\ \A i \in 1..Len(x) : z[i] = x[i]
      /\ \A i \in 1..Len(y) : z[Len(x) + i] = y[i]
      /\ x = << >> <=> Len(x) = 0
  BY <1>2, FileConcat
<1> HIDE DEF p, z
<1>4. Len(z) = Len(x) + 1 /\ z[Len(z)][1] = "]"
  BY <1>2, <1>3
<1>5. q = << >> /\ x # << >>
  <2>1. 1 \in 1..Len(p) /\ IsClosing(p[1])
    BY <1>1
  <2>2. 1 = Len(p) /\ x # << >>
    BY <2>1 DEF Separated, p
  <2> QED
    BY <1>1, <2>2
<1>6. Array(z)
  <2>1. Len(x) % 2 = 0 /\ Len(x) # 0
    BY <1>3, <1>5 DEF HalfOpen
  <2>2. Len(z) % 2 = 1 /\ 1 \in 1..Len(x)
    BY <1>3, <1>4, <2>1
  <2>3. z[1][1] = "["
    BY <1>3, <2>2 DEF HalfOpen
  <2>4. ASSUME NEW k \in 2..(Len(z) - 1)
        PROVE  IF k % 2 = 1 THEN z[k][1] = "," ELSE z[k][1] \in Sinks
    <3>1. k \in 1..Len(x) /\ k # 1 /\ (k % 2 = 1 \/ k % 2 = 0)
      BY <1>3, <1>4
    <3>2. z[k] = x[k]
      BY <1>3, <3>1
    <3> QED
      BY <3>1, <3>2 DEF HalfOpen
  <2> QED
    BY <1>4, <2>2, <2>3, <2>4 DEF Array
<1>7. Closes(p)
  <2>1. 1 \in 1..Len(p)
    BY <1>1
  <2> QED
    BY <1>1, <2>1 DEF Closes
<1> QED
  BY <1>5, <1>6, <1>7 DEF p, y, z

\* Nothing happens to the timeline, nor to who finishes it.
LEMMA TimelineStands ==
  ASSUME NEW f \in JsonFiles, Timeline(f), Pending(f)' = Pending(f),
         files'[Whole(f)] = files[Whole(f)], f \notin left' <=> f \notin left,
         pc'[Main] = f /\ out'[Main] = << >> <=> pc[Main] = f /\ out[Main] = << >>
  PROVE  Timeline(f)'
<1>1. Sealed(f)' = Sealed(f)
  BY DEF Sealed
<1> QED
  BY <1>1 DEF Timeline

\* Once the assemblers are through, nobody but Main queues anything.
LEMMA AssemblersAtWork ==
  ASSUME Types, Shapes, NEW p \in Assemblers, out[p] # << >>
  PROVE  pc[Main] = "wait" /\ left = JsonFiles
BY DEF Shapes, Resting

LEMMA NoneAfterReturn ==
  ASSUME Types, Shapes, pc[Main] = "done"
  PROVE  \A p \in Actors : out[p] = << >>
<1>1. \A p \in Assemblers : out[p] = << >>
  BY DEF Shapes, Resting
<1>2. out[Main] = << >>
  BY MainFacts DEF Shapes, MainOut
<1> QED
  BY <1>1, <1>2 DEF Actors

\* A sink opens the timeline with its event.
LEMMA OpenTimeline ==
  ASSUME NEW op \in OpType, NEW b \in Sinks, NEW n \in Nat, op.data = EventData("[", b, n)
  PROVE  /\ Separated(<< >>, Append(<< >>, op)) /\ ~Closes(Append(<< >>, op))
         /\ Append(<< >>, op) # << >>
<1> DEFINE none == << >>
<1>1. none \in Seq(OpType) /\ Len(none) = 0
  BY EmptySeq
<1>2. Separated(none, none) /\ ~Closes(none)
  <2>1. 1..0 = {}
    OBVIOUS
  <2> HIDE DEF none
  <2> QED
    BY <1>1, <2>1 DEF Separated, Closes
<1>3. "[" \in Separators /\ ("[" = "[" <=> none = << >> /\ none = << >>)
  BY DEF Separators
<1>a. none = << >>
  OBVIOUS
<1> HIDE DEF none
<1>4. Separated(none, Append(none, op)) /\ ~Closes(Append(none, op))
  BY <1>1, <1>2, <1>3, <1>a, QueueEvent
<1>5. Append(none, op) # << >>
  BY <1>1, AppendProperties
<1> QED
  BY <1>a, <1>4, <1>5

LEMMA EnqueueTimeline ==
  ASSUME Types, Types', IInv, IInv', Shapes, Timelines, NEW p \in Actors, Enqueue(p), ok,
         verdict[Main] # "failed", NEW f \in JsonFiles, opened'[f]
  PROVE  Timeline(f)'
<1>0. PICK e : e = Head(out[p])
  OBVIOUS
<1>a. PICK s : s = e.stream
  OBVIOUS
<1>1. /\ out[p] # << >> /\ e \in EntryType /\ s \in Streams /\ QueuedOp(e) \in OpType
      /\ files' = IF First(e) THEN [files EXCEPT ![Whole(s)] = << >>] ELSE files
      /\ opened' = [opened EXCEPT ![s] = @ \/ e.prefix]
      /\ out' = [out EXCEPT ![p] = Tail(@)]
      /\ UNCHANGED <<pc, left>>
  BY <1>0, <1>a, EnqueueEffect
<1>2. /\ Pending(s)' = Append(Pending(s), QueuedOp(e))
      /\ \A u \in Streams : u # s => Pending(u)' = Pending(u)
  BY <1>0, <1>a, EnqueuePending
<1>3. \/ p \in Sinks /\ EventEntry(p, e)
      \/ p \in Tables /\ TableEntry(p, e)
      \/ /\ p = Main
         /\ \E g \in JsonFiles :
              /\ pc[Main] = g /\ opened[g] /\ out[Main] = <<Close(g)>> /\ e = Close(g)
              /\ QueuedOp(e) = Write(Whole(g), ClosingData)
  BY <1>0, NextEntry
<1>4. /\ f \in Streams /\ f \notin Tables /\ f # "wait" /\ Whole(f) \in Names
      /\ out \in [Actors -> Seq(EntryType)] /\ opened \in [Streams -> BOOLEAN]
      /\ files \in [Names -> FileType] /\ Main \in Actors /\ Main \notin Sinks /\ Main \notin Tables
  BY MainFacts
<1>5. opened[f] => Timeline(f)
  BY DEF Timelines
<1>6. p # Main => out'[Main] = out[Main]
  BY <1>1, <1>4
<1>7. Pending(f) \in Seq(OpType)
  BY <1>4, PendingType
<1>8. CASE f # s
  <2>1. opened[f] /\ Pending(f)' = Pending(f) /\ files'[Whole(f)] = files[Whole(f)]
    <3>1. Whole(f) # Whole(s)
      BY <1>1, <1>4, <1>8, FileNames
    <3>2. opened[f]
      BY <1>1, <1>4, <1>8
    <3>3. files'[Whole(f)] = files[Whole(f)]
      BY <1>1, <1>4, <3>1
    <3> QED
      BY <1>2, <1>4, <1>8, <3>2, <3>3
  <2>2. pc'[Main] = f /\ out'[Main] = << >> <=> pc[Main] = f /\ out[Main] = << >>
    <3>1. CASE p # Main
      BY <1>1, <1>6, <3>1
    <3>2. CASE p = Main
      <4>1. PICK g \in JsonFiles : pc[Main] = g /\ e = Close(g)
        BY <1>3, <1>4, <3>2
      <4>2. g = s
        BY <1>a, <4>1 DEF Close, Entry
      <4> QED
        BY <1>1, <1>8, <4>1, <4>2
    <3> QED
      BY <3>1, <3>2
  <2> QED
    BY <1>1, <1>5, <2>1, <2>2, TimelineStands
<1>9. CASE f = s /\ p \in Sinks /\ EventEntry(p, e)
  <2>1. /\ e.stream \in JsonFiles /\ e.prefix = TRUE /\ NumberOf(e) \in Nat
        /\ \E sep \in Separators : /\ sep = "[" <=> ~opened[e.stream]
                                   /\ QueuedOp(e).data = EventData(sep, p, NumberOf(e))
    BY <1>9, EventOp
  <2>2. PICK sep \in Separators : /\ sep = "[" <=> ~opened[f]
                                  /\ QueuedOp(e).data = EventData(sep, p, NumberOf(e))
    BY <1>a, <1>9, <2>1
  <2>3. pc[Main] = "wait" /\ left = JsonFiles
    BY <1>1, <1>9, AssemblersAtWork DEF Assemblers
  <2>4. ~(f \notin left \/ (pc[Main] = f /\ out[Main] = << >>))
    BY <1>4, <2>3
  <2>5. ~(f \notin left' \/ (pc'[Main] = f /\ out'[Main] = << >>))
    BY <1>1, <1>4, <2>3
  <2>6. CASE ~opened[f]
    <3>1. First(e) /\ files'[Whole(f)] = << >>
      BY <1>a, <1>1, <1>4, <1>9, <2>1, <2>6 DEF First
    <3>2. Pending(f) = << >>
      BY <2>6 DEF Shapes, Unopened
    <3>3. QueuedOp(e).data = EventData("[", p, NumberOf(e))
      BY <2>2, <2>6
    <3>4. /\ Separated(<< >>, Append(<< >>, QueuedOp(e))) /\ ~Closes(Append(<< >>, QueuedOp(e)))
          /\ Append(<< >>, QueuedOp(e)) # << >>
      BY <1>1, <1>9, <2>1, <3>3, OpenTimeline
    <3>5. Pending(f)' = Append(<< >>, QueuedOp(e))
      BY <1>2, <1>9, <3>2
    <3>6. Separated(<< >>, Pending(f)') /\ ~Closes(Pending(f)') /\ Pending(f)' # << >>
      BY <3>4, <3>5
    <3>7. ~Sealed(f)'
      BY <3>1, <3>6, NothingWritten DEF Sealed
    <3> QED
      BY <2>5, <3>1, <3>6, <3>7, NothingWritten DEF Timeline
  <2>7. CASE opened[f]
    <3>1. Timeline(f) /\ ~Sealed(f)
      BY <1>5, <2>4, <2>7 DEF Timeline
    <3>2. /\ HalfOpen(files[Whole(f)]) /\ Separated(files[Whole(f)], Pending(f))
          /\ files[Whole(f)] = << >> => Pending(f) # << >>
          /\ ~Closes(Pending(f))
      BY <3>1 DEF Timeline, Sealed
    <3>3. sep = "[" <=> files[Whole(f)] = << >> /\ Pending(f) = << >>
      BY <2>2, <2>7, <3>2
    <3>4. /\ Separated(files[Whole(f)], Append(Pending(f), QueuedOp(e)))
          /\ ~Closes(Append(Pending(f), QueuedOp(e)))
      BY <1>1, <1>7, <1>9, <2>1, <2>2, <3>2, <3>3, QueueEvent
    <3>5. files'[Whole(f)] = files[Whole(f)]
      BY <1>a, <1>1, <1>9, <2>7 DEF First
    <3>6. Separated(files'[Whole(f)], Pending(f)') /\ ~Closes(Pending(f)')
      BY <1>2, <1>9, <3>4, <3>5
    <3>7. Pending(f)' # << >>
      BY <1>1, <1>2, <1>7, <1>9, AppendProperties
    <3>8. ~Sealed(f)'
      BY <3>2, <3>5, <3>6, NotBoth DEF Sealed
    <3> QED
      BY <2>5, <3>2, <3>5, <3>6, <3>7, <3>8 DEF Timeline
  <2> QED
    BY <2>6, <2>7
<1>10. CASE f = s /\ p = Main
  <2>1. PICK g \in JsonFiles : /\ pc[Main] = g /\ opened[g] /\ out[Main] = <<Close(g)>> /\ e = Close(g)
                               /\ QueuedOp(e) = Write(Whole(g), ClosingData)
    BY <1>3, <1>4, <1>10
  <2>2. g = f
    BY <1>a, <1>10, <2>1 DEF Close, Entry
  <2>3. f \in left /\ out[Main] # << >>
    BY <1>1, <1>10, <2>1, <2>2 DEF Timelines
  <2>4. Timeline(f) /\ ~Sealed(f)
    BY <1>5, <2>1, <2>2, <2>3 DEF Timeline
  <2>5. /\ HalfOpen(files[Whole(f)]) /\ Separated(files[Whole(f)], Pending(f))
        /\ files[Whole(f)] = << >> => Pending(f) # << >>
        /\ ~Closes(Pending(f))
    BY <2>4 DEF Timeline, Sealed
  <2>6. IsClosing(QueuedOp(e))
    BY <2>1 DEF IsClosing, Write
  <2>7. /\ Separated(files[Whole(f)], Append(Pending(f), QueuedOp(e)))
        /\ Closes(Append(Pending(f), QueuedOp(e)))
    BY <1>1, <1>7, <2>5, <2>6, QueueClosing
  <2>8. ~First(e)
    BY <2>1 DEF First, Close, Entry
  <2>9. files'[Whole(f)] = files[Whole(f)]
    BY <1>1, <2>8
  <2>10. Separated(files'[Whole(f)], Pending(f)') /\ Closes(Pending(f)')
    BY <1>2, <1>10, <2>7, <2>9
  <2>11. Pending(f)' # << >>
    BY <1>1, <1>2, <1>7, <1>10, AppendProperties
  <2>12. pc'[Main] = f /\ out'[Main] = << >> /\ f \in left'
    <3>1. out'[Main] = Tail(out[Main])
      BY <1>1, <1>4, <1>10
    <3>2. Tail(<<Close(g)>>) = << >>
      OBVIOUS
    <3> QED
      BY <1>1, <2>1, <2>2, <2>3, <3>1, <3>2
  <2> QED
    BY <2>5, <2>9, <2>10, <2>11, <2>12 DEF Timeline, Sealed
<1>11. ~(f = s /\ p \in Tables /\ TableEntry(p, e))
  BY <1>a, <1>4 DEF TableEntry
<1> QED
  BY <1>3, <1>8, <1>9, <1>10, <1>11

LEMMA DrainTimeline ==
  ASSUME Types, Types', IInv, IInv', Shapes, DrainEffect, ok',
         NEW f \in JsonFiles, Timeline(f)
  PROVE  Timeline(f)'
<1>1. PICK s \in Streams : Effect(s) /\ \A u \in Streams : u # s => Pending(u)' = Pending(u)
  BY DEF DrainEffect
<1>2. f \in Streams /\ files[Whole(f)] \in FileType /\ UNCHANGED <<pc, out, left>>
  BY MainFacts DEF DrainEffect, Untold
<1>3. Quiet(s) \/ \E op \in OpType : Wrote(s, op)
  BY <1>1 DEF Effect, Lost, GivenUp
<1>4. CASE Quiet(s) \/ f # s
  <2>1. Pending(f)' = Pending(f)
    BY <1>1, <1>2, <1>4 DEF Quiet
  <2>2. files'[Whole(f)] = files[Whole(f)]
    <3>1. CASE Quiet(s)
      BY <3>1 DEF Quiet
    <3>2. CASE f # s /\ \E op \in OpType : Wrote(s, op)
      BY <3>2, WroteFiles
    <3> QED
      BY <1>3, <1>4, <3>1, <3>2
  <2> QED
    BY <1>2, <2>1, <2>2, TimelineStands
<1>5. CASE f = s /\ \E op \in OpType : Wrote(s, op)
  <2>1. PICK op \in OpType : Wrote(f, op)
    BY <1>5
  <2>2. OpOf(f, op) /\ files'[Whole(f)] = files[Whole(f)] \o op.data /\ Pending(f) # << >>
    BY <1>2, <2>1, WroteFiles
  <2>3. Pending(f)' \in Seq(OpType) /\ Pending(f) = <<op>> \o Pending(f)'
    BY <1>2, <2>1, NextPendingType DEF Wrote
  <2>4. PICK q \in Seq(OpType) : q = Pending(f)'
    BY <2>3
  <2>5. PICK x \in FileType : x = files[Whole(f)]
    BY <1>2
  <2>6. PICK z : z = x \o op.data
    OBVIOUS
  <2>7. Pending(f) = <<op>> \o q /\ files'[Whole(f)] = z
    BY <2>2, <2>3, <2>4, <2>5, <2>6
  <2>8. HalfOpen(x) /\ Separated(x, <<op>> \o q) /\ f \in left /\ ~Array(x)
    <3>1. HalfOpen(x) /\ Separated(x, Pending(f)) /\ f \in left
      BY <2>2, <2>5 DEF Timeline
    <3> QED
      BY <2>7, <3>1, NotBoth
  <2>9. Sealed(f) <=> Closes(<<op>> \o q)
    BY <2>5, <2>7, <2>8 DEF Sealed
  <2>10. Sealed(f)' <=> Array(z) \/ Closes(q)
    BY <2>4, <2>7 DEF Sealed
  <2>11. CASE \E sep \in Separators : \E b \in Sinks : \E n \in Nat : op.data = EventData(sep, b, n)
    <3>1. /\ HalfOpen(z) /\ Separated(z, q) /\ z # << >>
          /\ Closes(<<op>> \o q) <=> Closes(q)
      BY <2>6, <2>8, <2>11, WriteEvent
    <3>2. ~Array(z)
      BY <3>1, NotBoth
    <3>3. Sealed(f)' <=> Sealed(f)
      BY <2>9, <2>10, <3>1, <3>2
    <3> QED
      BY <1>2, <2>4, <2>7, <2>8, <3>1, <3>3 DEF Timeline
  <2>12. CASE op.data = ClosingData
    <3>1. Array(z) /\ q = << >> /\ Closes(<<op>> \o q)
      BY <2>6, <2>8, <2>12, WriteClosing DEF IsClosing
    <3>2. Sealed(f)' /\ Sealed(f)
      BY <2>9, <2>10, <3>1
    <3> QED
      BY <1>2, <2>4, <2>7, <2>8, <3>1, <3>2 DEF Timeline
  <2> QED
    BY <2>2, <2>11, <2>12 DEF OpOf, JsonOp
<1> QED
  BY <1>3, <1>4, <1>5

\* What was delivered stays delivered.
LEMMA FinishedStays ==
  ASSUME Types, Types', IInv, IInv', Shapes, DrainEffect, NEW f \in JsonFiles, Finished(f)
  PROVE  Finished(f)'
<1> SUFFICES ASSUME opened'[f] PROVE Array(files[Whole(f)])' /\ Pending(f)' = << >>
  BY DEF Finished
<1>1. PICK s \in Streams : Effect(s) /\ \A u \in Streams : u # s => Pending(u)' = Pending(u)
  BY DEF DrainEffect
<1>2. f \in Streams /\ Array(files[Whole(f)]) /\ Pending(f) = << >>
  BY FileNames DEF DrainEffect, Untold, Finished
<1>3. CASE f # s
  <2>1. files'[Whole(f)] = files[Whole(f)]
    <3>1. CASE \E op \in OpType : Wrote(s, op)
      BY <1>3, <3>1, WroteFiles
    <3> QED
      BY <1>1, <3>1 DEF Effect, Quiet, Lost, GivenUp
  <2> QED
    BY <1>1, <1>2, <1>3, <2>1
<1>4. CASE f = s
  <2>1. ASSUME NEW op \in OpType, Wrote(f, op) PROVE FALSE
    BY <1>2, <2>1, WroteFiles
  <2>2. Quiet(f) \/ GivenUp(f)
    BY <1>1, <1>2, <1>4, <2>1 DEF Effect, Lost
  <2> QED
    BY <1>2, <2>2 DEF Quiet, GivenUp
<1> QED
  BY <1>3, <1>4

\* A step that neither touches a timeline nor who finishes it.
LEMMA TimelinesStand ==
  ASSUME Timelines, UNCHANGED <<queue, at, hand, opened, left>>, ok' => ok,
         \A f \in JsonFiles : files'[Whole(f)] = files[Whole(f)],
         pc'[Main] = pc[Main], out'[Main] = out[Main], verdict'[Main] = verdict[Main]
  PROVE  Timelines'
<1>1. \A f \in JsonFiles : Pending(f)' = Pending(f)
  BY StillPending, FileNames
<1>2. ASSUME NEW f \in JsonFiles, Timeline(f) PROVE Timeline(f)'
  BY <1>1, <1>2, TimelineStands
<1>3. ASSUME NEW f \in JsonFiles, Finished(f) PROVE Finished(f)'
  BY <1>1, <1>3 DEF Finished
<1>4. ok' /\ verdict'[Main] # "failed" => \A f \in JsonFiles : opened'[f] => Timeline(f)'
  BY <1>2 DEF Timelines
<1>5. verdict'[Main] = "ok" => pc'[Main] = "done" /\ \A f \in JsonFiles : Finished(f)'
  BY <1>3 DEF Timelines
<1>6. /\ \A f \in JsonFiles : pc'[Main] = f => f \in left'
      /\ pc'[Main] # "done" => verdict'[Main] # "ok"
  BY DEF Timelines
<1> QED
  BY <1>4, <1>5, <1>6 DEF Timelines

LEMMA FinisherKeepsTimelines ==
  ASSUME Types, IInv, Shapes, Timelines, Finisher
  PROVE  Timelines'
<1>1. UNCHANGED <<queue, at, hand, opened, ok, files>>
  BY DEF Finisher, Return, FinishStream, StreamFinished, streamVars, drainVars
<1>2. \A f \in JsonFiles : Pending(f)' = Pending(f)
  BY <1>1, StillPending, FileNames
<1>3. /\ Main \in Actors /\ out \in [Actors -> Seq(EntryType)] /\ pc \in [Actors -> PcValues]
      /\ verdict \in [Actors -> {"none", "ok", "failed", "discarded"}]
      /\ \A f \in JsonFiles : f \in Streams /\ f # "wait" /\ f # "done"
  BY MainFacts
<1>4. pc[Main] # "done"
  BY <1>3 DEF Finisher, Return, FinishStream, StreamFinished
<1>5. verdict[Main] # "ok"
  BY <1>4 DEF Timelines
<1>6. ok /\ verdict[Main] # "failed" => \A f \in JsonFiles : opened[f] => Timeline(f)
  BY DEF Timelines
<1>7. ASSUME NEW g \in JsonFiles, FinishStream(g) PROVE Timelines'
  <2>1. /\ pc[Main] = "wait" /\ g \in left /\ pc'[Main] = g /\ UNCHANGED <<left, verdict>>
        /\ opened[g] => out'[Main] # << >>
    BY <1>3, <1>7 DEF FinishStream
  <2>2. ASSUME NEW f \in JsonFiles, ok, verdict[Main] # "failed", opened[f] PROVE Timeline(f)'
    <3>1. pc'[Main] = f /\ out'[Main] = << >> <=> pc[Main] = f /\ out[Main] = << >>
      BY <1>3, <2>1, <2>2
    <3> QED
      BY <1>1, <1>2, <1>6, <2>1, <2>2, <3>1, TimelineStands
  <2> QED
    BY <1>1, <1>5, <2>1, <2>2 DEF Timelines
<1>8. ASSUME NEW g \in JsonFiles, StreamFinished(g) PROVE Timelines'
  <2>1. /\ pc[Main] = g /\ out[Main] = << >> /\ Drained(g)
        /\ pc'[Main] = "wait" /\ left' = left \ {g} /\ UNCHANGED <<verdict, out>>
    BY <1>3, <1>8 DEF StreamFinished, Idle
  <2>2. Pending(g) = << >>
    BY <1>3, <2>1, DrainedPending
  <2>3. ASSUME NEW f \in JsonFiles, ok, verdict[Main] # "failed", opened[f] PROVE Timeline(f)'
    <3>0. Timeline(f)
      BY <1>6, <2>3
    <3>1. CASE f = g
      <4>1. Sealed(f)' = Sealed(f)
        BY <1>1, <1>2 DEF Sealed
      <4>2. Sealed(f) /\ f \notin left'
        BY <2>1, <3>0, <3>1 DEF Timeline
      <4> QED
        BY <1>1, <1>2, <2>2, <3>0, <3>1, <4>1, <4>2 DEF Timeline
    <3>2. CASE f # g
      <4>1. f \notin left' <=> f \notin left
        BY <2>1, <3>2
      <4>2. pc'[Main] # f /\ pc[Main] # f
        BY <1>3, <2>1, <3>2
      <4> QED
        BY <1>1, <1>2, <3>0, <4>1, <4>2, TimelineStands
    <3> QED
      BY <3>1, <3>2
  <2> QED
    BY <1>1, <1>3, <1>5, <2>1, <2>3 DEF Timelines
<1>9. CASE Return
  <2>1. /\ pc[Main] = "wait" /\ left = {} /\ pc'[Main] = "done" /\ UNCHANGED <<left, out>>
        /\ verdict'[Main] = "ok" => ok /\ verdict[Main] # "failed"
        /\ verdict'[Main] # "ok" => verdict'[Main] = "failed"
    <3>1. verdict'[Main] = IF ok /\ verdict[Main] = "none" THEN "ok" ELSE "failed"
      BY <1>3, <1>9 DEF Return
    <3> QED
      BY <1>3, <1>9, <3>1 DEF Return
  <2>2. ASSUME NEW f \in JsonFiles, ok, verdict[Main] # "failed", opened[f]
        PROVE  Timeline(f)' /\ Finished(f)'
    <3>1. Timeline(f)
      BY <1>6, <2>2
    <3>2. pc'[Main] # f /\ pc[Main] # f
      BY <1>3, <2>1
    <3>3. Timeline(f)'
      BY <1>1, <1>2, <2>1, <3>1, <3>2, TimelineStands
    <3>4. Pending(f) = << >> /\ Sealed(f)
      BY <2>1, <3>1 DEF Timeline
    <3>5. Array(files[Whole(f)])
      BY <3>4, NothingWritten DEF Sealed
    <3> QED
      BY <1>1, <1>2, <3>3, <3>4, <3>5 DEF Finished
  <2>3. ok /\ verdict[Main] # "failed" => \A f \in JsonFiles : Finished(f)'
    <3> SUFFICES ASSUME ok, verdict[Main] # "failed", NEW f \in JsonFiles PROVE Finished(f)'
      OBVIOUS
    <3>1. CASE opened[f]
      BY <2>2, <3>1
    <3>2. CASE ~opened[f]
      BY <1>1, <3>2 DEF Finished
    <3> QED
      BY <3>1, <3>2
  <2>4. \A f \in JsonFiles : pc'[Main] # f
    BY <1>3, <2>1
  <2> QED
    BY <1>1, <2>1, <2>2, <2>3, <2>4 DEF Timelines
<1> QED
  BY <1>7, <1>8, <1>9 DEF Finisher

LEMMA EnqueueKeepsTimelines ==
  ASSUME Types, Types', IInv, IInv', Shapes, Timelines, NEW p \in Actors, Enqueue(p)
  PROVE  Timelines'
<1>1. out[p] # << >> /\ UNCHANGED <<pc, verdict, left, ok>>
  BY EnqueueEffect
<1>2. pc[Main] # "done"
  BY <1>1, NoneAfterReturn
<1>3. verdict[Main] # "ok"
  BY <1>2 DEF Timelines
<1>4. ok' /\ verdict'[Main] # "failed" => \A f \in JsonFiles : opened'[f] => Timeline(f)'
  BY <1>1, EnqueueTimeline
<1> QED
  BY <1>1, <1>3, <1>4 DEF Timelines

\* A sink or a table that is through leaves the timelines as they are, and when it is the
\* finisher itself the run has failed.
LEMMA StartThrowsKeepsTimelines ==
  ASSUME Types, Shapes, Timelines, NEW p \in Actors, StartThrows(p)
  PROVE  Timelines'
<1>1. /\ out' = [out EXCEPT ![p] = << >>]
      /\ pc' = [pc EXCEPT ![p] = IF p = Main THEN "wait" ELSE "done"]
      /\ verdict' = [verdict EXCEPT ![p] = "failed"]
      /\ p # Main => left' = left
      /\ UNCHANGED <<opened, queue, at, hand, ok>> /\ out[p] # << >>
  BY StartThrowsFrame
<1>2. /\ out \in [Actors -> Seq(EntryType)] /\ pc \in [Actors -> PcValues] /\ Main \in Actors
      /\ verdict \in [Actors -> {"none", "ok", "failed", "discarded"}]
      /\ \A f \in JsonFiles : f # "wait"
  BY MainFacts
<1>3. CASE p = Main
  <2>1. pc'[Main] = "wait" /\ verdict'[Main] = "failed"
    BY <1>1, <1>2, <1>3
  <2> QED
    BY <1>2, <2>1 DEF Timelines
<1>4. CASE p # Main
  <2>1. pc'[Main] = pc[Main] /\ out'[Main] = out[Main] /\ verdict'[Main] = verdict[Main]
    BY <1>1, <1>2, <1>4
  <2>2. pc[Main] # "done" /\ verdict[Main] # "ok"
    BY <1>1, NoneAfterReturn DEF Timelines
  <2>3. ASSUME NEW f \in JsonFiles, opened[f], Timeline(f) PROVE Timeline(f)'
    <3>1. files'[Whole(f)] = files[Whole(f)]
      BY <2>3, StartThrowsFiles
    <3>2. Pending(f)' = Pending(f)
      BY <1>1, StillPending, FileNames
    <3> QED
      BY <1>1, <1>4, <2>1, <2>3, <3>1, <3>2, TimelineStands
  <2> QED
    BY <1>1, <1>4, <2>1, <2>2, <2>3 DEF Timelines
<1> QED
  BY <1>3, <1>4

LEMMA InitTimelines == Init => Timelines
<1> SUFFICES ASSUME Init PROVE Timelines
  OBVIOUS
<1>1. Types
  BY InitTypes
<1>2. Main \in Actors /\ \A f \in JsonFiles : f \in Streams
  BY <1>1, MainFacts
<1>3. verdict[Main] = "none" /\ left = JsonFiles /\ \A f \in JsonFiles : ~opened[f]
  BY <1>2 DEF Init
<1> QED
  BY <1>3 DEF Timelines

LEMMA NextKeepsTimelines ==
  ASSUME Types, Types', IInv, IInv', Shapes, Timelines, [Next]_vars
  PROVE  Timelines'
<1>1. CASE DrainEffect
  <2>1. UNCHANGED <<pc, out, verdict, left, opened>> /\ (ok' => ok)
    <3>1. ok' = ok \/ ok' = FALSE
      BY <1>1 DEF DrainEffect, Effect, Quiet, Lost, GivenUp, Wrote
    <3>2. ok' => ok
      BY <3>1
    <3> QED
      BY <1>1, <3>2 DEF DrainEffect, Untold
  <2>2. ok' /\ verdict'[Main] # "failed" => \A f \in JsonFiles : opened'[f] => Timeline(f)'
    BY <1>1, <2>1, DrainTimeline DEF Timelines
  <2>3. verdict'[Main] = "ok" => \A f \in JsonFiles : Finished(f)'
    BY <1>1, <2>1, FinishedStays DEF Timelines
  <2> QED
    BY <2>1, <2>2, <2>3 DEF Timelines
<1>2. ASSUME NEW a \in Sinks, Sink(a) PROVE Timelines'
  <2>1. UNCHANGED <<queue, at, hand, opened, left, files>> /\ (ok' => ok)
    BY <1>2, SinkFrame DEF streamVars, drainVars
  <2>2. pc'[Main] = pc[Main] /\ out'[Main] = out[Main] /\ verdict'[Main] = verdict[Main]
    <3>1. a # Main /\ Main \in Actors
      BY MainFacts
    <3> QED
      BY <1>2, <3>1, MainFacts DEF Sink, PushBatch, ReplayBreaks, Flush, Discard, Sync, Report
  <2> QED
    BY <2>1, <2>2, TimelinesStand
<1>3. ASSUME NEW t \in Tables, Table(t) PROVE Timelines'
  <2>1. /\ UNCHANGED <<queue, at, hand, opened, left, ok>>
        /\ \A n \in Names : n[1] # t => files'[n] = files[n]
    BY <1>3 DEF Table, StartCsv, AppendRow, FinishCsv, EndCsv, Abandon, streamVars, drainVars,
       Types, FileTypes
  <2>2. pc'[Main] = pc[Main] /\ out'[Main] = out[Main] /\ verdict'[Main] = verdict[Main]
    <3>1. t # Main /\ Main \in Actors
      BY MainFacts
    <3> QED
      BY <1>3, <3>1, MainFacts DEF Table, StartCsv, AppendRow, FinishCsv, EndCsv, Abandon
  <2>3. \A f \in JsonFiles : files'[Whole(f)] = files[Whole(f)]
    BY <2>1, FileNames
  <2> QED
    BY <2>1, <2>2, <2>3, TimelinesStand
<1>4. CASE UNCHANGED <<actorVars, streamVars, tasks, at, hand, files, ok>>
  BY <1>4, TimelinesStand DEF actorVars, sinkVars, streamVars
<1> QED
  BY <1>1, <1>2, <1>3, <1>4, StepKinds, EnqueueKeepsTimelines, StartThrowsKeepsTimelines,
     FinisherKeepsTimelines

\* What the timelines and the events of the sinks come to when the run reports success.
LEMMA TimelinesDelivered == Types /\ Stories /\ Timelines => TimelinesWhenOk
<1> SUFFICES ASSUME Types, Stories, Timelines, verdict[Main] = "ok", NEW f \in JsonFiles
             PROVE  /\ opened[f] => WellFormed(f)
                    /\ \A a \in Sinks : verdict[a] = "discarded" /\ ~disabled[a]
                                          => Of(a, files[Whole(f)]) = {}
  BY DEF TimelinesWhenOk
<1>1. opened[f] => WellFormed(f)
  BY DEF Timelines, Finished, Array, WellFormed
<1>2. ASSUME NEW a \in Sinks, verdict[a] = "discarded", ~disabled[a]
      PROVE  Of(a, files[Whole(f)]) = {}
  BY <1>2 DEF Stories, Accounted, Unpublished, InFile
<1> QED
  BY <1>1, <1>2

-----------------------------------------------------------------------------
(***************************************************************************)
(* The files of a table, as operations change them.                        *)
(***************************************************************************)
NamesOf(t) == {n \in Names : n[1] = t}
Disk(t) == [NamesOf(t) -> FileType]
FilesOf(t) == [n \in NamesOf(t) |-> files[n]]
Apply(op, F) ==
  IF op.kind = "write" THEN [F EXCEPT ![op.file] = @ \o op.data]
  ELSE [F EXCEPT ![op.to] = F[op.file], ![op.file] = << >>]

\* The operations of q turn the files F into G.
Replays(t, q, F, G) ==
  \E g \in [0..Len(q) -> Disk(t)] :
    /\ g[0] = F /\ g[Len(q)] = G
    /\ \A k \in 1..Len(q) : g[k] = Apply(q[k], g[k - 1])

LEMMA ReplaysNone ==
  ASSUME NEW t, NEW F
  PROVE  /\ F \in Disk(t) => Replays(t, << >>, F, F)
         /\ \A G : Replays(t, << >>, F, G) => G = F
<1> DEFINE none == << >>
<1>1. Len(none) = 0 /\ 1..0 = {}
  BY EmptySeq
<1> HIDE DEF none
<1>2. ASSUME F \in Disk(t) PROVE Replays(t, none, F, F)
  <2> DEFINE g == [k \in 0..0 |-> F]
  <2>1. g \in [0..0 -> Disk(t)] /\ g[0] = F
    BY <1>2
  <2> HIDE DEF g
  <2> QED
    BY <1>1, <2>1 DEF Replays
<1>3. ASSUME NEW G, Replays(t, none, F, G) PROVE G = F
  BY <1>1, <1>3 DEF Replays
<1> QED
  BY <1>2, <1>3 DEF none

LEMMA ReplaysOne ==
  ASSUME NEW t, NEW op, NEW F \in Disk(t), Apply(op, F) \in Disk(t)
  PROVE  Replays(t, <<op>>, F, Apply(op, F))
<1> DEFINE G == Apply(op, F)
           one == <<op>>
           g == [k \in 0..1 |-> IF k = 0 THEN F ELSE G]
<1>1. Len(one) = 1 /\ one[1] = op
  OBVIOUS
<1>0. G = Apply(op, F) /\ G \in Disk(t)
  OBVIOUS
<1> HIDE DEF one, G
<1>2. g \in [0..1 -> Disk(t)] /\ g[0] = F /\ g[1] = G
  BY <1>0
<1> HIDE DEF g
<1>3. \A k \in 1..Len(one) : g[k] = Apply(one[k], g[k - 1])
  <2> SUFFICES ASSUME NEW k \in 1..Len(one) PROVE g[k] = Apply(one[k], g[k - 1])
    OBVIOUS
  <2>1. k = 1 /\ k - 1 = 0
    BY <1>1
  <2> QED
    BY <1>0, <1>1, <1>2, <2>1
<1> QED
  BY <1>1, <1>2, <1>3 DEF Replays, one, G

\* The first operation has been carried out.
LEMMA ReplaysFront ==
  ASSUME NEW t, NEW op \in OpType, NEW q \in Seq(OpType), NEW F, NEW G,
         Replays(t, <<op>> \o q, F, G)
  PROVE  Replays(t, q, Apply(op, F), G)
<1> DEFINE p == <<op>> \o q
<1>1. /\ Len(p) = Len(q) + 1 /\ Len(q) \in Nat /\ p[1] = op
      /\ \A k \in 1..Len(q) : p[k + 1] = q[k]
  BY InFront, LenProperties
<1> HIDE DEF p
<1>2. PICK g \in [0..Len(p) -> Disk(t)] :
        /\ g[0] = F /\ g[Len(p)] = G
        /\ \A k \in 1..Len(p) : g[k] = Apply(p[k], g[k - 1])
  BY DEF Replays, p
<1> DEFINE h == [k \in 0..Len(q) |-> g[k + 1]]
<1>3. \A k \in 0..Len(q) : k + 1 \in 0..Len(p)
  BY <1>1
<1>4. h \in [0..Len(q) -> Disk(t)] /\ h[0] = g[1] /\ h[Len(q)] = g[Len(p)]
  BY <1>1, <1>2, <1>3
<1>5. g[1] = Apply(op, F)
  <2>1. 1 \in 1..Len(p) /\ 1 - 1 = 0
    BY <1>1
  <2> QED
    BY <1>1, <1>2, <2>1
<1>6. \A k \in 1..Len(q) : h[k] = Apply(q[k], h[k - 1])
  <2> SUFFICES ASSUME NEW k \in 1..Len(q) PROVE h[k] = Apply(q[k], h[k - 1])
    OBVIOUS
  <2>1. /\ k + 1 \in 1..Len(p) /\ (k + 1) - 1 = k /\ k \in 0..Len(q) /\ k - 1 \in 0..Len(q)
        /\ (k - 1) + 1 = k
    BY <1>1
  <2>2. h[k] = g[k + 1] /\ h[k - 1] = g[k]
    BY <2>1
  <2>3. g[k + 1] = Apply(p[k + 1], g[k])
    BY <1>2, <2>1
  <2> QED
    BY <1>1, <2>2, <2>3
<1> HIDE DEF h
<1> QED
  BY <1>2, <1>4, <1>5, <1>6 DEF Replays

\* More operations behind.
LEMMA ReplaysConcat ==
  ASSUME NEW t, NEW q \in Seq(OpType), NEW r \in Seq(OpType), NEW F, NEW M, NEW G,
         Replays(t, q, F, M), Replays(t, r, M, G)
  PROVE  Replays(t, q \o r, F, G)
<1> DEFINE c == q \o r
<1>1. /\ Len(c) = Len(q) + Len(r) /\ Len(q) \in Nat /\ Len(r) \in Nat
      /\ \A i \in 1..Len(q) : c[i] = q[i]
      /\ \A i \in 1..Len(r) : c[Len(q) + i] = r[i]
  BY ConcatAt, LenProperties
<1> HIDE DEF c
<1>2. PICK g \in [0..Len(q) -> Disk(t)] :
        /\ g[0] = F /\ g[Len(q)] = M
        /\ \A k \in 1..Len(q) : g[k] = Apply(q[k], g[k - 1])
  BY DEF Replays
<1>3. PICK h \in [0..Len(r) -> Disk(t)] :
        /\ h[0] = M /\ h[Len(r)] = G
        /\ \A k \in 1..Len(r) : h[k] = Apply(r[k], h[k - 1])
  BY DEF Replays
<1> DEFINE j == [k \in 0..Len(c) |-> IF k <= Len(q) THEN g[k] ELSE h[k - Len(q)]]
<1>4. \A k \in 0..Len(q) : k \in 0..Len(c) /\ k <= Len(q)
  BY <1>1
<1>5. \A k \in 1..Len(r) : /\ Len(q) + k \in 0..Len(c) /\ ~(Len(q) + k <= Len(q))
                           /\ (Len(q) + k) - Len(q) = k
  BY <1>1
<1>6. \A k \in 0..Len(q) : j[k] = g[k]
  BY <1>4
<1>7. \A k \in 1..Len(r) : j[Len(q) + k] = h[k]
  BY <1>5
<1>8. \A k \in 0..Len(r) : j[Len(q) + k] = h[k]
  <2> TAKE k \in 0..Len(r)
  <2>1. CASE k = 0
    <3>1. Len(q) + k = Len(q) /\ Len(q) \in 0..Len(q)
      BY <1>1, <2>1
    <3> HIDE DEF j
    <3> QED
      BY <1>2, <1>3, <1>6, <2>1, <3>1
  <2>2. CASE k # 0
    <3>1. k \in 1..Len(r)
      BY <1>1, <2>2
    <3> HIDE DEF j
    <3> QED
      BY <1>7, <3>1
  <2> QED
    BY <2>1, <2>2
<1>9. \A k \in 0..Len(c) : k \in 0..Len(q) \/ \E i \in 1..Len(r) : k = Len(q) + i
  <2> TAKE k \in 0..Len(c)
  <2>1. CASE k <= Len(q)
    BY <1>1, <2>1
  <2>2. CASE ~(k <= Len(q))
    <3>1. k - Len(q) \in 1..Len(r) /\ k = Len(q) + (k - Len(q))
      BY <1>1, <2>2
    <3> QED
      BY <3>1
  <2> QED
    BY <2>1, <2>2
<1>10. j \in [0..Len(c) -> Disk(t)]
  <2>1. ASSUME NEW k \in 0..Len(c) PROVE j[k] \in Disk(t)
    <3> HIDE DEF j
    <3>1. CASE k \in 0..Len(q)
      BY <1>2, <1>6, <3>1
    <3>2. ASSUME NEW i \in 1..Len(r), k = Len(q) + i PROVE j[k] \in Disk(t)
      <4>1. i \in 0..Len(r)
        BY <1>1
      <4> QED
        BY <1>3, <1>8, <3>2, <4>1
    <3> QED
      BY <1>9, <3>1, <3>2
  <2>2. DOMAIN j = 0..Len(c) /\ j = [k \in 0..Len(c) |-> j[k]]
    OBVIOUS
  <2> HIDE DEF j
  <2> QED
    BY <2>1, <2>2
<1> HIDE DEF j
<1>11. j[0] = F /\ j[Len(c)] = G
  <2>1. 0 \in 0..Len(q) /\ Len(r) \in 0..Len(r) /\ Len(c) = Len(q) + Len(r)
    BY <1>1
  <2> QED
    BY <1>2, <1>3, <1>6, <1>8, <2>1
<1>12. \A k \in 1..Len(c) : j[k] = Apply(c[k], j[k - 1])
  <2> SUFFICES ASSUME NEW k \in 1..Len(c) PROVE j[k] = Apply(c[k], j[k - 1])
    OBVIOUS
  <2>1. CASE k \in 1..Len(q)
    <3>1. k \in 0..Len(q) /\ k - 1 \in 0..Len(q)
      BY <1>1, <2>1
    <3> QED
      BY <1>1, <1>2, <1>6, <2>1, <3>1
  <2>2. ASSUME NEW i \in 1..Len(r), k = Len(q) + i PROVE j[k] = Apply(c[k], j[k - 1])
    <3>1. i \in 0..Len(r) /\ i - 1 \in 0..Len(r) /\ k - 1 = Len(q) + (i - 1)
      BY <1>1, <2>2
    <3>2. j[k] = h[i] /\ j[k - 1] = h[i - 1] /\ c[k] = r[i]
      BY <1>1, <1>8, <2>2, <3>1
    <3> QED
      BY <1>3, <3>2
  <2>3. k \in 1..Len(q) \/ k \notin 0..Len(q)
    BY <1>1
  <2>4. k \in 0..Len(c)
    BY <1>1
  <2> QED
    BY <1>9, <2>1, <2>2, <2>3, <2>4
<1> QED
  BY <1>10, <1>11, <1>12 DEF Replays, c

LEMMA FilesOfDisk ==
  ASSUME Types, NEW t
  PROVE  FilesOf(t) \in Disk(t) /\ \A n \in NamesOf(t) : FilesOf(t)[n] = files[n]
BY DEF FilesOf, Disk, NamesOf, Types, FileTypes

LEMMA ApplyType ==
  ASSUME NEW t, NEW F \in Disk(t), NEW op \in OpType, TableOp(t, op)
  PROVE  op.file \in NamesOf(t) /\ op.to \in NamesOf(t) /\ Apply(op, F) \in Disk(t)
<1>1. /\ op.file \in NamesOf(t) /\ op.to \in NamesOf(t) /\ op.data \in FileType
      /\ op.kind \in {"write", "rename"}
  BY DEF OpType, TableOp, NamesOf
<1>2. F[op.file] \in FileType /\ F[op.file] \o op.data \in FileType /\ << >> \in FileType
  BY <1>1, FileConcat, MarkTokens DEF Disk
<1> QED
  BY <1>1, <1>2 DEF Apply, Disk

LEMMA WriteValue ==
  ASSUME NEW t, NEW F \in Disk(t), NEW op \in OpType, TableOp(t, op), op.kind = "write",
         NEW H, H = Apply(op, F)
  PROVE  H[op.file] = F[op.file] \o op.data
<1>1. op.file \in NamesOf(t)
  BY ApplyType
<1>2. H = [F EXCEPT ![op.file] = F[op.file] \o op.data]
  BY DEF Apply
<1> QED
  BY <1>1, <1>2 DEF Disk

LEMMA WriteElsewhere ==
  ASSUME NEW t, NEW F \in Disk(t), NEW op \in OpType, TableOp(t, op), op.kind = "write",
         NEW H, H = Apply(op, F)
  PROVE  \A n \in NamesOf(t) : n # op.file => H[n] = F[n]
<1>1. H = [F EXCEPT ![op.file] = F[op.file] \o op.data]
  BY DEF Apply
<1> QED
  BY <1>1 DEF Disk

LEMMA RenameValues ==
  ASSUME NEW t, NEW F \in Disk(t), NEW op \in OpType, TableOp(t, op), op.kind = "rename",
         op.to # op.file, NEW H, H = Apply(op, F)
  PROVE  /\ H[op.to] = F[op.file] /\ H[op.file] = << >>
         /\ \A n \in NamesOf(t) : n # op.file /\ n # op.to => H[n] = F[n]
<1>1. op.file \in NamesOf(t) /\ op.to \in NamesOf(t)
  BY ApplyType
<1>2. H = [F EXCEPT ![op.to] = F[op.file], ![op.file] = << >>]
  BY DEF Apply
<1> QED
  BY <1>1, <1>2 DEF Disk

\* A slice with k rows.
Numbered(t, i, k) == [j \in 1..k |-> <<t, i * Limit + j>>]
Rows(t, i, k) == Header \o Numbered(t, i, k)

\* The stream c of a table, once the files G are as its operations leave them: every full
\* slice and, with what is in the buffer, the one it writes.
Stand(t, c, G) ==
  /\ c.started = FALSE => \A n \in NamesOf(t) : G[n] = << >>
  /\ c.started = TRUE =>
       /\ G[c.path] \o c.buffer = Rows(t, c.sliceIndex, c.rowsInSlice)
       /\ c.sliceMode = TRUE => G[Whole(t)] = << >>
       /\ \A i \in 0..MaxSlice : /\ i < c.sliceIndex => G[Slice(t, i)] = Rows(t, i, Limit)
                                 /\ i > c.sliceIndex => G[Slice(t, i)] = << >>
                                 /\ c.sliceMode = FALSE => G[Slice(t, i)] = << >>

\* A table is cut in slices as soon as it has to be.
Sliced(c) ==
  c.started = TRUE => /\ c.sliceMode = TRUE => c.job.hint > Limit \/ c.sliceIndex >= 1
                      /\ c.sliceMode = FALSE => c.job.hint <= Limit

OpsOf(q) == [k \in 1..Len(q) |-> q[k].op]

LEMMA OpsOfOne ==
  /\ OpsOf(<< >>) = << >>
  /\ \A e : OpsOf(<<e>>) = <<e.op>>
<1>1. OpsOf(<< >>) = << >>
  <2> DEFINE none == << >>
  <2>1. Len(none) = 0 /\ 1..0 = {}
    OBVIOUS
  <2>2. OpsOf(none) = << >>
    BY <2>1 DEF OpsOf
  <2> QED
    BY <2>2
<1>2. ASSUME NEW e PROVE OpsOf(<<e>>) = <<e.op>>
  BY DEF OpsOf
<1> QED
  BY <1>1, <1>2

LEMMA OpsOfConcat ==
  ASSUME NEW q \in Seq(EntryType), NEW r \in Seq(EntryType)
  PROVE  /\ OpsOf(q) \in Seq(OpType) /\ OpsOf(r) \in Seq(OpType)
         /\ OpsOf(q \o r) = OpsOf(q) \o OpsOf(r)
<1> DEFINE c == q \o r
           o == OpsOf(c)
           x == OpsOf(q)
           y == OpsOf(r)
           z == x \o y
<1>1. /\ c \in Seq(EntryType) /\ Len(c) = Len(q) + Len(r) /\ Len(q) \in Nat /\ Len(r) \in Nat
      /\ \A i \in 1..Len(q) : c[i] = q[i]
      /\ \A i \in 1..Len(r) : c[Len(q) + i] = r[i]
  BY ConcatAt, LenProperties
<1>2. ASSUME NEW s \in Seq(EntryType)
      PROVE  /\ OpsOf(s) \in Seq(OpType) /\ Len(OpsOf(s)) = Len(s)
             /\ \A k \in 1..Len(s) : OpsOf(s)[k] = s[k].op
  <2>1. \A k \in 1..Len(s) : s[k] \in EntryType
    BY ElementOfSeq
  <2>2. \A k \in 1..Len(s) : s[k].op \in OpType
    BY <2>1 DEF EntryType
  <2>3. Len(s) \in Nat
    BY LenProperties
  <2> QED
    BY <2>2, <2>3 DEF OpsOf
<1> HIDE DEF c
<1>3. /\ x \in Seq(OpType) /\ Len(x) = Len(q) /\ \A k \in 1..Len(q) : x[k] = q[k].op
      /\ y \in Seq(OpType) /\ Len(y) = Len(r) /\ \A k \in 1..Len(r) : y[k] = r[k].op
      /\ o \in Seq(OpType) /\ Len(o) = Len(c) /\ \A k \in 1..Len(c) : o[k] = c[k].op
  BY <1>1, <1>2
<1> HIDE DEF x, y, o
<1>a. x \in Seq(OpType) /\ y \in Seq(OpType)
  BY <1>3
<1>4. /\ z \in Seq(OpType) /\ Len(z) = Len(x) + Len(y)
      /\ \A i \in 1..Len(x) : z[i] = x[i]
      /\ \A i \in 1..Len(y) : z[Len(x) + i] = y[i]
  BY <1>a, ConcatAt
<1> HIDE DEF z
<1>5. \A k \in 1..Len(c) : o[k] = z[k]
  <2> SUFFICES ASSUME NEW k \in 1..Len(c) PROVE o[k] = z[k]
    OBVIOUS
  <2>1. CASE k <= Len(q)
    <3>1. k \in 1..Len(q)
      BY <1>1, <2>1
    <3> QED
      BY <1>1, <1>3, <1>4, <3>1
  <2>2. CASE ~(k <= Len(q))
    <3>1. PICK i \in 1..Len(r) : k = Len(q) + i
      <4>1. k - Len(q) \in 1..Len(r) /\ k = Len(q) + (k - Len(q))
        BY <1>1, <2>2
      <4> QED
        BY <4>1
    <3>2. c[k] = r[i] /\ z[k] = y[i] /\ y[i] = r[i].op
      BY <1>1, <1>3, <1>4, <3>1
    <3> QED
      BY <1>3, <3>2
  <2> QED
    BY <2>1, <2>2
<1>6. o = z
  BY <1>1, <1>3, <1>4, <1>5, SeqEqual
<1> QED
  BY <1>3, <1>6 DEF o, x, y, z, c

LEMMA AppendTo ==
  ASSUME NEW S, NEW s \in Seq(S), NEW e \in S
  PROVE  <<e>> \in Seq(S) /\ Append(s, e) = s \o <<e>>
<1>1. <<e>> \in Seq(S)
  OBVIOUS
<1>2. Append(s, e) = s \o <<e>>
  BY AppendIsConcat
<1> QED
  BY <1>1, <1>2

LEMMA RowsMore ==
  ASSUME NEW t \in Tables, NEW i \in Nat, NEW k \in Nat
  PROVE  /\ Rows(t, i, 0) = Header
         /\ Rows(t, i, k) \in FileType
         /\ Rows(t, i, k) \o Row(t, i * Limit + (k + 1)) = Rows(t, i, k + 1)
<1>1. Limit \in Nat /\ \A j \in Nat : i * Limit + j \in Nat
  BY ConstantsAssumption
<1>2. \A n \in Nat : <<t, n>> \in Tokens \X Nat
  BY MarkTokens DEF Assemblers
<1>3. \A m \in Nat : /\ Numbered(t, i, m) \in Seq(Tokens \X Nat) /\ Len(Numbered(t, i, m)) = m
                     /\ \A j \in 1..m : Numbered(t, i, m)[j] = <<t, i * Limit + j>>
  <2> TAKE m \in Nat
  <2>1. \A j \in 1..m : <<t, i * Limit + j>> \in Tokens \X Nat
    BY <1>1, <1>2
  <2> QED
    BY <2>1 DEF Numbered
<1>4. Header \in Seq(Tokens \X Nat)
  BY MarkTokens DEF FileType
<1> DEFINE x == Numbered(t, i, k)
           y == Numbered(t, i, k + 1)
           last == <<t, i * Limit + (k + 1)>>
           one == <<last>>
<1>5. /\ x \in Seq(Tokens \X Nat) /\ Len(x) = k /\ last \in Tokens \X Nat
      /\ y \in Seq(Tokens \X Nat) /\ Len(y) = k + 1
      /\ \A j \in 1..k : x[j] = <<t, i * Limit + j>>
      /\ \A j \in 1..(k + 1) : y[j] = <<t, i * Limit + j>>
  <2>1. k + 1 \in Nat /\ i * Limit + (k + 1) \in Nat
    BY <1>1
  <2> QED
    BY <1>2, <1>3, <2>1
<1>6. last = <<t, i * Limit + (k + 1)>>
  OBVIOUS
<1>a. one = <<last>>
  OBVIOUS
<1> HIDE DEF x, y, last
<1>7. /\ Append(x, last) \in Seq(Tokens \X Nat) /\ Len(Append(x, last)) = k + 1
      /\ \A j \in 1..k : Append(x, last)[j] = x[j]
      /\ Append(x, last)[k + 1] = last
  BY <1>5, AppendProperties
<1>8. \A j \in 1..(k + 1) : Append(x, last)[j] = y[j]
  <2> TAKE j \in 1..(k + 1)
  <2>1. j \in 1..k \/ j = k + 1
    OBVIOUS
  <2> QED
    BY <1>5, <1>6, <1>7, <2>1
<1>9. Append(x, last) = y
  BY <1>5, <1>7, <1>8, SeqEqual
<1>10. one \in Seq(Tokens \X Nat) /\ Append(x, last) = x \o one
  <2>1. <<last>> \in Seq(Tokens \X Nat) /\ Append(x, last) = x \o <<last>>
    BY <1>5, AppendTo
  <2> QED
    BY <1>a, <2>1
<1> HIDE DEF one
<1>11. (Header \o x) \o one = Header \o y
  <2>1. x \in Seq(Tokens \X Nat) /\ one \in Seq(Tokens \X Nat)
    BY <1>5, <1>10
  <2>2. (Header \o x) \o one = Header \o (x \o one)
    <3>1. PICK S : S = Tokens \X Nat
      OBVIOUS
    <3>2. Header \in Seq(S) /\ x \in Seq(S) /\ one \in Seq(S)
      BY <1>4, <2>1, <3>1
    <3> QED
      BY <3>2, ConcatAssociative
  <2>3. x \o one = y
    BY <1>9, <1>10
  <2> QED
    BY <2>2, <2>3
<1>12. Header \o x \in Seq(Tokens \X Nat)
  BY <1>4, <1>5, ConcatProperties
<1>13. Rows(t, i, 0) = Header
  <2>1. Numbered(t, i, 0) \in Seq(Tokens \X Nat) /\ Len(Numbered(t, i, 0)) = 0
    BY <1>3
  <2>2. Numbered(t, i, 0) = << >>
    BY <2>1, EmptySeq
  <2> QED
    BY <1>4, <2>2, ConcatEmptySeq DEF Rows
<1> QED
  BY <1>6, <1>11, <1>12, <1>13, <1>a DEF Rows, Row, FileType, x, y

LEMMA TablePaths ==
  ASSUME NEW t \in Tables
  PROVE  /\ Whole(t) \in NamesOf(t)
         /\ \A i \in 0..MaxSlice : Slice(t, i) \in NamesOf(t) /\ Slice(t, i) # Whole(t)
         /\ \A i, j : Slice(t, i) = Slice(t, j) => i = j
         /\ \A n \in NamesOf(t) : n = Whole(t) \/ \E i \in 0..MaxSlice : n = Slice(t, i)
<1>1. /\ Whole(t) \in Names /\ \A i \in 0..MaxSlice : Slice(t, i) \in Names
      /\ Whole(t)[1] = t /\ \A i : Slice(t, i)[1] = t
  BY TableNames, FileNames DEF Streams
<1>2. ASSUME NEW i \in 0..MaxSlice PROVE Slice(t, i) # Whole(t)
  <2>1. i # -1
    OBVIOUS
  <2> QED
    BY <2>1 DEF Slice, Whole
<1>3. \A i, j : Slice(t, i) = Slice(t, j) => i = j
  BY DEF Slice
<1>4. ASSUME NEW n \in NamesOf(t) PROVE n = Whole(t) \/ \E i \in 0..MaxSlice : n = Slice(t, i)
  <2>1. n[1] = t /\ n \in {Whole(s) : s \in Streams} \cup (Tables \X (0..MaxSlice))
    BY DEF NamesOf, Names
  <2>2. CASE n \in {Whole(s) : s \in Streams}
    <3>1. PICK s \in Streams : n = Whole(s)
      BY <2>2
    <3>2. s = t
      BY <2>1, <3>1, FileNames
    <3> QED
      BY <3>1, <3>2
  <2>3. CASE n \in Tables \X (0..MaxSlice)
    <3>1. n = <<n[1], n[2]>> /\ n[2] \in 0..MaxSlice
      BY <2>3
    <3> QED
      BY <2>1, <3>1 DEF Slice
  <2> QED
    BY <2>1, <2>2, <2>3
<1> QED
  BY <1>1, <1>2, <1>3, <1>4 DEF NamesOf

\* Where a stream that has started writes to.
LEMMA PathFacts ==
  ASSUME NEW t \in Tables, NEW c \in CsvType, CsvWell(t, c), c.started
  PROVE  /\ c.path \in NamesOf(t) /\ c.sliceIndex \in 0..MaxSlice
         /\ c.rowsInSlice \in 1..Limit /\ c.started = TRUE
         /\ c.sliceMode = TRUE => c.path = Slice(t, c.sliceIndex) /\ c.path # Whole(t)
         /\ c.sliceMode = FALSE => c.path = Whole(t) /\ c.sliceIndex = 0
         /\ \A i \in 0..MaxSlice :
              c.sliceMode = FALSE \/ i # c.sliceIndex => Slice(t, i) # c.path
<1>1. /\ c.started = TRUE /\ c.sliceMode \in BOOLEAN /\ c.sliceIndex \in 0..MaxSlice
  BY DEF CsvType
<1>2. /\ c.path = IF c.sliceMode THEN Slice(t, c.sliceIndex) ELSE Whole(t)
      /\ c.sliceMode = FALSE => c.sliceIndex = 0
      /\ c.rowsInSlice \in 1..Limit
  BY <1>1 DEF CsvWell
<1>3. CASE c.sliceMode = TRUE
  BY <1>1, <1>2, <1>3, TablePaths
<1>4. CASE c.sliceMode = FALSE
  BY <1>1, <1>2, <1>4, TablePaths
<1> QED
  BY <1>1, <1>3, <1>4

LEMMA EmptiedFields ==
  ASSUME NEW c \in CsvType
  PROVE  /\ Emptied(c).started = c.started /\ Emptied(c).path = c.path
         /\ Emptied(c).sliceMode = c.sliceMode /\ Emptied(c).sliceIndex = c.sliceIndex
         /\ Emptied(c).rowsInSlice = c.rowsInSlice /\ Emptied(c).job = c.job
         /\ Emptied(c).next = c.next /\ Emptied(c).buffer = << >>
BY DEF Emptied, CsvType

\* What is in the buffer goes to the file.
LEMMA FlushStands ==
  ASSUME NEW t \in Tables, NEW c \in CsvType, CsvWell(t, c), NEW G \in Disk(t), Stand(t, c, G)
  PROVE  \E H \in Disk(t) : /\ Replays(t, OpsOf(FlushBuffer(t, c)), G, H)
                            /\ Stand(t, Emptied(c), H)
<1> DEFINE d == Emptied(c)
<1>1. /\ d.started = c.started /\ d.path = c.path /\ d.sliceMode = c.sliceMode
      /\ d.sliceIndex = c.sliceIndex /\ d.rowsInSlice = c.rowsInSlice /\ d.buffer = << >>
  BY EmptiedFields
<1> HIDE DEF d
<1>2. \A n \in NamesOf(t) : G[n] \in FileType
  BY DEF Disk
<1>0. c.started \in BOOLEAN /\ c.buffer \in FileType
  BY DEF CsvType
<1>3. CASE c.buffer = << >>
  <2>1. FlushBuffer(t, c) = << >>
    BY <1>3 DEF FlushBuffer
  <2>2. Replays(t, OpsOf(FlushBuffer(t, c)), G, G)
    BY <2>1, OpsOfOne, ReplaysNone
  <2>3. Stand(t, d, G)
    BY <1>1, <1>3 DEF Stand
  <2> QED
    BY <2>2, <2>3 DEF d
<1>4. CASE c.buffer # << >>
  <2>1. c.started /\ c.started = TRUE
    BY <1>0, <1>4 DEF CsvWell
  <2>2. c.sliceMode = TRUE => c.path # Whole(t)
    BY <2>1, PathFacts
  <2>3. \A i \in 0..MaxSlice : c.sliceMode = FALSE \/ i # c.sliceIndex => Slice(t, i) # c.path
    BY <2>1, PathFacts
  <2>a. c.path \in NamesOf(t) /\ c.path \in Names /\ c.path[1] = t
    BY <2>1, PathFacts DEF NamesOf
  <2> DEFINE op == Write(c.path, c.buffer)
  <2>4. /\ op \in OpType /\ TableOp(t, op) /\ op.kind = "write" /\ op.file = c.path
        /\ op.data = c.buffer
    BY <1>0, <2>a DEF Write, OpType, TableOp
  <2>5. FlushBuffer(t, c) = <<CsvEntry(t, op)>> /\ CsvEntry(t, op).op = op
    BY <1>4 DEF FlushBuffer, CsvEntry, Entry
  <2> HIDE DEF op
  <2>6. OpsOf(FlushBuffer(t, c)) = <<op>>
    BY <2>5, OpsOfOne
  <2>b. PICK H : H = Apply(op, G)
    OBVIOUS
  <2>7. /\ H \in Disk(t) /\ H[c.path] = G[c.path] \o c.buffer
        /\ \A n \in NamesOf(t) : n # c.path => H[n] = G[n]
    <3>1. op \in OpType /\ TableOp(t, op) /\ op.kind = "write"
      BY <2>4
    <3>2. H \in Disk(t)
      BY <2>b, <3>1, ApplyType
    <3>3. H[op.file] = G[op.file] \o op.data
      BY <2>b, <3>1, WriteValue
    <3>4. \A n \in NamesOf(t) : n # op.file => H[n] = G[n]
      BY <2>b, <3>1, WriteElsewhere
    <3> QED
      BY <2>4, <3>2, <3>3, <3>4
  <2>8. Replays(t, <<op>>, G, H)
    BY <2>7, <2>b, ReplaysOne
  <2>9. H[c.path] \o << >> = H[c.path]
    <3>1. H[c.path] \in Seq(Tokens \X Nat)
      BY <2>7, <2>a DEF Disk, FileType
    <3> QED
      BY <3>1, ConcatEmptySeq
  <2>10. Stand(t, d, H)
    <3>1. H[d.path] \o d.buffer = Rows(t, d.sliceIndex, d.rowsInSlice)
      BY <1>1, <2>1, <2>7, <2>9 DEF Stand
    <3>2. d.sliceMode = TRUE => H[Whole(t)] = << >>
      BY <1>1, <2>1, <2>2, <2>7, TablePaths DEF Stand
    <3>3. ASSUME NEW i \in 0..MaxSlice
          PROVE  /\ i < d.sliceIndex => H[Slice(t, i)] = Rows(t, i, Limit)
                 /\ i > d.sliceIndex => H[Slice(t, i)] = << >>
                 /\ d.sliceMode = FALSE => H[Slice(t, i)] = << >>
      <4>1. Slice(t, i) \in NamesOf(t)
        BY TablePaths
      <4>2. /\ i < c.sliceIndex => G[Slice(t, i)] = Rows(t, i, Limit)
            /\ i > c.sliceIndex => G[Slice(t, i)] = << >>
            /\ c.sliceMode = FALSE => G[Slice(t, i)] = << >>
        BY <2>1 DEF Stand
      <4>3. c.sliceIndex \in 0..MaxSlice
        BY <2>1, PathFacts
      <4>4. i < c.sliceIndex \/ i > c.sliceIndex => i # c.sliceIndex
        BY <4>3
      <4> QED
        BY <1>1, <2>3, <2>7, <4>1, <4>2, <4>4
    <3> QED
      BY <1>1, <2>1, <3>1, <3>2, <3>3 DEF Stand
  <2> QED
    BY <2>6, <2>7, <2>8, <2>10 DEF d
<1> QED
  BY <1>3, <1>4

LEMMA SliceAfter ==
  ASSUME NEW i \in Nat, NEW j \in Nat
  PROVE  /\ i < j + 1 => i < j \/ i = j
         /\ i > j + 1 => i > j
OBVIOUS

\* The stream of a table that starts, or begins another slice.
LEMMA OpeningFields ==
  ASSUME NEW t \in Tables, NEW c \in CsvType, NEW b, b = Opening(t, c)
  PROVE  /\ b.buffer = Header /\ b.started = TRUE /\ b.sliceIndex = c.sliceIndex
         /\ b.rowsInSlice = c.rowsInSlice /\ b.job = c.job
         /\ b.sliceMode = TRUE => c.job.hint > Limit
         /\ b.sliceMode = FALSE => ~(c.job.hint > Limit)
<1> DEFINE sliced == c.job.hint > Limit
           path == IF sliced THEN Slice(t, 0) ELSE Whole(t)
<1>1. b = [c EXCEPT !.sliceMode = sliced, !.buffer = Header, !.started = TRUE, !.path = path]
  BY DEF Opening
<1>2. (sliced = TRUE => c.job.hint > Limit) /\ (sliced = FALSE => ~(c.job.hint > Limit))
  OBVIOUS
<1> HIDE DEF sliced, path
<1>3. /\ b.buffer = Header /\ b.started = TRUE /\ b.sliceIndex = c.sliceIndex
      /\ b.rowsInSlice = c.rowsInSlice /\ b.job = c.job /\ b.sliceMode = sliced
  BY <1>1 DEF CsvType
<1> QED
  BY <1>2, <1>3

LEMMA NextSliceFields ==
  ASSUME NEW t \in Tables, NEW c \in CsvType, NEW b, b = NextSlice(t, c),
         CsvWell(t, c), c.started
  PROVE  /\ b.buffer = Header /\ b.started = TRUE /\ b.sliceIndex = c.sliceIndex + 1
         /\ b.rowsInSlice = 0 /\ b.sliceMode = TRUE /\ b.path = Slice(t, c.sliceIndex + 1)
<1> DEFINE i == IF c.sliceMode THEN c.sliceIndex + 1 ELSE 1
           p == Slice(t, i)
<1>1. b = [c EXCEPT !.sliceMode = TRUE, !.sliceIndex = i, !.path = p, !.buffer = Header,
                    !.rowsInSlice = 0]
  BY DEF NextSlice
<1>2. i = c.sliceIndex + 1
  <2>1. c.sliceMode \in BOOLEAN /\ c.started = TRUE
    BY DEF CsvType
  <2>a. c.sliceMode = FALSE => c.sliceIndex = 0
    BY <2>1 DEF CsvWell
  <2>2. CASE c.sliceMode = TRUE
    BY <2>2
  <2>3. CASE c.sliceMode = FALSE
    BY <2>3, <2>a
  <2> QED
    BY <2>1, <2>2, <2>3
<1>3. p = Slice(t, c.sliceIndex + 1)
  BY <1>2
<1> HIDE DEF i, p
<1>4. /\ b.buffer = Header /\ b.started = TRUE /\ b.sliceIndex = i
      /\ b.rowsInSlice = 0 /\ b.sliceMode = TRUE /\ b.path = p
  BY <1>1 DEF CsvType
<1> QED
  BY <1>2, <1>3, <1>4

LEMMA HeaderFirst == << >> \o Header = Header
<1>1. Header \in Seq(Tokens \X Nat)
  BY MarkTokens DEF FileType
<1> QED
  BY <1>1, ConcatEmptySeq

LEMMA FileAlone == \A x \in FileType : x \o << >> = x
<1> SUFFICES ASSUME NEW x \in FileType PROVE x \o << >> = x
  OBVIOUS
<1>1. x \in Seq(Tokens \X Nat)
  BY DEF FileType
<1> QED
  BY <1>1, ConcatEmptySeq

\* The last slice is full and written: the first file of a table becomes slice 0.
LEMMA CompletedStands ==
  ASSUME NEW t \in Tables, NEW c \in CsvType, CsvWell(t, c), c.started, Full(c),
         NEW H \in Disk(t), Stand(t, Emptied(c), H),
         NEW b, b = NextSlice(t, c), b.sliceIndex \in 0..MaxSlice,
         NEW E \in Disk(t),
         c.sliceMode = TRUE => E = H,
         c.sliceMode = FALSE =>
           /\ E[Slice(t, 0)] = H[Whole(t)]
           /\ E[Whole(t)] = << >>
           /\ \A n \in NamesOf(t) : n # Whole(t) /\ n # Slice(t, 0) => E[n] = H[n]
  PROVE  Stand(t, b, E)
<1>1. /\ c.path \in NamesOf(t) /\ c.sliceIndex \in 0..MaxSlice /\ c.started = TRUE
      /\ c.sliceMode = TRUE => c.path = Slice(t, c.sliceIndex)
      /\ c.sliceMode = FALSE => c.path = Whole(t) /\ c.sliceIndex = 0
      /\ c.sliceMode \in BOOLEAN /\ c.rowsInSlice = Limit
  <2>1. /\ c.path \in NamesOf(t) /\ c.sliceIndex \in 0..MaxSlice /\ c.started = TRUE
        /\ c.sliceMode = TRUE => c.path = Slice(t, c.sliceIndex)
        /\ c.sliceMode = FALSE => c.path = Whole(t) /\ c.sliceIndex = 0
    BY PathFacts
  <2>2. c.sliceMode \in BOOLEAN
    BY DEF CsvType
  <2>3. c.rowsInSlice = Limit
    BY DEF Full
  <2> QED
    BY <2>1, <2>2, <2>3
<1>2. /\ b.buffer = Header /\ b.started = TRUE /\ b.sliceIndex = c.sliceIndex + 1
      /\ b.rowsInSlice = 0 /\ b.sliceMode = TRUE /\ b.path = Slice(t, c.sliceIndex + 1)
  BY NextSliceFields
<1>3. /\ H[c.path] = Rows(t, c.sliceIndex, Limit)
      /\ c.sliceMode = TRUE => H[Whole(t)] = << >>
      /\ \A i \in 0..MaxSlice : /\ i < c.sliceIndex => H[Slice(t, i)] = Rows(t, i, Limit)
                                /\ i > c.sliceIndex => H[Slice(t, i)] = << >>
                                /\ c.sliceMode = FALSE => H[Slice(t, i)] = << >>
  <2>1. /\ H[Emptied(c).path] \o Emptied(c).buffer
             = Rows(t, Emptied(c).sliceIndex, Emptied(c).rowsInSlice)
        /\ Emptied(c).sliceMode = TRUE => H[Whole(t)] = << >>
        /\ \A i \in 0..MaxSlice :
             /\ i < Emptied(c).sliceIndex => H[Slice(t, i)] = Rows(t, i, Limit)
             /\ i > Emptied(c).sliceIndex => H[Slice(t, i)] = << >>
             /\ Emptied(c).sliceMode = FALSE => H[Slice(t, i)] = << >>
    BY <1>1, EmptiedFields DEF Stand
  <2>2. H[c.path] \in FileType
    BY <1>1 DEF Disk
  <2> QED
    BY <1>1, <2>1, <2>2, EmptiedFields, FileAlone
<1>4. /\ \A i \in 0..MaxSlice : Slice(t, i) \in NamesOf(t) /\ Slice(t, i) # Whole(t)
      /\ \A i, j : Slice(t, i) = Slice(t, j) => i = j
  BY TablePaths
<1>5. MaxSlice \in Nat /\ c.sliceIndex \in Nat /\ c.sliceIndex + 1 \in 0..MaxSlice
  <2>1. c.job \in Jobs /\ c.job.rows \in Nat
    BY JobTypes DEF CsvType
  <2>2. MaxSlice \in Nat
    <3>1. 0 \in Nat /\ 0 * Limit <= c.job.rows
      BY <2>1, ConstantsAssumption
    <3> QED
      BY <2>1, <3>1, MaxSliceBound
  <2> QED
    BY <1>1, <1>2, <2>2
<1>6. E[Whole(t)] = << >>
  BY <1>1, <1>3
<1>7. ASSUME NEW i \in 0..MaxSlice
      PROVE  /\ i < c.sliceIndex + 1 => E[Slice(t, i)] = Rows(t, i, Limit)
             /\ i > c.sliceIndex => E[Slice(t, i)] = << >>
  <2>1. CASE c.sliceMode = TRUE
    <3>1. i < c.sliceIndex + 1 => i < c.sliceIndex \/ i = c.sliceIndex
      BY <1>5
    <3> QED
      BY <1>1, <1>3, <2>1, <3>1
  <2>2. CASE c.sliceMode = FALSE
    <3>1. i < c.sliceIndex + 1 => i = 0
      BY <1>1, <2>2
    <3>2. i > c.sliceIndex => i # 0
      BY <1>1, <2>2
    <3>3. E[Slice(t, 0)] = Rows(t, 0, Limit)
      BY <1>1, <1>3, <2>2
    <3>4. i # 0 => E[Slice(t, i)] = << >>
      <4> SUFFICES ASSUME i # 0 PROVE E[Slice(t, i)] = << >>
        OBVIOUS
      <4>1. Slice(t, i) # Slice(t, 0) /\ Slice(t, i) # Whole(t) /\ Slice(t, i) \in NamesOf(t)
        BY <1>4
      <4> QED
        BY <1>3, <2>2, <4>1
    <3> QED
      BY <3>1, <3>2, <3>3, <3>4
  <2> QED
    BY <1>1, <2>1, <2>2
<1>8. E[b.path] \o b.buffer = Rows(t, b.sliceIndex, b.rowsInSlice)
  <2>1. E[Slice(t, c.sliceIndex + 1)] = << >>
    BY <1>5, <1>7
  <2>2. Rows(t, c.sliceIndex + 1, 0) = Header
    BY <1>5, RowsMore
  <2> QED
    BY <1>2, <2>1, <2>2, HeaderFirst
<1>9. \A i \in 0..MaxSlice : /\ i < b.sliceIndex => E[Slice(t, i)] = Rows(t, i, Limit)
                             /\ i > b.sliceIndex => E[Slice(t, i)] = << >>
  <2> SUFFICES ASSUME NEW i \in 0..MaxSlice
               PROVE  /\ i < b.sliceIndex => E[Slice(t, i)] = Rows(t, i, Limit)
                      /\ i > b.sliceIndex => E[Slice(t, i)] = << >>
    OBVIOUS
  <2>1. i > c.sliceIndex + 1 => i > c.sliceIndex
    BY <1>5
  <2> QED
    BY <1>2, <1>7, <2>1
<1> QED
  BY <1>2, <1>6, <1>8, <1>9 DEF Stand

\* Renaming the first file of a table.
LEMMA RenameFacts ==
  ASSUME NEW t \in Tables, NEW j \in Jobs
  PROVE  /\ RenameOp(t) \in OpType /\ TableOp(t, RenameOp(t)) /\ RenameOp(t).kind = "rename"
         /\ RenameOp(t).file = Whole(t) /\ RenameOp(t).to = Slice(t, 0)
         /\ Slice(t, 0) # Whole(t) /\ CsvEntry(t, RenameOp(t)).op = RenameOp(t)
<1>1. RenameOp(t) \in OpType
  BY RenameEntries
<1>2. /\ RenameOp(t).kind = "rename" /\ RenameOp(t).file = Whole(t)
      /\ RenameOp(t).to = Slice(t, 0)
  BY DEF RenameOp, Rename
<1>3. TableOp(t, RenameOp(t))
  BY <1>2, FileNames DEF TableOp, Streams
<1>4. Slice(t, 0) # Whole(t)
  BY DEF Slice, Whole
<1>5. CsvEntry(t, RenameOp(t)).op = RenameOp(t)
  BY DEF CsvEntry, Entry
<1> QED
  BY <1>1, <1>2, <1>3, <1>4, <1>5

\* What AppendCsv queues when the last slice is full completes that slice.
LEMMA ClosingStands ==
  ASSUME NEW t \in Tables, NEW c \in CsvType, CsvWell(t, c), c.started, Full(c),
         c.next <= c.job.rows, NEW b, b = NextSlice(t, c), b.sliceIndex \in 0..MaxSlice,
         NEW G \in Disk(t), Stand(t, c, G)
  PROVE  \E E \in Disk(t) : Replays(t, OpsOf(Completing(t, c)), G, E) /\ Stand(t, b, E)
<1>1. PICK H \in Disk(t) : Replays(t, OpsOf(FlushBuffer(t, c)), G, H) /\ Stand(t, Emptied(c), H)
  BY FlushStands
<1>2. FlushBuffer(t, c) \in Seq(EntryType)
  BY FlushEntries DEF TableEntries
<1>3. c.sliceMode \in BOOLEAN /\ c.job \in Jobs
  BY DEF CsvType
<1>4. CASE c.sliceMode = TRUE
  <2>1. Completing(t, c) = FlushBuffer(t, c) \o << >>
    BY <1>4, CompletingIs
  <2>2. Completing(t, c) = FlushBuffer(t, c)
    BY <1>2, <2>1, ConcatEmptySeq
  <2>3. Stand(t, b, H)
    BY <1>1, <1>4, CompletedStands
  <2> QED
    BY <1>1, <2>2, <2>3
<1>5. CASE c.sliceMode = FALSE
  <2>1. PICK op : op = RenameOp(t)
    OBVIOUS
  <2>2. /\ op \in OpType /\ TableOp(t, op) /\ op.kind = "rename" /\ op.file = Whole(t)
        /\ op.to = Slice(t, 0) /\ op.to # op.file /\ CsvEntry(t, op).op = op
    BY <1>3, <2>1, RenameFacts
  <2>3. PICK E : E = Apply(op, H)
    OBVIOUS
  <2>4. E \in Disk(t)
    BY <2>2, <2>3, ApplyType
  <2>5. /\ E[op.to] = H[op.file] /\ E[op.file] = << >>
        /\ \A n \in NamesOf(t) : n # op.file /\ n # op.to => E[n] = H[n]
    BY <2>2, <2>3, RenameValues
  <2>6. Stand(t, b, E)
    <3>1. /\ E[Slice(t, 0)] = H[Whole(t)] /\ E[Whole(t)] = << >>
          /\ \A n \in NamesOf(t) : n # Whole(t) /\ n # Slice(t, 0) => E[n] = H[n]
      BY <2>2, <2>5
    <3>2. ~(c.sliceMode = TRUE)
      BY <1>5
    <3> QED
      BY <1>1, <2>4, <3>1, <3>2, CompletedStands
  <2>7. Completing(t, c) = FlushBuffer(t, c) \o <<CsvEntry(t, op)>>
    BY <1>5, <2>1, CompletingIs
  <2>8. <<CsvEntry(t, op)>> \in Seq(EntryType)
    BY <1>3, <2>1, RenameEntries DEF TableEntries
  <2>9. OpsOf(Completing(t, c)) = OpsOf(FlushBuffer(t, c)) \o <<op>>
    <3>1. OpsOf(<<CsvEntry(t, op)>>) = <<op>>
      BY <2>2, OpsOfOne
    <3> QED
      BY <1>2, <2>7, <2>8, <3>1, OpsOfConcat
  <2>10. Replays(t, <<op>>, H, E)
    BY <2>3, <2>4, ReplaysOne
  <2>11. OpsOf(FlushBuffer(t, c)) \in Seq(OpType) /\ <<op>> \in Seq(OpType)
    BY <1>2, <2>2, OpsOfConcat
  <2> QED
    BY <1>1, <2>4, <2>6, <2>9, <2>10, <2>11, ReplaysConcat
<1> QED
  BY <1>3, <1>4, <1>5

\* Before its next row, whatever that takes, the stream stands as it did.
LEMMA BeforeStands ==
  ASSUME NEW t \in Tables, NEW c \in CsvType, CsvWell(t, c), c.next <= c.job.rows,
         NEW G \in Disk(t), Stand(t, c, G)
  PROVE  \E E \in Disk(t) : /\ Replays(t, OpsOf(Closing(t, c)), G, E)
                            /\ Stand(t, Before(t, c), E)
<1>0. PICK b : b = Before(t, c)
  OBVIOUS
<1>1. /\ b \in CsvType /\ b.sliceIndex \in 0..MaxSlice
      /\ b.path = IF b.sliceMode THEN Slice(t, b.sliceIndex) ELSE Whole(t)
      /\ b.path \in Names
  <2>1. /\ b \in CsvType
        /\ b.path = IF b.sliceMode THEN Slice(t, b.sliceIndex) ELSE Whole(t)
        /\ b.path \in Names
    BY <1>0, BeforeWell
  <2> QED
    BY <2>1 DEF CsvType
<1>2. c.started \in BOOLEAN
  BY DEF CsvType
<1>3. CASE c.started = FALSE
  <2>1. Closing(t, c) = << >>
    BY <1>3 DEF Closing
  <2>2. Replays(t, OpsOf(Closing(t, c)), G, G)
    BY <2>1, OpsOfOne, ReplaysNone
  <2>3. \A n \in NamesOf(t) : G[n] = << >>
    BY <1>3 DEF Stand
  <2>4. b = Opening(t, c)
    BY <1>0, <1>3 DEF Before
  <2>5. /\ b.buffer = Header /\ b.started = TRUE /\ b.sliceIndex = c.sliceIndex
        /\ b.rowsInSlice = c.rowsInSlice
    BY <2>4, OpeningFields
  <2>6. c.sliceIndex = 0 /\ c.rowsInSlice = 0
    BY <1>3 DEF CsvWell
  <2>7. b.path \in NamesOf(t) /\ Whole(t) \in NamesOf(t)
    BY <1>1, TablePaths
  <2>8. G[b.path] \o b.buffer = Rows(t, b.sliceIndex, b.rowsInSlice)
    <3>1. Rows(t, 0, 0) = Header
      BY RowsMore
    <3> QED
      BY <2>3, <2>5, <2>6, <2>7, <3>1, HeaderFirst
  <2>9. \A i \in 0..MaxSlice : ~(i < b.sliceIndex) /\ G[Slice(t, i)] = << >>
    BY <2>3, <2>5, <2>6, TablePaths
  <2>10. Stand(t, b, G)
    BY <2>3, <2>5, <2>7, <2>8, <2>9 DEF Stand
  <2> QED
    BY <1>0, <2>2, <2>10
<1>4. CASE c.started = TRUE /\ Full(c)
  <2>1. b = NextSlice(t, c) /\ Closing(t, c) = Completing(t, c)
    BY <1>0, <1>4 DEF Before, Closing
  <2>2. c.started
    BY <1>4
  <2> QED
    BY <1>0, <1>1, <1>4, <2>1, <2>2, ClosingStands
<1>5. CASE c.started = TRUE /\ ~Full(c)
  <2>1. b = c /\ Closing(t, c) = << >>
    BY <1>0, <1>5 DEF Before, Closing
  <2>2. Replays(t, OpsOf(Closing(t, c)), G, G)
    BY <2>1, OpsOfOne, ReplaysNone
  <2> QED
    BY <1>0, <2>1, <2>2
<1> QED
  BY <1>2, <1>3, <1>4, <1>5

LEMMA BeforeSliced ==
  ASSUME NEW t \in Tables, NEW c \in CsvType, CsvWell(t, c), Sliced(c), NEW b, b = Before(t, c)
  PROVE  Sliced(b)
<1>1. c.started \in BOOLEAN /\ c.job \in Jobs /\ c.job.hint \in Nat /\ Limit \in Nat
  BY JobTypes, ConstantsAssumption DEF CsvType
<1>2. CASE c.started = FALSE
  <2>1. b = Opening(t, c)
    BY <1>2 DEF Before
  <2>2. /\ b.job = c.job
        /\ b.sliceMode = TRUE => c.job.hint > Limit
        /\ b.sliceMode = FALSE => ~(c.job.hint > Limit)
    BY <2>1, OpeningFields, ZenonT(60)
  <2>3. ~(c.job.hint > Limit) => c.job.hint <= Limit
    BY <1>1
  <2> QED
    BY <2>2, <2>3 DEF Sliced
<1>3. CASE c.started = TRUE /\ Full(c)
  <2>1. b = NextSlice(t, c) /\ c.started
    BY <1>3 DEF Before
  <2>2. b.sliceMode = TRUE /\ b.sliceIndex = c.sliceIndex + 1
    BY <2>1, NextSliceFields
  <2>3. c.sliceIndex \in Nat
    BY DEF CsvType
  <2>4. b.sliceIndex >= 1
    BY <2>2, <2>3
  <2> QED
    BY <2>2, <2>4 DEF Sliced
<1>4. CASE c.started = TRUE /\ ~Full(c)
  <2>1. b = c
    BY <1>4 DEF Before
  <2> QED
    BY <2>1
<1> QED
  BY <1>1, <1>2, <1>3, <1>4

LEMMA WithRowFields ==
  ASSUME NEW t \in Tables, NEW c \in CsvType, NEW b \in CsvType, b = Before(t, c),
         NEW w \in CsvType, w = WithRow(t, c)
  PROVE  /\ w.started = b.started /\ w.path = b.path /\ w.sliceMode = b.sliceMode
         /\ w.sliceIndex = b.sliceIndex /\ w.job = b.job
         /\ w.rowsInSlice = b.rowsInSlice + 1 /\ w.next = b.next + 1
<1> DEFINE r == Row(t, c.next)
<1>1. w = [b EXCEPT !.buffer = b.buffer \o r, !.next = b.next + 1,
                    !.rowsInSlice = b.rowsInSlice + 1]
  BY DEF WithRow
<1> HIDE DEF r
<1>2. /\ w.started = b.started /\ w.path = b.path /\ w.sliceMode = b.sliceMode
      /\ w.sliceIndex = b.sliceIndex /\ w.job = b.job
      /\ w.rowsInSlice = b.rowsInSlice + 1 /\ w.next = b.next + 1
  BY <1>1 DEF CsvType
<1> QED
  BY <1>2

LEMMA WithRowBuffer ==
  ASSUME NEW t \in Tables, NEW c \in CsvType, NEW b \in CsvType, b = Before(t, c),
         NEW w \in CsvType, w = WithRow(t, c)
  PROVE  w.buffer = b.buffer \o Row(t, c.next)
<1> DEFINE r == Row(t, c.next)
<1>1. w = [b EXCEPT !.buffer = b.buffer \o r, !.next = b.next + 1,
                    !.rowsInSlice = b.rowsInSlice + 1]
  BY DEF WithRow
<1> HIDE DEF r
<1>2. w.buffer = b.buffer \o r
  BY <1>1 DEF CsvType
<1> QED
  BY <1>2 DEF r

LEMMA ThreeFiles ==
  ASSUME NEW x \in FileType, NEW y \in FileType, NEW z \in FileType
  PROVE  x \o (y \o z) = (x \o y) \o z
<1>1. PICK S : S = Tokens \X Nat
  OBVIOUS
<1>2. x \in Seq(S) /\ y \in Seq(S) /\ z \in Seq(S)
  BY <1>1 DEF FileType
<1> QED
  BY <1>2, ConcatAssociative

\* A row joins those of its slice.
LEMMA RowJoins ==
  ASSUME NEW t \in Tables, NEW b \in CsvType, b.started = TRUE, b.path \in NamesOf(t),
         NEW n \in Nat, n = b.sliceIndex * Limit + (b.rowsInSlice + 1),
         NEW H \in Disk(t), Stand(t, b, H), Sliced(b),
         NEW w \in CsvType, w.started = TRUE, w.path = b.path, w.sliceMode = b.sliceMode,
         w.sliceIndex = b.sliceIndex, w.job = b.job, w.rowsInSlice = b.rowsInSlice + 1,
         w.buffer = b.buffer \o Row(t, n)
  PROVE  Stand(t, w, H) /\ Sliced(w)
<1>1. b.sliceIndex \in Nat /\ b.rowsInSlice \in Nat /\ b.buffer \in FileType
  BY DEF CsvType
<1>2. H[b.path] \in FileType
  BY DEF Disk
<1>3. Row(t, n) \in FileType
  <2>1. <<t, n>> \in Tokens \X Nat
    BY MarkTokens DEF Assemblers
  <2> QED
    BY <2>1 DEF Row, FileType
<1>4. H[b.path] \o b.buffer = Rows(t, b.sliceIndex, b.rowsInSlice)
  BY DEF Stand
<1>5. H[b.path] \o (b.buffer \o Row(t, n)) = (H[b.path] \o b.buffer) \o Row(t, n)
  <2>1. PICK x, y, z : x = H[b.path] /\ y = b.buffer /\ z = Row(t, n)
    OBVIOUS
  <2>2. x \in FileType /\ y \in FileType /\ z \in FileType
    BY <1>1, <1>2, <1>3, <2>1
  <2>3. x \o (y \o z) = (x \o y) \o z
    BY <2>2, ThreeFiles
  <2> QED
    BY <2>1, <2>3
<1>6. Rows(t, b.sliceIndex, b.rowsInSlice) \o Row(t, n)
        = Rows(t, b.sliceIndex, b.rowsInSlice + 1)
  BY <1>1, RowsMore
<1>7. H[w.path] \o w.buffer = Rows(t, w.sliceIndex, w.rowsInSlice)
  BY <1>4, <1>5, <1>6
<1>8. Stand(t, w, H)
  BY <1>7 DEF Stand
<1>9. Sliced(w)
  BY DEF Sliced
<1> QED
  BY <1>8, <1>9

LEMMA RowStands ==
  ASSUME NEW t \in Tables, NEW c \in CsvType, CsvWell(t, c), c.next <= c.job.rows,
         NEW b, b = Before(t, c), NEW w, w = WithRow(t, c),
         NEW H \in Disk(t), Stand(t, b, H), Sliced(b)
  PROVE  Stand(t, w, H) /\ Sliced(w)
<1>1. /\ b \in CsvType /\ b.started = TRUE /\ b.rowsInSlice \in 0..(Limit - 1)
      /\ b.sliceIndex * Limit + b.rowsInSlice = c.next - 1
      /\ b.path = IF b.sliceMode THEN Slice(t, b.sliceIndex) ELSE Whole(t)
      /\ b.path \in Names
  BY BeforeWell
<1>2. b \in CsvType /\ b.started = TRUE
  BY <1>1
<1>w. w \in CsvType
  BY WithRowWell
<1>3. /\ b.sliceIndex \in Nat /\ b.rowsInSlice \in Nat /\ c.next \in Nat /\ Limit \in Nat
  BY <1>2, ConstantsAssumption DEF CsvType
<1>4. c.next = b.sliceIndex * Limit + (b.rowsInSlice + 1)
  <2>1. PICK m \in Nat : m = b.sliceIndex * Limit
    BY <1>3
  <2>2. m + b.rowsInSlice = c.next - 1
    BY <1>1, <2>1
  <2>3. c.next = m + (b.rowsInSlice + 1)
    BY <1>3, <2>2
  <2> QED
    BY <2>1, <2>3
<1>5. b.path \in NamesOf(t)
  <2>1. b.path = Whole(t) \/ b.path = Slice(t, b.sliceIndex)
    BY <1>1
  <2>2. b.path[1] = t
    BY <2>1, FileNames DEF Streams
  <2> QED
    BY <1>1, <2>2 DEF NamesOf
<1>6. /\ w.started = b.started /\ w.path = b.path /\ w.sliceMode = b.sliceMode
      /\ w.sliceIndex = b.sliceIndex /\ w.job = b.job
      /\ w.rowsInSlice = b.rowsInSlice + 1 /\ w.next = b.next + 1
  BY <1>2, <1>w, WithRowFields
<1>a. w.buffer = b.buffer \o Row(t, c.next)
  BY <1>2, <1>w, WithRowBuffer
<1>7. w.started = TRUE
  BY <1>2, <1>6
<1> QED
  BY <1>2, <1>3, <1>4, <1>5, <1>6, <1>7, <1>a, <1>w, RowJoins

LEMMA EmptiedSliced ==
  ASSUME NEW c \in CsvType, Sliced(c)
  PROVE  Sliced(Emptied(c))
BY EmptiedFields DEF Sliced

\* What AppendCsv queues leaves the files and the stream standing.
LEMMA AppendStands ==
  ASSUME NEW t \in Tables, NEW c \in CsvType, CsvWell(t, c), c.next <= c.job.rows,
         NEW G \in Disk(t), Stand(t, c, G), Sliced(c),
         NEW d, d = IF Flushes(t, c) THEN Emptied(WithRow(t, c)) ELSE WithRow(t, c)
  PROVE  /\ Sliced(d)
         /\ \E E \in Disk(t) : /\ Replays(t, OpsOf(Closing(t, c) \o Writing(t, c)), G, E)
                               /\ Stand(t, d, E)
<1>0. PICK b, w : b = Before(t, c) /\ w = WithRow(t, c)
  OBVIOUS
<1>1. PICK H \in Disk(t) : Replays(t, OpsOf(Closing(t, c)), G, H) /\ Stand(t, b, H)
  BY <1>0, BeforeStands
<1>2. Sliced(b)
  BY <1>0, BeforeSliced
<1>3. Stand(t, w, H) /\ Sliced(w)
  BY <1>0, <1>1, <1>2, RowStands
<1>4. w \in CsvType /\ CsvWell(t, w)
  BY <1>0, WithRowWell
<1>5. PICK E \in Disk(t) : Replays(t, OpsOf(Writing(t, c)), H, E) /\ Stand(t, d, E)
  <2>1. CASE Flushes(t, c)
    <3>1. d = Emptied(w) /\ Writing(t, c) = FlushBuffer(t, w)
      BY <1>0, <2>1 DEF Writing
    <3> QED
      BY <1>3, <1>4, <3>1, FlushStands
  <2>2. CASE ~Flushes(t, c)
    <3>1. d = w /\ Writing(t, c) = << >>
      BY <1>0, <2>2 DEF Writing
    <3>2. Replays(t, OpsOf(Writing(t, c)), H, H)
      BY <3>1, OpsOfOne, ReplaysNone
    <3> QED
      BY <1>3, <3>1, <3>2
  <2> QED
    BY <2>1, <2>2
<1>6. /\ Closing(t, c) \in Seq(EntryType) /\ Writing(t, c) \in Seq(EntryType)
  BY AppendEntries DEF TableEntries
<1>7. /\ OpsOf(Closing(t, c)) \in Seq(OpType) /\ OpsOf(Writing(t, c)) \in Seq(OpType)
      /\ OpsOf(Closing(t, c) \o Writing(t, c)) = OpsOf(Closing(t, c)) \o OpsOf(Writing(t, c))
  BY <1>6, OpsOfConcat
<1>8. Replays(t, OpsOf(Closing(t, c) \o Writing(t, c)), G, E)
  BY <1>1, <1>5, <1>7, ReplaysConcat
<1>9. Sliced(d)
  BY <1>0, <1>3, <1>4, EmptiedSliced
<1> QED
  BY <1>5, <1>8, <1>9

\* The operations of a table's stream, those included that the table has still to queue.
Ahead(t) == Pending(t) \o OpsOf(out[t])
Continues(t, c, q, F) == \E G \in Disk(t) : Replays(t, q, F, G) /\ Stand(t, c, G)

\* A table while it is written: its operations, carried out, leave its files as its
\* stream has them.
TableStands(t) ==
  /\ pc[t] = "assemble" => csv[t].started = FALSE
  /\ pc[t] = "sync" => csv[t].next > csv[t].job.rows /\ csv[t].buffer = << >>
  /\ pc[t] # "done" => verdict[t] = "none"
  /\ Sliced(csv[t])
  /\ ok /\ pc[t] \in {"rows", "sync"} => Continues(t, csv[t], Ahead(t), FilesOf(t))
  /\ verdict[t] = "ok" =>
       /\ csv[t].next > csv[t].job.rows /\ csv[t].buffer = << >>
       /\ Pending(t) = << >> /\ Stand(t, csv[t], FilesOf(t))
TablesStand == \A t \in Tables : TableStands(t)

\* Nothing happens to the table.
LEMMA TableFrame ==
  ASSUME NEW t \in Tables, TableStands(t), pc'[t] = pc[t], csv'[t] = csv[t],
         verdict'[t] = verdict[t], FilesOf(t)' = FilesOf(t), Ahead(t)' = Ahead(t),
         verdict[t] = "ok" => Pending(t)' = Pending(t), ok' => ok
  PROVE  TableStands(t)'
<1>1. /\ pc'[t] = "assemble" => csv'[t].started = FALSE
      /\ pc'[t] = "sync" => csv'[t].next > csv'[t].job.rows /\ csv'[t].buffer = << >>
      /\ pc'[t] # "done" => verdict'[t] = "none"
      /\ Sliced(csv'[t])
  BY DEF TableStands
<1>2. ok' /\ pc'[t] \in {"rows", "sync"} => Continues(t, csv'[t], Ahead(t)', FilesOf(t)')
  BY DEF TableStands
<1>3. verdict'[t] = "ok" =>
        /\ csv'[t].next > csv'[t].job.rows /\ csv'[t].buffer = << >>
        /\ Pending(t)' = << >> /\ Stand(t, csv'[t], FilesOf(t)')
  BY DEF TableStands
<1> QED
  BY <1>1, <1>2, <1>3 DEF TableStands

LEMMA SameFiles ==
  ASSUME NEW t, \A n \in Names : n[1] = t => files'[n] = files[n]
  PROVE  FilesOf(t)' = FilesOf(t)
<1>1. \A n \in NamesOf(t) : files'[n] = files[n]
  BY DEF NamesOf
<1> QED
  BY <1>1 DEF FilesOf

LEMMA OutOfTable ==
  ASSUME Types, Shapes, NEW t \in Tables, TableStands(t)
  PROVE  /\ verdict[t] = "ok" => pc[t] = "done" /\ out[t] = << >>
         /\ OpsOf(out[t]) \in Seq(OpType) /\ out[t] \in Seq(EntryType)
<1>1. t \in Actors /\ t \in Assemblers
  BY TableNames DEF Assemblers
<1>2. out[t] \in Seq(EntryType)
  BY <1>1 DEF Types, OutTypes
<1>3. OpsOf(out[t]) \in Seq(OpType)
  BY <1>2, OpsOfConcat
<1>4. verdict[t] = "ok" => pc[t] = "done"
  BY DEF TableStands
<1>5. pc[t] = "done" => out[t] = << >>
  BY <1>1 DEF Shapes, Resting
<1> QED
  BY <1>2, <1>3, <1>4, <1>5

\* The first operation of a stream that has more behind it.
LEMMA FirstAhead ==
  ASSUME NEW op \in OpType, NEW q \in Seq(OpType), NEW r \in Seq(OpType)
  PROVE  /\ (<<op>> \o q) \o r = <<op>> \o (q \o r) /\ q \o r \in Seq(OpType)
         /\ Append(q, op) \o r = q \o (<<op>> \o r)
<1>1. <<op>> \in Seq(OpType)
  OBVIOUS
<1>2. (<<op>> \o q) \o r = <<op>> \o (q \o r) /\ (q \o <<op>>) \o r = q \o (<<op>> \o r)
  BY <1>1, ConcatAssociative
<1>3. Append(q, op) = q \o <<op>>
  BY AppendTo
<1>4. q \o r \in Seq(OpType)
  BY ConcatProperties
<1> QED
  BY <1>2, <1>3, <1>4

\* The first operation of a table has been carried out.
LEMMA ContinuesFront ==
  ASSUME NEW t, NEW c, NEW op \in OpType, NEW q \in Seq(OpType), NEW F,
         Continues(t, c, <<op>> \o q, F)
  PROVE  Continues(t, c, q, Apply(op, F))
<1>1. PICK G \in Disk(t) : Replays(t, <<op>> \o q, F, G) /\ Stand(t, c, G)
  BY DEF Continues
<1>2. Replays(t, q, Apply(op, F), G)
  BY <1>1, ReplaysFront
<1> QED
  BY <1>1, <1>2 DEF Continues

LEMMA AppliedFiles ==
  ASSUME Types, NEW t \in Tables, NEW op \in OpType, TableOp(t, op),
         files' = IF op.kind = "write" THEN [files EXCEPT ![op.file] = @ \o op.data]
                  ELSE [files EXCEPT ![op.to] = files[op.file], ![op.file] = << >>]
  PROVE  FilesOf(t)' = Apply(op, FilesOf(t))
<1> DEFINE F == FilesOf(t)
           E == FilesOf(t)'
<1>1. F \in Disk(t) /\ \A n \in NamesOf(t) : F[n] = files[n]
  BY FilesOfDisk
<1>2. /\ op.file \in NamesOf(t) /\ op.to \in NamesOf(t) /\ Apply(op, F) \in Disk(t)
  BY <1>1, ApplyType
<1>3. E = [n \in NamesOf(t) |-> files'[n]]
  BY DEF FilesOf, NamesOf
<1>4. files \in [Names -> FileType] /\ NamesOf(t) \subseteq Names
  BY DEF Types, FileTypes, NamesOf
<1> HIDE DEF F, E
<1>5. CASE op.kind = "write"
  <2>1. files' = [files EXCEPT ![op.file] = files[op.file] \o op.data]
    BY <1>5
  <2>2. Apply(op, F) = [F EXCEPT ![op.file] = F[op.file] \o op.data]
    BY <1>5 DEF Apply
  <2>3. F[op.file] = files[op.file]
    BY <1>1, <1>2
  <2>4. PICK x : x = files[op.file] \o op.data
    OBVIOUS
  <2>5. files' = [files EXCEPT ![op.file] = x] /\ Apply(op, F) = [F EXCEPT ![op.file] = x]
    BY <2>1, <2>2, <2>3, <2>4
  <2>6. E = [F EXCEPT ![op.file] = x]
    BY <1>1, <1>2, <1>3, <1>4, <2>5 DEF Disk
  <2> QED
    BY <2>5, <2>6 DEF E, F
<1>6. CASE op.kind # "write"
  <2>1. files' = [files EXCEPT ![op.to] = files[op.file], ![op.file] = << >>]
    BY <1>6
  <2>2. Apply(op, F) = [F EXCEPT ![op.to] = F[op.file], ![op.file] = << >>]
    BY <1>6 DEF Apply
  <2>3. F[op.file] = files[op.file]
    BY <1>1, <1>2
  <2>4. PICK x : x = files[op.file]
    OBVIOUS
  <2>5. /\ files' = [files EXCEPT ![op.to] = x, ![op.file] = << >>]
        /\ Apply(op, F) = [F EXCEPT ![op.to] = x, ![op.file] = << >>]
    BY <2>1, <2>2, <2>3, <2>4
  <2>6. E = [F EXCEPT ![op.to] = x, ![op.file] = << >>]
    BY <1>1, <1>2, <1>3, <1>4, <2>5 DEF Disk
  <2> QED
    BY <2>5, <2>6 DEF E, F
<1> QED
  BY <1>5, <1>6

LEMMA DrainKeepsTable ==
  ASSUME Types, Types', IInv, IInv', Shapes, DrainEffect, NEW t \in Tables, TableStands(t)
  PROVE  TableStands(t)'
<1>1. PICK s \in Streams : Effect(s) /\ \A u \in Streams : u # s => Pending(u)' = Pending(u)
  BY DEF DrainEffect
<1>2. t \in Streams /\ UNCHANGED <<pc, out, csv, verdict>>
  BY TableNames DEF DrainEffect, Untold
<1>3. OpsOf(out[t])' = OpsOf(out[t]) /\ pc'[t] = pc[t] /\ csv'[t] = csv[t] /\ verdict'[t] = verdict[t]
  BY <1>2
<1>4. CASE Quiet(s) \/ t # s
  <2>1. Pending(t)' = Pending(t)
    BY <1>1, <1>2, <1>4 DEF Quiet
  <2>2. \A n \in Names : n[1] = t => files'[n] = files[n]
    <3>1. CASE files' = files
      BY <3>1
    <3>2. CASE t # s /\ \E op \in OpType : Wrote(s, op)
      <4>1. \A n \in Names : n[1] # s => files'[n] = files[n]
        BY <3>2, WroteFiles
      <4> QED
        BY <3>2, <4>1
    <3> QED
      BY <1>1, <1>4, <3>1, <3>2 DEF Effect, Quiet, Lost, GivenUp
  <2>3. ok' => ok
    <3>1. ok' = ok \/ ok' = FALSE
      BY <1>1 DEF Effect, Quiet, Lost, GivenUp, Wrote
    <3> QED
      BY <3>1
  <2>4. FilesOf(t)' = FilesOf(t)
    BY <2>2, SameFiles
  <2>5. Ahead(t)' = Ahead(t)
    BY <1>3, <2>1 DEF Ahead
  <2> QED
    BY <1>3, <2>1, <2>3, <2>4, <2>5, TableFrame
<1>5. CASE t = s /\ (Lost(t) \/ GivenUp(t))
  <2>1. ok' = FALSE /\ UNCHANGED files
    BY <1>5 DEF Lost, GivenUp
  <2>2. FilesOf(t)' = FilesOf(t)
    BY <2>1, SameFiles
  <2>3. Pending(t) = << >> => Pending(t)' = << >>
    BY <1>5 DEF Lost, GivenUp
  <2>4. verdict'[t] = "ok" =>
          /\ csv'[t].next > csv'[t].job.rows /\ csv'[t].buffer = << >>
          /\ Pending(t)' = << >> /\ Stand(t, csv'[t], FilesOf(t)')
    BY <1>3, <2>2, <2>3 DEF TableStands
  <2> QED
    BY <1>3, <2>1, <2>4 DEF TableStands
<1>6. CASE t = s /\ \E op \in OpType : Wrote(t, op)
  <2>1. PICK op \in OpType : Wrote(t, op)
    BY <1>6
  <2>2. TableOp(t, op) /\ Pending(t) # << >>
    BY <1>2, <2>1, WroteFiles DEF OpOf
  <2>3. PICK q \in Seq(OpType) : q = Pending(t)'
    BY <1>2, NextPendingType
  <2>4. Pending(t) = <<op>> \o q /\ ok' = ok
    BY <2>1, <2>3 DEF Wrote
  <2>5. FilesOf(t)' = Apply(op, FilesOf(t))
    BY <2>1, <2>2, AppliedFiles DEF Wrote
  <2>6. PICK r \in Seq(OpType) : r = OpsOf(out[t])
    BY OutOfTable
  <2>7. Ahead(t)' = q \o r
    BY <1>3, <2>3, <2>6 DEF Ahead
  <2>8. Ahead(t) = <<op>> \o (q \o r) /\ q \o r \in Seq(OpType)
    <3>1. (<<op>> \o q) \o r = <<op>> \o (q \o r) /\ q \o r \in Seq(OpType)
      BY FirstAhead
    <3>2. Ahead(t) = (<<op>> \o q) \o r
      BY <2>4, <2>6 DEF Ahead
    <3> QED
      BY <3>1, <3>2
  <2>9. ok' /\ pc'[t] \in {"rows", "sync"} => Continues(t, csv'[t], Ahead(t)', FilesOf(t)')
    <3> SUFFICES ASSUME ok', pc'[t] \in {"rows", "sync"}
                 PROVE  Continues(t, csv'[t], Ahead(t)', FilesOf(t)')
      OBVIOUS
    <3>1. Continues(t, csv[t], Ahead(t), FilesOf(t))
      BY <1>3, <2>4 DEF TableStands
    <3>2. Continues(t, csv[t], q \o r, Apply(op, FilesOf(t)))
      BY <2>8, <3>1, ContinuesFront
    <3> QED
      BY <1>3, <2>5, <2>7, <3>2
  <2>10. verdict'[t] # "ok"
    <3>1. verdict[t] = "ok" => Pending(t) = << >>
      BY DEF TableStands
    <3> QED
      BY <1>3, <2>2, <3>1
  <2> QED
    BY <1>3, <2>9, <2>10 DEF TableStands
<1> QED
  BY <1>1, <1>4, <1>5, <1>6 DEF Effect

\* A table queues the first of its operations, or another actor one of its own.
LEMMA EnqueueKeepsTable ==
  ASSUME Types, Types', IInv, IInv', Shapes, NEW p \in Actors, Enqueue(p),
         NEW t \in Tables, TableStands(t)
  PROVE  TableStands(t)'
<1>0. PICK e : e = Head(out[p])
  OBVIOUS
<1>1. /\ out[p] # << >> /\ e \in EntryType /\ e.stream \in Streams /\ QueuedOp(e) \in OpType
      /\ files' = IF First(e) THEN [files EXCEPT ![Whole(e.stream)] = << >>] ELSE files
      /\ out' = [out EXCEPT ![p] = Tail(@)]
      /\ UNCHANGED <<pc, csv, verdict, ok>>
  BY <1>0, EnqueueEffect
<1>2. /\ Pending(e.stream)' = Append(Pending(e.stream), QueuedOp(e))
      /\ \A u \in Streams : u # e.stream => Pending(u)' = Pending(u)
  BY <1>0, EnqueuePending
<1>3. t \in Streams /\ t \in Actors /\ t # Main /\ t \notin Sinks /\ t \notin JsonFiles
      /\ out \in [Actors -> Seq(EntryType)] /\ files \in [Names -> FileType]
  BY TableNames, FileNames, MainFacts
<1>4. pc'[t] = pc[t] /\ csv'[t] = csv[t] /\ verdict'[t] = verdict[t] /\ (ok' => ok)
  BY <1>1
<1>5. CASE p = t
  <2>1. e.stream = t /\ e.prefix = FALSE /\ QueuedOp(e) = e.op
    BY <1>0, <1>3, <1>5, NextEntry DEF TableEntry
  <2>2. files' = files
    BY <1>1, <2>1 DEF First
  <2>3. FilesOf(t)' = FilesOf(t)
    BY <2>2, SameFiles
  <2>4. PICK o, q : o = e.op /\ q = Tail(out[t])
    OBVIOUS
  <2>5. out[t] = <<e>> \o q /\ q \in Seq(EntryType) /\ out'[t] = q
    <3>1. out[t] \in Seq(EntryType) /\ out[t] # << >>
      BY <1>1, <1>3, <1>5
    <3>2. out[t] = <<Head(out[t])>> \o Tail(out[t])
      BY <3>1, HeadInFront
    <3>3. Tail(out[t]) \in Seq(EntryType)
      BY <3>1, HeadTailProperties
    <3> QED
      BY <1>0, <1>1, <1>3, <1>5, <2>4, <3>2, <3>3
  <2>6. OpsOf(out[t]) = <<o>> \o OpsOf(q) /\ OpsOf(q) \in Seq(OpType)
    <3>1. <<e>> \in Seq(EntryType) /\ OpsOf(<<e>>) = <<o>>
      BY <1>1, <2>4, OpsOfOne
    <3> QED
      BY <2>5, <3>1, OpsOfConcat
  <2>7. PICK P \in Seq(OpType) : P = Pending(t)
    BY <1>3, PendingType
  <2>8. Pending(t)' = Append(P, o) /\ o \in OpType
    BY <1>1, <1>2, <2>1, <2>4, <2>7
  <2>9. Append(P, o) \o OpsOf(q) = P \o (<<o>> \o OpsOf(q))
    BY <2>6, <2>8, FirstAhead
  <2>10. Ahead(t)' = Ahead(t)
    BY <2>5, <2>6, <2>7, <2>8, <2>9 DEF Ahead
  <2>11. verdict[t] # "ok"
    BY <1>1, <1>5, OutOfTable
  <2> QED
    BY <1>4, <2>3, <2>10, <2>11, TableFrame
<1>6. CASE p # t
  <2>1. e.stream # t
    <3>1. CASE p \in Sinks /\ EventEntry(p, e)
      <4>1. e.stream \in JsonFiles
        BY <3>1, EventOp
      <4> QED
        BY <1>3, <4>1
    <3>2. CASE p \in Tables /\ TableEntry(p, e)
      BY <1>6, <3>2 DEF TableEntry
    <3>3. CASE \E f \in JsonFiles : e = Close(f)
      BY <1>3, <3>3 DEF Close, Entry
    <3> QED
      BY <1>0, <3>1, <3>2, <3>3, NextEntry
  <2>2. Pending(t)' = Pending(t)
    BY <1>2, <1>3, <2>1
  <2>3. out'[t] = out[t]
    BY <1>1, <1>3, <1>6
  <2>4. \A n \in Names : n[1] = t => files'[n] = files[n]
    <3>1. Whole(e.stream)[1] # t
      BY <1>1, <2>1, FileNames
    <3>2. CASE First(e)
      BY <1>1, <1>3, <3>1, <3>2
    <3>3. CASE ~First(e)
      BY <1>1, <3>3
    <3> QED
      BY <3>2, <3>3
  <2>5. FilesOf(t)' = FilesOf(t)
    BY <2>4, SameFiles
  <2>6. Ahead(t)' = Ahead(t)
    BY <2>2, <2>3 DEF Ahead
  <2> QED
    BY <1>4, <2>2, <2>5, <2>6, TableFrame
<1> QED
  BY <1>5, <1>6

\* What the steps of a table leave alone.
LEMMA TableLeaves ==
  ASSUME Types, NEW u \in Tables, Table(u)
  PROVE  /\ \A s \in Streams : Pending(s)' = Pending(s)
         /\ ok' = ok
         /\ \A n \in Names : n[1] # u => files'[n] = files[n]
         /\ \A t \in Tables : t # u => /\ pc'[t] = pc[t] /\ csv'[t] = csv[t]
                                       /\ verdict'[t] = verdict[t] /\ out'[t] = out[t]
<1>1. UNCHANGED <<queue, at, hand, ok>>
  BY DEF Table, StartCsv, AppendRow, FinishCsv, EndCsv, Abandon, streamVars, drainVars
<1>2. \A n \in Names : n[1] # u => files'[n] = files[n]
  BY DEF Table, StartCsv, AppendRow, FinishCsv, EndCsv, Abandon, Types, FileTypes
<1>3. /\ csv \in [Tables -> CsvType] /\ pc \in [Actors -> PcValues] /\ Tables \subseteq Actors
      /\ out \in [Actors -> Seq(EntryType)]
      /\ verdict \in [Actors -> {"none", "ok", "failed", "discarded"}]
  BY StreamKinds DEF Types, CsvTypes, ActorTypes, OutTypes
<1>4. ASSUME NEW t \in Tables, t # u
      PROVE  pc'[t] = pc[t] /\ csv'[t] = csv[t] /\ verdict'[t] = verdict[t] /\ out'[t] = out[t]
  <2>1. t \in Actors
    BY <1>3
  <2>2. CASE StartCsv(u)
    BY <1>3, <1>4, <2>1, <2>2 DEF StartCsv
  <2>3. CASE AppendRow(u)
    BY <1>3, <1>4, <2>1, <2>3, AppendRowEffect
  <2>4. CASE FinishCsv(u)
    BY <1>3, <1>4, <2>1, <2>4, FinishCsvEffect
  <2>5. CASE EndCsv(u)
    BY <1>3, <1>4, <2>1, <2>5 DEF EndCsv
  <2>6. CASE Abandon(u)
    BY <1>3, <1>4, <2>1, <2>6 DEF Abandon
  <2> QED
    BY <2>2, <2>3, <2>4, <2>5, <2>6 DEF Table
<1> QED
  BY <1>1, <1>2, <1>4, StillPending

LEMMA OtherTable ==
  ASSUME Types, NEW u \in Tables, Table(u), NEW t \in Tables, t # u, TableStands(t)
  PROVE  TableStands(t)'
<1>1. /\ Pending(t)' = Pending(t) /\ (ok' => ok)
      /\ pc'[t] = pc[t] /\ csv'[t] = csv[t] /\ verdict'[t] = verdict[t] /\ out'[t] = out[t]
      /\ \A n \in Names : n[1] # u => files'[n] = files[n]
  BY TableLeaves, FileNames
<1>2. \A n \in Names : n[1] = t => files'[n] = files[n]
  BY <1>1
<1>3. FilesOf(t)' = FilesOf(t)
  BY <1>2, SameFiles
<1>4. Ahead(t)' = Ahead(t)
  BY <1>1 DEF Ahead
<1> QED
  BY <1>1, <1>3, <1>4, TableFrame

\* Nothing is to be carried out: the files are as the stream has them.
LEMMA NothingAhead ==
  ASSUME Types, NEW t \in Tables, NEW c
  PROVE  Continues(t, c, << >>, FilesOf(t)) <=> Stand(t, c, FilesOf(t))
<1>1. FilesOf(t) \in Disk(t)
  BY FilesOfDisk
<1>2. Replays(t, << >>, FilesOf(t), FilesOf(t))
  BY <1>1, ReplaysNone
<1>3. ASSUME NEW G, Replays(t, << >>, FilesOf(t), G) PROVE G = FilesOf(t)
  BY <1>3, ReplaysNone
<1> QED
  BY <1>1, <1>2, <1>3 DEF Continues

\* More is queued behind what is: the stream moves on with it.
LEMMA ContinuesMore ==
  ASSUME NEW t, NEW F, NEW c, NEW q \in Seq(OpType), NEW d, NEW r \in Seq(OpType),
         Continues(t, c, q, F),
         \A G \in Disk(t) : Stand(t, c, G) => \E E \in Disk(t) : Replays(t, r, G, E) /\ Stand(t, d, E)
  PROVE  Continues(t, d, q \o r, F)
<1>1. PICK G \in Disk(t) : Replays(t, q, F, G) /\ Stand(t, c, G)
  BY DEF Continues
<1>2. PICK E \in Disk(t) : Replays(t, r, G, E) /\ Stand(t, d, E)
  BY <1>1
<1>3. Replays(t, q \o r, F, E)
  BY <1>1, <1>2, ReplaysConcat
<1> QED
  BY <1>2, <1>3 DEF Continues

\* An idle table has only what its stream has.
LEMMA IdleAhead ==
  ASSUME Types, IInv, NEW t \in Tables, out[t] = << >>
  PROVE  /\ Ahead(t) = Pending(t) /\ Pending(t) \in Seq(OpType)
<1>1. Pending(t) \in Seq(OpType)
  BY PendingType, TableNames
<1>2. OpsOf(out[t]) = << >>
  BY OpsOfOne
<1>3. Pending(t) \o << >> = Pending(t)
  BY <1>1, ConcatEmptySeq
<1> QED
  BY <1>1, <1>2, <1>3 DEF Ahead

LEMMA StartKeepsTable ==
  ASSUME Types, Types', IInv, Shapes, NEW t \in Tables, TableStands(t), StartCsv(t)
  PROVE  TableStands(t)'
<1>1. /\ pc[t] = "assemble" /\ Drained(t) /\ pc'[t] = "rows" /\ UNCHANGED <<out, csv, verdict, ok>>
      /\ files' = [n \in Names |-> IF n[1] = t THEN << >> ELSE files[n]]
  <2>1. pc \in [Actors -> PcValues] /\ t \in Actors
    BY TableNames, MainFacts
  <2> QED
    BY <2>1 DEF StartCsv
<1>2. t \in Streams /\ t \in Assemblers
  BY TableNames DEF Assemblers
<1>3. out[t] = << >> /\ out'[t] = << >>
  BY <1>1 DEF Shapes, Resting
<1>4. Pending(t) = << >>
  BY <1>1, <1>2, DrainedPending
<1>5. Pending(t)' = << >>
  <2>1. Table(t)
    BY DEF Table
  <2> QED
    BY <1>2, <1>4, <2>1, TableLeaves
<1>6. Ahead(t)' = << >>
  <2>1. OpsOf(out[t]') = << >>
    BY <1>3, OpsOfOne
  <2>2. << >> \o << >> = << >>
    BY ConcatEmptySeq
  <2> QED
    BY <1>5, <2>1, <2>2 DEF Ahead
<1>7. csv'[t].started = FALSE /\ csv'[t] = csv[t] /\ verdict'[t] = "none"
  BY <1>1 DEF TableStands
<1>8. Stand(t, csv'[t], FilesOf(t)')
  <2>1. \A n \in NamesOf(t) : FilesOf(t)'[n] = << >>
    BY <1>1 DEF FilesOf, NamesOf
  <2>2. csv'[t].started # TRUE
    BY <1>7
  <2> QED
    BY <2>1, <2>2 DEF Stand
<1>9. FilesOf(t)' \in Disk(t)
  <2>1. files' \in [Names -> FileType]
    BY DEF Types, FileTypes
  <2> QED
    BY <2>1 DEF FilesOf, Disk, NamesOf
<1>10. Continues(t, csv'[t], Ahead(t)', FilesOf(t)')
  <2>1. Replays(t, << >>, FilesOf(t)', FilesOf(t)')
    BY <1>9, ReplaysNone
  <2> QED
    BY <1>6, <1>8, <1>9, <2>1 DEF Continues
<1>11. Sliced(csv'[t])
  BY <1>7 DEF TableStands
<1>12. /\ pc'[t] # "assemble" /\ pc'[t] # "sync" /\ pc'[t] # "done" /\ verdict'[t] # "ok"
  BY <1>1, <1>7
<1> QED
  BY <1>7, <1>10, <1>11, <1>12 DEF TableStands

LEMMA AppendKeepsTable ==
  ASSUME Types, Types', IInv, NEW t \in Tables, TableStands(t), AppendRow(t)
  PROVE  TableStands(t)'
<1>0. PICK c : c = csv[t]
  OBVIOUS
<1>1. PICK d : d = IF Flushes(t, c) THEN Emptied(WithRow(t, c)) ELSE WithRow(t, c)
  OBVIOUS
<1>2. PICK q : q = Closing(t, c) \o Writing(t, c)
  OBVIOUS
<1>3. /\ pc[t] = "rows" /\ out[t] = << >> /\ c.next <= c.job.rows
      /\ csv'[t] = d /\ out'[t] = q /\ UNCHANGED <<pc, verdict, files, ok>>
  <2>1. csv \in [Tables -> CsvType] /\ out \in [Actors -> Seq(EntryType)] /\ t \in Actors
    BY TableNames, MainFacts DEF Types, CsvTypes
  <2>2. /\ csv' = [csv EXCEPT ![t] = d] /\ out' = [out EXCEPT ![t] = q]
    BY <1>0, <1>1, <1>2, AppendRowEffect
  <2>3. /\ pc[t] = "rows" /\ Idle(t) /\ c.next <= c.job.rows
        /\ UNCHANGED <<pc, verdict, files, ok>>
    BY <1>0, AppendRowEffect
  <2> QED
    BY <2>1, <2>2, <2>3 DEF Idle
<1>4. c \in CsvType /\ CsvWell(t, c) /\ Sliced(c) /\ verdict[t] = "none"
  BY <1>0, <1>3 DEF Types, CsvTypes, TableStands
<1>5. q \in Seq(EntryType) /\ OpsOf(q) \in Seq(OpType)
  <2>1. Closing(t, c) \in Seq(EntryType) /\ Writing(t, c) \in Seq(EntryType)
    BY <1>3, <1>4, AppendEntries DEF TableEntries
  <2>2. q \in Seq(EntryType)
    BY <1>2, <2>1, ConcatProperties
  <2> QED
    BY <2>2, OpsOfConcat
<1>6. ASSUME NEW G \in Disk(t), Stand(t, c, G)
      PROVE  Sliced(d) /\ \E E \in Disk(t) : Replays(t, OpsOf(q), G, E) /\ Stand(t, d, E)
  BY <1>1, <1>2, <1>3, <1>4, <1>6, AppendStands
<1>7. Sliced(d)
  <2>1. PICK b, w : b = Before(t, c) /\ w = WithRow(t, c)
    OBVIOUS
  <2>2. b \in CsvType /\ w \in CsvType
    <3>1. b \in CsvType
      BY <1>3, <1>4, <2>1, BeforeWell
    <3>2. w \in CsvType
      BY <1>3, <1>4, <2>1, WithRowWell
    <3> QED
      BY <3>1, <3>2
  <2>3. Sliced(b)
    BY <1>4, <2>1, BeforeSliced
  <2>4. Sliced(w)
    <3>1. /\ w.started = b.started /\ w.sliceMode = b.sliceMode
          /\ w.sliceIndex = b.sliceIndex /\ w.job = b.job
      BY <1>4, <2>1, <2>2, WithRowFields
    <3> QED
      BY <2>3, <3>1 DEF Sliced
  <2>5. Sliced(Emptied(w))
    BY <2>2, <2>4, EmptiedSliced
  <2>6. d = w \/ d = Emptied(w)
    BY <1>1, <2>1
  <2> QED
    BY <2>4, <2>5, <2>6
<1>8. Ahead(t)' = Pending(t) \o OpsOf(q)
  <2>1. Pending(t)' = Pending(t)
    <3>1. Table(t)
      BY DEF Table
    <3> QED
      BY <3>1, TableLeaves, TableNames
  <2> QED
    BY <1>3, <2>1 DEF Ahead
<1>9. FilesOf(t)' = FilesOf(t)
  BY <1>3, SameFiles
<1>10. ok' => Continues(t, csv'[t], Ahead(t)', FilesOf(t)')
  <2> SUFFICES ASSUME ok' PROVE Continues(t, csv'[t], Ahead(t)', FilesOf(t)')
    OBVIOUS
  <2>1. Ahead(t) = Pending(t) /\ Pending(t) \in Seq(OpType)
    BY <1>3, IdleAhead
  <2>2. ok
    BY <1>3
  <2>3. Continues(t, c, Ahead(t), FilesOf(t))
    BY <1>0, <1>3, <2>2 DEF TableStands
  <2>4. PICK P, F : P = Pending(t) /\ F = FilesOf(t)
    OBVIOUS
  <2>a. P \in Seq(OpType)
    BY <2>1, <2>4
  <2>5. Continues(t, c, P, F)
    BY <2>1, <2>3, <2>4
  <2>6. \A G \in Disk(t) : Stand(t, c, G) =>
          \E E \in Disk(t) : Replays(t, OpsOf(q), G, E) /\ Stand(t, d, E)
    BY <1>6
  <2>7. Continues(t, d, P \o OpsOf(q), F)
    BY <1>5, <2>5, <2>6, <2>a, ContinuesMore
  <2> QED
    BY <1>3, <1>8, <1>9, <2>4, <2>7
<1>11. /\ pc'[t] = "rows" /\ verdict'[t] = "none" /\ Sliced(csv'[t])
  BY <1>3, <1>4, <1>7
<1>12. /\ pc'[t] # "assemble" /\ pc'[t] # "sync" /\ pc'[t] # "done" /\ verdict'[t] # "ok"
  BY <1>11
<1> QED
  BY <1>10, <1>11, <1>12 DEF TableStands

LEMMA FinishKeepsTable ==
  ASSUME Types, Types', IInv, NEW t \in Tables, TableStands(t), FinishCsv(t)
  PROVE  TableStands(t)'
<1>0. PICK c : c = csv[t]
  OBVIOUS
<1>1. PICK q : q = FlushBuffer(t, c)
  OBVIOUS
<1>2. /\ pc[t] = "rows" /\ out[t] = << >> /\ c.next > c.job.rows /\ pc'[t] = "sync"
      /\ csv'[t] = Emptied(c) /\ out'[t] = q /\ q \in Seq(EntryType)
      /\ UNCHANGED <<verdict, files, ok>>
  <2>1. /\ csv \in [Tables -> CsvType] /\ out \in [Actors -> Seq(EntryType)] /\ t \in Actors
        /\ pc \in [Actors -> PcValues]
    BY TableNames, MainFacts DEF Types, CsvTypes
  <2>2. /\ csv' = [csv EXCEPT ![t] = Emptied(c)] /\ out' = [out EXCEPT ![t] = q]
        /\ pc' = [pc EXCEPT ![t] = "sync"] /\ q \in Seq(EntryType)
    BY <1>0, <1>1, FinishCsvEffect
  <2>3. /\ pc[t] = "rows" /\ Idle(t) /\ c.next > c.job.rows
        /\ UNCHANGED <<verdict, files, ok>>
    BY <1>0, FinishCsvEffect
  <2> QED
    BY <2>1, <2>2, <2>3 DEF Idle
<1>3. c \in CsvType /\ CsvWell(t, c) /\ Sliced(c) /\ verdict[t] = "none"
  BY <1>0, <1>2 DEF Types, CsvTypes, TableStands
<1>4. OpsOf(q) \in Seq(OpType)
  BY <1>2, OpsOfConcat
<1>5. /\ Sliced(Emptied(c)) /\ Emptied(c).buffer = << >>
      /\ Emptied(c).next > Emptied(c).job.rows
  <2>1. Sliced(Emptied(c))
    BY <1>3, EmptiedSliced
  <2>2. Emptied(c).buffer = << >> /\ Emptied(c).next = c.next /\ Emptied(c).job = c.job
    BY <1>3, EmptiedFields
  <2> QED
    BY <1>2, <2>1, <2>2
<1>8. Ahead(t)' = Pending(t) \o OpsOf(q)
  <2>1. Pending(t)' = Pending(t)
    <3>1. Table(t)
      BY DEF Table
    <3> QED
      BY <3>1, TableLeaves, TableNames
  <2> QED
    BY <1>2, <2>1 DEF Ahead
<1>9. FilesOf(t)' = FilesOf(t)
  BY <1>2, SameFiles
<1>10. ok' => Continues(t, csv'[t], Ahead(t)', FilesOf(t)')
  <2> SUFFICES ASSUME ok' PROVE Continues(t, csv'[t], Ahead(t)', FilesOf(t)')
    OBVIOUS
  <2>1. Ahead(t) = Pending(t) /\ Pending(t) \in Seq(OpType)
    BY <1>2, IdleAhead
  <2>2. ok
    BY <1>2
  <2>3. Continues(t, c, Ahead(t), FilesOf(t))
    BY <1>0, <1>2, <2>2 DEF TableStands
  <2>4. PICK P, F : P = Pending(t) /\ F = FilesOf(t)
    OBVIOUS
  <2>a. P \in Seq(OpType)
    BY <2>1, <2>4
  <2>5. Continues(t, c, P, F)
    BY <2>1, <2>3, <2>4
  <2>6. \A G \in Disk(t) : Stand(t, c, G) =>
          \E E \in Disk(t) : Replays(t, OpsOf(q), G, E) /\ Stand(t, Emptied(c), E)
    BY <1>1, <1>3, FlushStands
  <2>7. Continues(t, Emptied(c), P \o OpsOf(q), F)
    BY <1>4, <2>5, <2>6, <2>a, ContinuesMore
  <2> QED
    BY <1>2, <1>8, <1>9, <2>4, <2>7
<1>11. /\ pc'[t] = "sync" /\ verdict'[t] = "none" /\ Sliced(csv'[t])
       /\ csv'[t].next > csv'[t].job.rows /\ csv'[t].buffer = << >>
  BY <1>2, <1>3, <1>5
<1>12. /\ pc'[t] # "assemble" /\ pc'[t] # "done" /\ verdict'[t] # "ok"
  BY <1>11
<1> QED
  BY <1>10, <1>11, <1>12 DEF TableStands

LEMMA EndKeepsTable ==
  ASSUME Types, Types', IInv, NEW t \in Tables, TableStands(t), EndCsv(t)
  PROVE  TableStands(t)'
<1>1. /\ pc[t] = "sync" /\ out[t] = << >> /\ Drained(t) /\ pc'[t] = "done"
      /\ verdict'[t] = (IF ok THEN "ok" ELSE "failed") /\ UNCHANGED <<out, csv, files, ok>>
  <2>1. /\ pc \in [Actors -> PcValues] /\ t \in Actors
        /\ verdict \in [Actors -> {"none", "ok", "failed", "discarded"}]
    BY TableNames, MainFacts
  <2> QED
    BY <2>1 DEF EndCsv, Idle
<1>2. Pending(t) = << >>
  BY <1>1, DrainedPending, TableNames
<1>3. Pending(t)' = << >>
  <2>1. Table(t)
    BY DEF Table
  <2> QED
    BY <1>2, <2>1, TableLeaves, TableNames
<1>4. FilesOf(t)' = FilesOf(t)
  BY <1>1, SameFiles
<1>5. /\ csv'[t].next > csv'[t].job.rows /\ csv'[t].buffer = << >> /\ Sliced(csv'[t])
  BY <1>1 DEF TableStands
<1>6. ok => Stand(t, csv'[t], FilesOf(t)')
  <2> SUFFICES ASSUME ok PROVE Stand(t, csv'[t], FilesOf(t)')
    OBVIOUS
  <2>1. Continues(t, csv[t], Ahead(t), FilesOf(t))
    BY <1>1 DEF TableStands
  <2>2. Ahead(t) = << >>
    BY <1>1, <1>2, IdleAhead
  <2>3. Stand(t, csv[t], FilesOf(t))
    BY <2>1, <2>2, NothingAhead
  <2> QED
    BY <1>1, <1>4, <2>3
<1>7. verdict'[t] = "ok" => ok
  BY <1>1
<1>8. pc'[t] = "done" /\ pc'[t] # "assemble" /\ pc'[t] # "sync" /\ pc'[t] \notin {"rows", "sync"}
  BY <1>1
<1> QED
  BY <1>3, <1>5, <1>6, <1>7, <1>8 DEF TableStands

LEMMA AbandonKeepsTable ==
  ASSUME Types, NEW t \in Tables, TableStands(t), Abandon(t)
  PROVE  TableStands(t)'
<1>1. pc'[t] = "done" /\ verdict'[t] = "failed" /\ csv'[t] = csv[t]
  <2>1. /\ pc \in [Actors -> PcValues] /\ t \in Actors
        /\ verdict \in [Actors -> {"none", "ok", "failed", "discarded"}]
    BY TableNames, MainFacts
  <2> QED
    BY <2>1 DEF Abandon
<1>2. Sliced(csv'[t])
  BY <1>1 DEF TableStands
<1>3. /\ pc'[t] = "done" /\ pc'[t] # "assemble" /\ pc'[t] # "sync"
      /\ pc'[t] \notin {"rows", "sync"} /\ verdict'[t] # "ok"
  BY <1>1
<1> QED
  BY <1>2, <1>3 DEF TableStands

LEMMA TableKeepsTables ==
  ASSUME Types, Types', IInv, IInv', Shapes, TablesStand, NEW u \in Tables, Table(u)
  PROVE  TablesStand'
<1>1. TableStands(u)
  BY DEF TablesStand
<1>2. TableStands(u)'
  BY <1>1, StartKeepsTable, AppendKeepsTable, FinishKeepsTable, EndKeepsTable,
     AbandonKeepsTable DEF Table
<1>3. ASSUME NEW t \in Tables, t # u PROVE TableStands(t)'
  <2>1. TableStands(t)
    BY DEF TablesStand
  <2> QED
    BY <1>3, <2>1, OtherTable
<1> QED
  BY <1>2, <1>3 DEF TablesStand

\* Steps of others.
LEMMA TablesFrame ==
  ASSUME TablesStand, UNCHANGED <<queue, at, hand, csv, files>>, ok' => ok,
         \A t \in Tables : pc'[t] = pc[t] /\ out'[t] = out[t] /\ verdict'[t] = verdict[t]
  PROVE  TablesStand'
<1> SUFFICES ASSUME NEW t \in Tables PROVE TableStands(t)'
  BY DEF TablesStand
<1>1. TableStands(t) /\ t \in Streams
  BY FileNames DEF TablesStand
<1>2. Pending(t)' = Pending(t)
  BY <1>1, StillPending
<1>3. FilesOf(t)' = FilesOf(t)
  BY SameFiles
<1>4. Ahead(t)' = Ahead(t)
  BY <1>2 DEF Ahead
<1> QED
  BY <1>1, <1>2, <1>3, <1>4, TableFrame

LEMMA SinkKeepsTables ==
  ASSUME Types, TablesStand, NEW a \in Sinks, Sink(a)
  PROVE  TablesStand'
<1>1. UNCHANGED <<queue, at, hand, csv, files>> /\ (ok' => ok)
  <2>1. UNCHANGED <<queue, at, hand, csv, files>> /\ ok' \in {ok, FALSE}
    BY SinkFrame DEF streamVars, drainVars
  <2>2. ok' => ok
    BY SinkFrame
  <2> QED
    BY <2>1, <2>2
<1>2. ASSUME NEW t \in Tables
      PROVE  pc'[t] = pc[t] /\ out'[t] = out[t] /\ verdict'[t] = verdict[t]
  <2>1. t # a /\ t \in Actors
    BY TableNames
  <2> QED
    BY <2>1, MainFacts DEF Sink, PushBatch, ReplayBreaks, Flush, Discard, Sync, Report
<1> QED
  BY <1>1, <1>2, TablesFrame

LEMMA FinisherKeepsTables ==
  ASSUME Types, TablesStand, Finisher
  PROVE  TablesStand'
<1>1. UNCHANGED <<queue, at, hand, csv, files, ok>>
  BY DEF Finisher, Return, FinishStream, StreamFinished, streamVars, drainVars
<1>2. ASSUME NEW t \in Tables
      PROVE  pc'[t] = pc[t] /\ out'[t] = out[t] /\ verdict'[t] = verdict[t]
  <2>1. t # Main /\ t \in Actors
    BY TableNames
  <2> QED
    BY <2>1, MainFacts DEF Finisher, Return, FinishStream, StreamFinished
<1> QED
  BY <1>1, <1>2, TablesFrame

LEMMA StartThrowsKeepsTables ==
  ASSUME Types, Shapes, TablesStand, NEW p \in Actors, StartThrows(p)
  PROVE  TablesStand'
<1> SUFFICES ASSUME NEW t \in Tables PROVE TableStands(t)'
  BY DEF TablesStand
<1>1. /\ out' = [out EXCEPT ![p] = << >>]
      /\ pc' = [pc EXCEPT ![p] = IF p = Main THEN "wait" ELSE "done"]
      /\ verdict' = [verdict EXCEPT ![p] = "failed"]
      /\ UNCHANGED <<csv, queue, at, hand, ok>>
  BY StartThrowsFrame
<1>2. /\ out \in [Actors -> Seq(EntryType)] /\ pc \in [Actors -> PcValues]
      /\ verdict \in [Actors -> {"none", "ok", "failed", "discarded"}]
      /\ t \in Actors /\ t # Main /\ t \in Streams /\ TableStands(t)
  BY MainFacts, TableNames, FileNames DEF TablesStand
<1>3. CASE t = p
  <2>1. pc'[t] = "done" /\ verdict'[t] = "failed" /\ csv'[t] = csv[t] /\ Sliced(csv'[t])
    BY <1>1, <1>2, <1>3 DEF TableStands
  <2>2. /\ pc'[t] # "assemble" /\ pc'[t] # "sync" /\ pc'[t] \notin {"rows", "sync"}
        /\ verdict'[t] # "ok" /\ pc'[t] = "done"
    BY <2>1
  <2> QED
    BY <2>1, <2>2 DEF TableStands
<1>4. CASE t # p
  <2>1. pc'[t] = pc[t] /\ out'[t] = out[t] /\ verdict'[t] = verdict[t] /\ csv'[t] = csv[t]
    BY <1>1, <1>2, <1>4
  <2>2. Pending(t)' = Pending(t)
    BY <1>1, <1>2, StillPending
  <2>3. \A n \in Names : n[1] = t => files'[n] = files[n]
    BY StartThrowsFiles
  <2>4. FilesOf(t)' = FilesOf(t) /\ Ahead(t)' = Ahead(t)
    BY <2>1, <2>2, <2>3, SameFiles DEF Ahead
  <2> QED
    BY <1>1, <1>2, <2>1, <2>2, <2>4, TableFrame
<1> QED
  BY <1>3, <1>4

LEMMA InitTables == Init => TablesStand
<1> SUFFICES ASSUME Init, NEW t \in Tables PROVE TableStands(t)
  BY DEF TablesStand
<1>1. t \in Actors /\ t # Main
  BY TableNames
<1>2. verdict[t] = "none"
  BY <1>1 DEF Init
<1>3. pc[t] \in {"assemble", "done"}
  BY <1>1 DEF Init
<1>4. csv[t].started = FALSE
  BY DEF Init, NewCsv
<1>5. Sliced(csv[t])
  BY <1>4 DEF Sliced
<1>6. pc[t] # "sync" /\ pc[t] # "rows" /\ verdict[t] # "ok"
  BY <1>2, <1>3
<1> QED
  BY <1>2, <1>4, <1>5, <1>6 DEF TableStands

\* Every table stands as its stream has it, throughout.
LEMMA NextKeepsTables ==
  ASSUME Types, Types', IInv, IInv', Shapes, TablesStand, [Next]_vars
  PROVE  TablesStand'
<1>1. CASE DrainEffect
  BY <1>1, DrainKeepsTable DEF TablesStand
<1>2. ASSUME NEW p \in Actors, Enqueue(p) PROVE TablesStand'
  BY <1>2, EnqueueKeepsTable DEF TablesStand
<1>3. CASE UNCHANGED <<actorVars, streamVars, tasks, at, hand, files, ok>>
  BY <1>3, TablesFrame DEF actorVars, sinkVars, streamVars
<1> QED
  BY <1>1, <1>2, <1>3, StepKinds, StartThrowsKeepsTables, SinkKeepsTables, TableKeepsTables,
     FinisherKeepsTables

-----------------------------------------------------------------------------
\* The slices a table of r rows needs: what a stream that has had them all ends in.
LEMMA SliceRange ==
  ASSUME NEW i \in Nat, NEW L \in Nat \ {0}, NEW k \in 1..L, NEW r \in Nat, i * L + k = r,
         NEW j \in Nat
  PROVE  /\ j < i => j * L < r /\ ~(r < (j + 1) * L)
         /\ j > i => ~(j * L < r)
         /\ j = i => j * L < r /\ r - j * L = k /\ (r < (j + 1) * L <=> k < L)
<1>1. PICK m \in Nat : m = i * L
  OBVIOUS
<1>2. (i + 1) * L = m + L
  BY <1>1
<1>3. CASE j < i
  <2>1. (j + 1) * L <= i * L
    <3>1. PICK d \in Nat : i = (j + 1) + d
      <4>1. i - (j + 1) \in Nat /\ i = (j + 1) + (i - (j + 1))
        BY <1>3
      <4> QED
        BY <4>1
    <3>2. i * L = (j + 1) * L + d * L
      BY <3>1
    <3>3. d * L \in Nat /\ (j + 1) * L \in Nat
      BY <3>1
    <3> QED
      BY <3>2, <3>3
  <2>2. (j + 1) * L = j * L + L /\ j * L \in Nat
    OBVIOUS
  <2>3. PICK x, y \in Nat : x = j * L /\ y = (j + 1) * L
    BY <2>2
  <2>4. y <= m /\ y = x + L /\ m + k = r
    BY <1>1, <2>1, <2>2, <2>3
  <2>5. x < r /\ ~(r < y)
    BY <2>4
  <2> QED
    BY <1>3, <2>3, <2>5
<1>4. CASE j > i
  <2>1. (i + 1) * L <= j * L
    <3>1. PICK d \in Nat : j = (i + 1) + d
      <4>1. j - (i + 1) \in Nat /\ j = (i + 1) + (j - (i + 1))
        BY <1>4
      <4> QED
        BY <4>1
    <3>2. j * L = (i + 1) * L + d * L
      BY <3>1
    <3>3. d * L \in Nat /\ (i + 1) * L \in Nat
      BY <3>1
    <3> QED
      BY <3>2, <3>3
  <2>2. PICK x \in Nat : x = j * L
    OBVIOUS
  <2>3. m + L <= x /\ m + k = r
    BY <1>1, <1>2, <2>1, <2>2
  <2>4. ~(x < r)
    BY <2>3
  <2> QED
    BY <1>4, <2>2, <2>4
<1>5. CASE j = i
  <2>1. m + k = r
    BY <1>1
  <2>2. m < r /\ r - m = k /\ (r < m + L <=> k < L)
    BY <2>1
  <2> QED
    BY <1>1, <1>2, <1>5, <2>2
<1> QED
  BY <1>3, <1>4, <1>5

LEMMA PartIs ==
  ASSUME NEW t, NEW i, NEW r
  PROVE  /\ r < (i + 1) * Limit => Part(t, i, r) = Rows(t, i, r - i * Limit)
         /\ ~(r < (i + 1) * Limit) => Part(t, i, r) = Rows(t, i, Limit)
<1>1. ASSUME r < (i + 1) * Limit PROVE Part(t, i, r) = Rows(t, i, r - i * Limit)
  <2>1. (IF r < (i + 1) * Limit THEN r - i * Limit ELSE Limit) = r - i * Limit
    BY <1>1
  <2> QED
    BY <2>1, Zenon DEF Part, Rows, Numbered
<1>2. ASSUME ~(r < (i + 1) * Limit) PROVE Part(t, i, r) = Rows(t, i, Limit)
  <2>1. (IF r < (i + 1) * Limit THEN r - i * Limit ELSE Limit) = Limit
    BY <1>2
  <2> QED
    BY <2>1, Zenon DEF Part, Rows, Numbered
<1> QED
  BY <1>1, <1>2

\* What TablesWhenOk says of one file.
Expected(t, n, r, whole) ==
  IF n = Whole(t) THEN IF whole /\ r > 0 THEN Part(t, 0, r) ELSE << >>
  ELSE IF ~whole /\ n[2] * Limit < r THEN Part(t, n[2], r) ELSE << >>

LEMMA ExpectedIs ==
  ASSUME NEW t, NEW r, NEW whole
  PROVE  /\ whole /\ r > 0 => Expected(t, Whole(t), r, whole) = Part(t, 0, r)
         /\ ~(whole /\ r > 0) => Expected(t, Whole(t), r, whole) = << >>
         /\ \A i : Slice(t, i) # Whole(t) =>
              /\ ~whole /\ i * Limit < r => Expected(t, Slice(t, i), r, whole) = Part(t, i, r)
              /\ ~(~whole /\ i * Limit < r) => Expected(t, Slice(t, i), r, whole) = << >>
<1>1. \A i : Slice(t, i)[2] = i
  BY DEF Slice
<1> QED
  BY <1>1, Zenon DEF Expected

LEMMA MoreRows ==
  ASSUME NEW i \in Nat, NEW L \in Nat, i >= 1
  PROVE  i * L >= L
<1>1. PICK d \in Nat : i = d + 1
  <2>1. i - 1 \in Nat /\ i = (i - 1) + 1
    OBVIOUS
  <2> QED
    BY <2>1
<1>2. i * L = d * L + L /\ d * L \in Nat
  BY <1>1
<1> QED
  BY <1>2

LEMMA ExpectedSlice ==
  ASSUME NEW t, NEW r, NEW whole, NEW i, Slice(t, i) # Whole(t)
  PROVE  /\ ~whole /\ i * Limit < r => Expected(t, Slice(t, i), r, whole) = Part(t, i, r)
         /\ whole \/ ~(i * Limit < r) => Expected(t, Slice(t, i), r, whole) = << >>
<1>1. ASSUME ~whole, i * Limit < r PROVE Expected(t, Slice(t, i), r, whole) = Part(t, i, r)
  BY <1>1, ExpectedIs
<1>2. ASSUME whole \/ ~(i * Limit < r) PROVE Expected(t, Slice(t, i), r, whole) = << >>
  BY <1>2, ExpectedIs
<1> QED
  BY <1>1, <1>2

LEMMA StandDelivers ==
  ASSUME NEW t \in Tables, NEW c \in CsvType, CsvWell(t, c), Sliced(c), c.next > c.job.rows,
         c.buffer = << >>, NEW F \in Disk(t), Stand(t, c, F),
         NEW r, r = c.job.rows, NEW whole, whole <=> r <= Limit /\ c.job.hint <= Limit,
         NEW n \in NamesOf(t)
  PROVE  F[n] = Expected(t, n, r, whole)
<1>1. /\ r \in Nat /\ c.job.hint \in Nat /\ Limit \in Nat \ {0} /\ c.started \in BOOLEAN
      /\ c.sliceMode \in BOOLEAN /\ c.sliceIndex \in Nat /\ c.next \in Nat
  BY JobTypes, ConstantsAssumption DEF CsvType
<1>2. c.next = r + 1
  BY <1>1 DEF CsvWell
<1>3. n = Whole(t) \/ \E j \in 0..MaxSlice : n = Slice(t, j)
  BY TablePaths
<1>4. \A j \in 0..MaxSlice : Slice(t, j) # Whole(t) /\ Slice(t, j) \in NamesOf(t)
  BY TablePaths
<1>5. CASE c.started = FALSE
  <2>1. F[n] = << >> /\ r = 0
    <3>1. c.next = 1
      BY <1>5 DEF CsvWell
    <3>2. F[n] = << >>
      BY <1>5 DEF Stand
    <3> QED
      BY <1>1, <1>2, <3>1, <3>2
  <2>2. CASE n = Whole(t)
    <3>1. ~(r > 0)
      BY <2>1
    <3> QED
      BY <2>1, <2>2, <3>1, ExpectedIs
  <2>3. ASSUME NEW j \in 0..MaxSlice, n = Slice(t, j) PROVE F[n] = Expected(t, n, r, whole)
    <3>1. j * Limit \in Nat
      BY <1>1
    <3>2. ~(j * Limit < r)
      BY <2>1, <3>1
    <3> QED
      BY <1>4, <2>1, <2>3, <3>2, ExpectedSlice
  <2> QED
    BY <1>3, <2>2, <2>3
<1>6. CASE c.started = TRUE
  <2>0. PICK i, k : i = c.sliceIndex /\ k = c.rowsInSlice
    OBVIOUS
  <2>1. /\ i \in Nat /\ i \in 0..MaxSlice /\ k \in 1..Limit /\ i * Limit + k = r
        /\ c.path \in NamesOf(t)
        /\ c.sliceMode = TRUE => c.path = Slice(t, i)
        /\ c.sliceMode = FALSE => c.path = Whole(t) /\ i = 0
    <3>1. c.started
      BY <1>6
    <3>2. /\ c.path \in NamesOf(t) /\ c.rowsInSlice \in 1..Limit /\ c.sliceIndex \in 0..MaxSlice
          /\ c.sliceMode = TRUE => c.path = Slice(t, c.sliceIndex)
          /\ c.sliceMode = FALSE => c.path = Whole(t) /\ c.sliceIndex = 0
      BY <3>1, PathFacts
    <3>3. c.sliceIndex * Limit + c.rowsInSlice = c.next - 1
      BY <1>6 DEF CsvWell
    <3>4. c.next - 1 = r
      BY <1>1, <1>2
    <3> QED
      BY <1>1, <2>0, <3>2, <3>3, <3>4
  <2>2. F[c.path] = Rows(t, i, k)
    <3>1. F[c.path] \o << >> = Rows(t, i, k)
      BY <1>6, <2>0 DEF Stand
    <3>2. F[c.path] \in FileType
      BY <2>1 DEF Disk
    <3> QED
      BY <3>1, <3>2, FileAlone
  <2>3. /\ c.sliceMode = TRUE => F[Whole(t)] = << >>
        /\ \A j \in 0..MaxSlice : /\ j < i => F[Slice(t, j)] = Rows(t, j, Limit)
                                  /\ j > i => F[Slice(t, j)] = << >>
                                  /\ c.sliceMode = FALSE => F[Slice(t, j)] = << >>
    BY <1>6, <2>0 DEF Stand
  <2>4. /\ c.sliceMode = TRUE => c.job.hint > Limit \/ i >= 1
        /\ c.sliceMode = FALSE => c.job.hint <= Limit
    BY <1>6, <2>0 DEF Sliced
  <2>5. r > 0
    <3>1. i * Limit \in Nat
      BY <1>1, <2>1
    <3> QED
      BY <2>1, <3>1
  <2>6. CASE c.sliceMode = FALSE
    <3>1. i = 0 /\ k = r /\ r <= Limit /\ whole
      <4>1. i = 0 /\ 0 * Limit = 0
        BY <1>1, <2>1, <2>6
      <4>2. k = r
        BY <2>1, <4>1
      <4> QED
        BY <1>1, <2>1, <2>4, <2>6, <4>1, <4>2
    <3>2. CASE n = Whole(t)
      <4>1. F[n] = Rows(t, 0, r)
        BY <2>1, <2>2, <2>6, <3>1, <3>2
      <4>2. Part(t, 0, r) = Rows(t, 0, r)
        <5>1. (0 + 1) * Limit = Limit /\ r - 0 * Limit = r
          BY <1>1
        <5>2. CASE r < Limit
          <6>1. Part(t, 0, r) = Rows(t, 0, r - 0 * Limit)
            BY <5>1, <5>2, PartIs
          <6> QED
            BY <5>1, <6>1
        <5>3. CASE ~(r < Limit)
          <6>1. Part(t, 0, r) = Rows(t, 0, Limit)
            BY <5>1, <5>3, PartIs
          <6>2. r = Limit
            BY <1>1, <3>1, <5>3
          <6> QED
            BY <6>1, <6>2
        <5> QED
          BY <5>2, <5>3
      <4>3. Expected(t, Whole(t), r, whole) = Part(t, 0, r)
        BY <2>5, <3>1, ExpectedIs
      <4> QED
        BY <3>2, <4>1, <4>2, <4>3
    <3>3. ASSUME NEW j \in 0..MaxSlice, n = Slice(t, j) PROVE F[n] = Expected(t, n, r, whole)
      <4>1. F[n] = << >>
        BY <2>3, <2>6, <3>3
      <4>2. Expected(t, Slice(t, j), r, whole) = << >>
        BY <1>4, <3>1, ExpectedSlice
      <4> QED
        BY <3>3, <4>1, <4>2
    <3> QED
      BY <1>3, <3>2, <3>3
  <2>7. CASE c.sliceMode = TRUE
    <3>1. ~whole
      <4>1. CASE c.job.hint > Limit
        BY <1>1, <4>1
      <4>2. CASE i >= 1
        <5>1. i * Limit >= Limit
          BY <1>1, <2>1, <4>2, MoreRows
        <5>2. PICK m \in Nat : m = i * Limit
          BY <1>1, <2>1
        <5>3. r > Limit
          BY <1>1, <2>1, <5>1, <5>2
        <5> QED
          BY <1>1, <5>3
      <4> QED
        BY <2>4, <2>7, <4>1, <4>2
    <3>2. CASE n = Whole(t)
      <4>1. F[n] = << >>
        BY <2>3, <2>7, <3>2
      <4>2. Expected(t, Whole(t), r, whole) = << >>
        BY <3>1, ExpectedIs
      <4> QED
        BY <3>2, <4>1, <4>2
    <3>3. ASSUME NEW j \in 0..MaxSlice, n = Slice(t, j) PROVE F[n] = Expected(t, n, r, whole)
      <4>0. j \in Nat
        OBVIOUS
      <4>1. /\ j < i => j * Limit < r /\ ~(r < (j + 1) * Limit)
            /\ j > i => ~(j * Limit < r)
            /\ j = i => j * Limit < r /\ r - j * Limit = k /\ (r < (j + 1) * Limit <=> k < Limit)
        <5>1. Limit \in Nat \ {0} /\ r \in Nat /\ i \in Nat /\ k \in 1..Limit
          BY <1>1, <2>1
        <5>2. i * Limit + k = r
          BY <2>1
        <5> QED
          BY <4>0, <5>1, <5>2, SliceRange
      <4>2. CASE j < i
        <5>1. F[n] = Rows(t, j, Limit)
          BY <2>3, <3>3, <4>2
        <5>2. Part(t, j, r) = Rows(t, j, Limit)
          BY <4>1, <4>2, PartIs
        <5>3. Expected(t, Slice(t, j), r, whole) = Part(t, j, r)
          BY <1>4, <3>1, <4>1, <4>2, ExpectedSlice
        <5> QED
          BY <3>3, <5>1, <5>2, <5>3
      <4>3. CASE j > i
        <5>1. F[n] = << >>
          BY <2>3, <3>3, <4>3
        <5>2. Expected(t, Slice(t, j), r, whole) = << >>
          BY <1>4, <4>1, <4>3, ExpectedSlice
        <5> QED
          BY <3>3, <5>1, <5>2
      <4>4. CASE j = i
        <5>1. F[n] = Rows(t, j, k)
          BY <2>1, <2>2, <2>7, <3>3, <4>4
        <5>2. Part(t, j, r) = Rows(t, j, k)
          <6>1. CASE k < Limit
            <7>1. Part(t, j, r) = Rows(t, j, r - j * Limit)
              BY <4>1, <4>4, <6>1, PartIs
            <7> QED
              BY <4>1, <4>4, <7>1
          <6>2. CASE ~(k < Limit)
            <7>1. Part(t, j, r) = Rows(t, j, Limit)
              BY <4>1, <4>4, <6>2, PartIs
            <7>2. k = Limit
              BY <1>1, <2>1, <6>2
            <7> QED
              BY <7>1, <7>2
          <6> QED
            BY <6>1, <6>2
        <5>3. Expected(t, Slice(t, j), r, whole) = Part(t, j, r)
          BY <1>4, <3>1, <4>1, <4>4, ExpectedSlice
        <5> QED
          BY <3>3, <5>1, <5>2, <5>3
      <4> QED
        BY <2>1, <4>0, <4>2, <4>3, <4>4
    <3> QED
      BY <1>3, <3>2, <3>3
  <2> QED
    BY <1>1, <2>6, <2>7
<1> QED
  BY <1>1, <1>5, <1>6

\* What a table that was delivered comes to.
LEMMA TablesDelivered == Types /\ TablesStand => TablesWhenOk
<1> SUFFICES ASSUME Types, TablesStand PROVE TablesWhenOk
  OBVIOUS
<1>1. ASSUME NEW t \in Tables, verdict[t] = "ok", NEW n \in Names, n[1] = t,
             NEW r, r = csv[t].job.rows,
             NEW whole, whole <=> r <= Limit /\ csv[t].job.hint <= Limit
      PROVE  files[n] = Expected(t, n, r, whole)
  <2>1. csv[t] \in CsvType /\ CsvWell(t, csv[t])
    BY DEF Types, CsvTypes
  <2>2. /\ csv[t].next > csv[t].job.rows /\ csv[t].buffer = << >> /\ Sliced(csv[t])
        /\ Stand(t, csv[t], FilesOf(t))
    BY <1>1 DEF TablesStand, TableStands
  <2>3. FilesOf(t) \in Disk(t) /\ \A m \in NamesOf(t) : FilesOf(t)[m] = files[m]
    BY FilesOfDisk
  <2>4. n \in NamesOf(t)
    BY <1>1 DEF NamesOf
  <2>5. FilesOf(t)[n] = Expected(t, n, r, whole)
    BY <1>1, <2>1, <2>2, <2>3, <2>4, StandDelivers
  <2> QED
    BY <2>3, <2>4, <2>5
<1>2. ASSUME NEW t \in Tables, verdict[t] = "ok", NEW n \in Names, n[1] = t
      PROVE  LET rows == csv[t].job.rows
                 whole == rows <= Limit /\ csv[t].job.hint <= Limit
             IN  files[n] = IF n = Whole(t)
                            THEN IF whole /\ rows > 0 THEN Part(t, 0, rows) ELSE << >>
                            ELSE IF ~whole /\ n[2] * Limit < rows THEN Part(t, n[2], rows)
                            ELSE << >>
  <2>1. PICK r, whole : /\ r = csv[t].job.rows
                        /\ whole <=> r <= Limit /\ csv[t].job.hint <= Limit
    <3>1. \E whole : whole <=> csv[t].job.rows <= Limit /\ csv[t].job.hint <= Limit
      <4>1. CASE csv[t].job.rows <= Limit /\ csv[t].job.hint <= Limit
        <5> WITNESS TRUE
        <5> QED
          BY <4>1
      <4>2. CASE ~(csv[t].job.rows <= Limit /\ csv[t].job.hint <= Limit)
        <5> WITNESS FALSE
        <5> QED
          BY <4>2
      <4> QED
        BY <4>1, <4>2
    <3> QED
      BY <3>1
  <2>2. files[n] = Expected(t, n, r, whole)
    BY <1>1, <1>2, <2>1
  <2>3. files[n] = IF n = Whole(t) THEN IF whole /\ r > 0 THEN Part(t, 0, r) ELSE << >>
                   ELSE IF ~whole /\ n[2] * Limit < r THEN Part(t, n[2], r) ELSE << >>
    BY <2>2, Zenon DEF Expected
  <2> QED
    BY <2>1, <2>3
<1> QED
  BY <1>2, Zenon DEF TablesWhenOk

-----------------------------------------------------------------------------
(***************************************************************************)
(* What is delivered.                                                      *)
(***************************************************************************)
Delivery == Types /\ IInv /\ Shapes /\ Stories /\ Timelines /\ TablesStand

\* The operations, the events, the timelines and the tables are as they should be in
\* every state, under one inductive invariant.
THEOREM DeliveryStands == Spec => []Delivery
<1>1. Init => Delivery
  BY InitTypes, InitIInv, InitShapes, InitStories, InitTimelines, InitTables DEF Delivery
<1>2. Delivery /\ [Next]_vars => Delivery'
  <2> SUFFICES ASSUME Delivery, [Next]_vars PROVE Delivery'
    OBVIOUS
  <2>1. Types /\ IInv /\ Shapes /\ Stories /\ Timelines /\ TablesStand
    BY DEF Delivery
  <2>2. Types' /\ IInv'
    BY <2>1, NextKeepsTypes, NextKeepsIInv
  <2>3. Shapes'
    BY <2>1, <2>2, NextKeepsShapes
  <2>4. Stories'
    BY <2>1, <2>2, NextKeepsStories
  <2>5. Timelines'
    BY <2>1, <2>2, NextKeepsTimelines
  <2>6. TablesStand'
    BY <2>1, <2>2, NextKeepsTables
  <2> QED
    BY <2>2, <2>3, <2>4, <2>5, <2>6 DEF Delivery
<1> QED
  BY <1>1, <1>2, PTL DEF Spec

\* The events of an assembler come to its files in their order and at most once,
\* whatever is lost, fails or throws on the way (PublishDirect, AcceptJson, Drain).
THEOREM EventsKeepOrder == Spec => []EventsInOrder
<1>1. Delivery => EventsInOrder
  BY DEF Delivery, Stories, Ordered, EventsInOrder
<1> QED
  BY <1>1, DeliveryStands, PTL

\* An assembler that reports success after Sync has all it made in its files, and it
\* stays there, whatever other assemblers of the same files do or lose.
THEOREM SuccessIsWritten == Spec => []SuccessMeansWritten
<1>1. Delivery => SuccessMeansWritten
  BY DEF Delivery, Stories, Awaited, InFile, SuccessMeansWritten
<1> QED
  BY <1>1, DeliveryStands, PTL

\* A run that reports success leaves every timeline it opened as one array, its events
\* separated, and nothing in it of a sink that discarded (FinishTimeline).
THEOREM TimelinesAreWhole == Spec => []TimelinesWhenOk
<1>1. Delivery => TimelinesWhenOk
  BY TimelinesDelivered DEF Delivery
<1> QED
  BY <1>1, DeliveryStands, PTL

\* A table that reports success is on disk with all its rows, in one file or in slices
\* of CSV_LIMIT rows, and nothing else is (AppendCsv, FinishCsv).
THEOREM TablesAreWhole == Spec => []TablesWhenOk
<1>1. Delivery => TablesWhenOk
  BY TablesDelivered DEF Delivery
<1> QED
  BY <1>1, DeliveryStands, PTL
=============================================================================
