--------------------------- MODULE ThreadPoolProofs ---------------------------
(***************************************************************************)
(* Theorems about ThreadPool, for every number of threads and of tasks and *)
(* every way of its use.                                                   *)
(***************************************************************************)
EXTENDS ThreadPool, SequenceTheorems, TLAPS

-----------------------------------------------------------------------------
(***************************************************************************)
(* The inductive invariant.                                                *)
(***************************************************************************)
\* What an owner has seen to when it gets to a place: all tasks are added when it
\* waits, none is queued when it stops after that, no thread is left when it
\* returns.
OwnerPhases ==
  /\ owner \in {"wait", "asleep"} \/ (owner = "start" /\ mode.late) => added = MaxTasks
  /\ owner \in {"stop", "join", "returned"} /\ mode.waits /\ mode.spawns
       => queue = << >> /\ added = MaxTasks
  /\ owner = "returned" => Joined

VerdictSoFar == mode.checked => (succeeded <=> bad = {})

IInv == TypeOK /\ EachTaskOnce /\ OwnerPhases /\ VerdictSoFar

\* A notification changes nothing but that sleepers wake.
LEMMA Wakeup ==
  ASSUME NEW a \in [Threads -> {"none", "loop", "fetch", "asleep", "run", "gone"}]
  PROVE  \A b : b \in WakeOne(a) \/ b = WakeAll(a) =>
           /\ b \in [Threads -> {"none", "loop", "fetch", "asleep", "run", "gone"}]
           /\ \A t \in Threads : b[t] = a[t] \/ (a[t] = "asleep" /\ b[t] = "fetch")
  BY DEF WakeOne, WakeAll

LEMMA InitIInv == Init => IInv
  <1> SUFFICES ASSUME Init PROVE IInv
    OBVIOUS
  <1> USE ConstantsAssumption DEF Init
  <1>1. TypeOK
    <2>1. owner \in {"start", "add"} /\ added \in 0..MaxTasks /\ queue \in Seq(Tasks)
      OBVIOUS
    <2>2. /\ at \in [Threads -> {"none", "loop", "fetch", "asleep", "run", "gone"}]
          /\ hand \in [Threads -> Tasks \cup {NoTask}]
          /\ \A t \in Threads : at[t] # "run" /\ hand[t] = NoTask
      OBVIOUS
    <2> QED
      BY <2>1, <2>2 DEF TypeOK
  <1>2. Begun = {} /\ Len(queue) = 0
    BY DEF Begun
  <1>3. EachTaskOnce
    BY <1>2 DEF EachTaskOnce, NoTask
  <1>4. OwnerPhases /\ VerdictSoFar
    BY DEF OwnerPhases, VerdictSoFar, ModeType
  <1> QED
    BY <1>1, <1>3, <1>4 DEF IInv

LEMMA NextKeepsIInv == IInv /\ [Next]_vars => IInv'
<1> SUFFICES ASSUME IInv, [Next]_vars PROVE IInv'
  OBVIOUS
<1> USE ConstantsAssumption DEF NoTask
<1>t. TypeOK /\ mode \in ModeType /\ (mode.late => mode.waits) /\ Len(queue) \in Nat
  BY DEF IInv, TypeOK
<1>1. CASE Start
  <2>1. TypeOK'
    BY <1>1, <1>t DEF Start, TypeOK, taskVars
  <2>2. EachTaskOnce' /\ VerdictSoFar'
    BY <1>1 DEF IInv, Start, EachTaskOnce, VerdictSoFar, Begun, taskVars
  <2>3. OwnerPhases'
    BY <1>1, <1>t DEF IInv, Start, OwnerPhases, TypeOK, ModeType
  <2> QED
    BY <2>1, <2>2, <2>3 DEF IInv
<1>2. CASE AddTask
  <2>1. /\ queue' \in Seq(Tasks) /\ Len(queue') = Len(queue) + 1
        /\ \A i \in 1..Len(queue) : queue'[i] = queue[i]
        /\ queue'[Len(queue) + 1] = added + 1
    BY <1>2, <1>t, AppendProperties DEF AddTask, TypeOK, Tasks
  <2>2. /\ at' \in [Threads -> {"none", "loop", "fetch", "asleep", "run", "gone"}]
        /\ \A t \in Threads : at'[t] = at[t] \/ (at[t] = "asleep" /\ at'[t] = "fetch")
    BY <1>2, <1>t, Wakeup DEF AddTask, TypeOK
  <2>3. TypeOK'
    BY <1>2, <1>t, <2>1, <2>2 DEF AddTask, TypeOK, taskVars
  <2>4. EachTaskOnce'
    BY <1>2, <1>t, <2>1 DEF IInv, AddTask, EachTaskOnce, Begun, TypeOK, taskVars
  <2>5. OwnerPhases' /\ VerdictSoFar'
    BY <1>2 DEF IInv, AddTask, OwnerPhases, VerdictSoFar, taskVars
  <2> QED
    BY <2>3, <2>4, <2>5 DEF IInv
<1>3. CASE EndOfTasks \/ WaitAllTasks
  <2>1. TypeOK' /\ EachTaskOnce' /\ VerdictSoFar'
    BY <1>3, <1>t DEF IInv, EndOfTasks, WaitAllTasks, TypeOK, EachTaskOnce, VerdictSoFar, Begun,
       taskVars
  <2>2. OwnerPhases'
    BY <1>3, <1>t DEF IInv, EndOfTasks, WaitAllTasks, OwnerPhases, TypeOK, ModeType
  <2> QED
    BY <2>1, <2>2 DEF IInv
<1>4. CASE Stop
  <2>1. /\ at' \in [Threads -> {"none", "loop", "fetch", "asleep", "run", "gone"}]
        /\ \A t \in Threads : at'[t] = at[t] \/ (at[t] = "asleep" /\ at'[t] = "fetch")
    BY <1>4, <1>t, Wakeup DEF Stop, TypeOK
  <2>2. TypeOK'
    BY <1>4, <1>t, <2>1 DEF Stop, TypeOK, taskVars
  <2>3. EachTaskOnce' /\ VerdictSoFar'
    BY <1>4 DEF IInv, Stop, EachTaskOnce, VerdictSoFar, Begun, taskVars
  <2>4. OwnerPhases'
    BY <1>4 DEF IInv, Stop, OwnerPhases
  <2> QED
    BY <2>2, <2>3, <2>4 DEF IInv
<1>5. CASE Join
  BY <1>5, <1>t DEF IInv, Join, TypeOK, EachTaskOnce, OwnerPhases, VerdictSoFar, Begun, Joined,
     taskVars
<1>6. ASSUME NEW t \in Threads, Loop(t) PROVE IInv'
  <2>1. TypeOK'
    BY <1>6, <1>t DEF Loop, TypeOK, taskVars
  <2>2. EachTaskOnce' /\ VerdictSoFar'
    BY <1>6 DEF IInv, Loop, EachTaskOnce, VerdictSoFar, Begun, taskVars
  <2>3. OwnerPhases'
    BY <1>6, <1>t DEF IInv, Loop, OwnerPhases, Joined, TypeOK
  <2> QED
    BY <2>1, <2>2, <2>3 DEF IInv
<1>7. ASSUME NEW t \in Threads, FetchTask(t) PROVE IInv'
  <2>1. CASE running /\ queue # << >> /\ hand' = [hand EXCEPT ![t] = Head(queue)]
    <3>1. /\ queue' = Tail(queue) /\ owner' = OwnerWoken /\ at' = [at EXCEPT ![t] = "run"]
          /\ UNCHANGED <<mode, added, running, taskVars>> /\ at[t] = "fetch"
      BY <1>7, <2>1, <1>t DEF FetchTask, TypeOK
    <3>2. /\ Head(queue) \in Tasks /\ queue' \in Seq(Tasks) /\ Len(queue') = Len(queue) - 1
          /\ \A i \in 1..Len(queue') : queue'[i] = queue[i + 1]
          /\ Len(queue) >= 1 /\ Head(queue) = queue[1]
      BY <2>1, <1>t, <3>1, HeadTailProperties, EmptySeq DEF TypeOK
    <3>3. Head(queue) = added - Len(queue) + 1
      BY <3>2, <1>t DEF IInv, EachTaskOnce
    <3>4. hand[t] = NoTask
      BY <3>1, <1>t DEF TypeOK
    <3>5. Begun' = Begun \cup {Head(queue)} /\ Head(queue) # NoTask
      BY <2>1, <3>2, <3>4, <1>t DEF Begun, TypeOK, Tasks
    <3>6. TypeOK'
      <4>1. owner' \in {"start", "add", "wait", "asleep", "stop", "join", "returned"}
        BY <3>1, <1>t DEF OwnerWoken, TypeOK
      <4>2. /\ hand' \in [Threads -> Tasks \cup {NoTask}]
            /\ at' \in [Threads -> {"none", "loop", "fetch", "asleep", "run", "gone"}]
            /\ \A u \in Threads : at'[u] = "run" <=> hand'[u] # NoTask
        BY <2>1, <3>1, <3>2, <3>5, <1>t DEF TypeOK
      <4> QED
        BY <3>1, <3>2, <4>1, <4>2, <1>t DEF TypeOK, taskVars
    <3>7. EachTaskOnce'
      <4>1. \A i \in 1..Len(queue') : queue'[i] = added' - Len(queue') + i
        BY <3>1, <3>2, <1>t DEF IInv, EachTaskOnce, TypeOK
      <4>2. Begun' \cap done' = {} /\ Begun' \cup done' = 1..(added' - Len(queue'))
        <5>1. added \in Nat /\ added - Len(queue) >= 0
          <6>1. added \in Nat
            BY <1>t DEF TypeOK
          <6>2. Head(queue) >= 1
            BY <3>2 DEF Tasks
          <6> QED
            BY <6>1, <6>2, <3>2, <3>3, <1>t
        <5>2. Head(queue) \notin 1..(added - Len(queue))
          BY <3>3, <5>1, <1>t
        <5>3. 1..(added' - Len(queue')) = 1..(added - Len(queue)) \cup {Head(queue)}
          BY <3>1, <3>2, <3>3, <5>1, <1>t
        <5>4. Begun \cap done = {} /\ Begun \cup done = 1..(added - Len(queue)) /\ done' = done
          BY <3>1 DEF IInv, EachTaskOnce, taskVars
        <5> QED
          BY <3>5, <5>2, <5>3, <5>4
      <4>3. \A u, v \in Threads : hand'[u] = hand'[v] /\ hand'[u] # NoTask => u = v
        <5>1. \A u \in Threads : hand[u] # Head(queue)
          <6>1. Head(queue) \notin Begun
            BY <3>2, <3>3, <1>t DEF IInv, EachTaskOnce, TypeOK
          <6> QED
            BY <6>1, <3>5 DEF Begun
        <5> QED
          BY <2>1, <5>1, <1>t DEF IInv, EachTaskOnce, TypeOK
      <4> QED
        BY <4>1, <4>2, <4>3 DEF EachTaskOnce
    <3>8. OwnerPhases'
      BY <3>1, <2>1, <1>t DEF IInv, OwnerPhases, OwnerWoken, Joined, TypeOK
    <3>9. VerdictSoFar'
      BY <3>1 DEF IInv, VerdictSoFar, taskVars
    <3> QED
      BY <3>6, <3>7, <3>8, <3>9 DEF IInv
  <2>2. CASE UNCHANGED <<owner, queue, hand>>
    <3>1. /\ at[t] = "fetch" /\ UNCHANGED <<mode, added, running, taskVars>>
          /\ at' \in {[at EXCEPT ![t] = "asleep"], [at EXCEPT ![t] = "gone"]}
      <4>1. at[t] = "fetch" /\ UNCHANGED <<mode, added, running, taskVars>>
        BY <1>7 DEF FetchTask
      <4>2. hand[t] = 0
        BY <4>1, <1>t DEF TypeOK
      <4>3. CASE running /\ queue # << >> /\ queue' = Tail(queue)
        BY <4>3, <2>2, <1>t, HeadTailProperties, EmptySeq DEF TypeOK
      <4> QED
        BY <1>7, <4>1, <4>3 DEF FetchTask
    <3>2. TypeOK'
      BY <2>2, <3>1, <1>t DEF TypeOK, taskVars
    <3>3. EachTaskOnce' /\ VerdictSoFar'
      BY <2>2, <3>1 DEF IInv, EachTaskOnce, VerdictSoFar, Begun, taskVars
    <3>4. OwnerPhases'
      BY <2>2, <3>1, <1>t DEF IInv, OwnerPhases, Joined, TypeOK
    <3> QED
      BY <3>2, <3>3, <3>4 DEF IInv
  <2> QED
    BY <1>7, <2>1, <2>2 DEF FetchTask
<1>8. ASSUME NEW t \in Threads, Run(t) PROVE IInv'
  <2>1. /\ at[t] = "run" /\ hand[t] \in Tasks /\ hand[t] # NoTask
        /\ done' = done \cup {hand[t]} /\ hand' = [hand EXCEPT ![t] = NoTask]
        /\ at' = [at EXCEPT ![t] = "loop"]
        /\ UNCHANGED <<mode, owner, added, queue, running>>
    BY <1>8, <1>t DEF Run, TypeOK
  <2>2. TypeOK'
    <3>1. bad' \subseteq done' /\ succeeded' \in BOOLEAN
      BY <1>8, <2>1, <1>t DEF Run, Noted, TypeOK
    <3>2. /\ hand' \in [Threads -> Tasks \cup {NoTask}] /\ done' \subseteq Tasks
          /\ at' \in [Threads -> {"none", "loop", "fetch", "asleep", "run", "gone"}]
          /\ \A u \in Threads : at'[u] = "run" <=> hand'[u] # NoTask
      BY <2>1, <1>t DEF TypeOK
    <3> QED
      BY <2>1, <3>1, <3>2, <1>t DEF TypeOK
  <2>3. EachTaskOnce'
    <3>1. \A u, v \in Threads : hand'[u] = hand'[v] /\ hand'[u] # NoTask => u = v
      BY <2>1, <1>t DEF IInv, EachTaskOnce, TypeOK
    <3>2. Begun' = Begun \ {hand[t]} /\ hand[t] \in Begun
      BY <2>1, <1>t DEF IInv, EachTaskOnce, Begun, TypeOK
    <3> QED
      BY <2>1, <3>1, <3>2 DEF IInv, EachTaskOnce
  <2>4. OwnerPhases'
    BY <2>1, <1>t DEF IInv, OwnerPhases, Joined, TypeOK
  <2>5. VerdictSoFar'
    BY <1>8, <2>1 DEF IInv, Run, Noted, VerdictSoFar
  <2> QED
    BY <2>2, <2>3, <2>4, <2>5 DEF IInv
<1>9. CASE UNCHANGED vars
  BY <1>9, <1>t DEF IInv, TypeOK, EachTaskOnce, OwnerPhases, VerdictSoFar, Begun, Joined, vars,
     taskVars
<1> QED
  BY <1>1, <1>2, <1>3, <1>4, <1>5, <1>6, <1>7, <1>8, <1>9 DEF Next, Owner, Thread, Done

-----------------------------------------------------------------------------
(***************************************************************************)
(* What follows from it.                                                   *)
(***************************************************************************)
\* Every reachable state satisfies the inductive invariant.
THEOREM Invariance == Spec => []IInv
  BY InitIInv, NextKeepsIInv, PTL DEF Spec

\* The pool's variables have their types.
THEOREM TypeCorrect == Spec => []TypeOK
<1>1. IInv => TypeOK
  BY DEF IInv
<1> QED
  BY <1>1, Invariance, PTL

\* No task is lost, doubled or overtaken between AddTask and its end.
THEOREM NoTaskLostOrDoubled == Spec => []EachTaskOnce
<1>1. IInv => EachTaskOnce
  BY DEF IInv
<1> QED
  BY <1>1, Invariance, PTL

\* The verdict of an owner that wraps its tasks counts each that failed or threw.
THEOREM Honesty == Spec => []VerdictHonest
<1>1. IInv => VerdictHonest
  BY DEF IInv, VerdictSoFar, VerdictHonest
<1> QED
  BY <1>1, Invariance, PTL

\* A step of the pool is a step of the barrier, or none.
LEMMA StepRefines == IInv /\ IInv' /\ [Next]_vars => [Barrier!BNext]_(Barrier!barrierVars)
<1> SUFFICES ASSUME IInv, IInv', [Next]_vars PROVE [Barrier!BNext]_(Barrier!barrierVars)
  OBVIOUS
<1> USE DEF Barrier!barrierVars
<1>t. TypeOK /\ TypeOK' /\ OwnerPhases /\ EachTaskOnce /\ mode \in ModeType
  BY ConstantsAssumption DEF IInv, TypeOK
<1>1. CASE UNCHANGED <<mode, hand, done>> /\ owner # "returned" /\ owner' # "returned"
  BY <1>1 DEF Begun
<1>2. CASE Start \/ AddTask \/ EndOfTasks \/ WaitAllTasks \/ Stop
  BY <1>1, <1>2 DEF Start, AddTask, EndOfTasks, WaitAllTasks, Stop, taskVars
<1>3. CASE Join
  <2>1. \A t \in Threads : hand[t] = NoTask
    BY <1>3, <1>t DEF Join, Joined, TypeOK
  <2>2. mode.waits /\ mode.spawns => done = Tasks
    <3> SUFFICES ASSUME mode.waits, mode.spawns PROVE done = Tasks
      OBVIOUS
    <3>1. queue = << >> /\ added = MaxTasks
      BY <1>3, <1>t DEF Join, OwnerPhases
    <3>2. Begun = {}
      BY <2>1 DEF Begun
    <3>3. done = 1..(MaxTasks - 0)
      BY <3>1, <3>2, <1>t DEF EachTaskOnce
    <3> QED
      BY <3>3, ConstantsAssumption DEF Tasks
  <2>3. Begun' = Begun /\ UNCHANGED <<mode, hand, done>> /\ owner = "join" /\ owner' = "returned"
    BY <1>3 DEF Join, Begun, taskVars
  <2> QED
    BY <2>1, <2>2, <2>3 DEF Barrier!BNext, Barrier!Pass
<1>4. ASSUME NEW t \in Threads, Loop(t) PROVE [Barrier!BNext]_(Barrier!barrierVars)
  <2>1. owner # "returned"
    BY <1>4, <1>t DEF Loop, OwnerPhases, Joined
  <2> QED
    BY <1>1, <1>4, <2>1 DEF Loop, taskVars
<1>5. ASSUME NEW t \in Threads, FetchTask(t) PROVE [Barrier!BNext]_(Barrier!barrierVars)
  <2>1. owner # "returned" /\ owner' # "returned" /\ UNCHANGED <<mode, done>>
    BY <1>5, <1>t DEF FetchTask, OwnerWoken, OwnerPhases, Joined, taskVars
  <2>2. CASE hand' = [hand EXCEPT ![t] = Head(queue)] /\ queue # << >>
    <3> DEFINE x == Head(queue)
    <3>1. x \in Tasks /\ x = queue[1] /\ Len(queue) >= 1 /\ Len(queue) \in Nat
      BY <2>2, <1>t, HeadTailProperties, EmptySeq DEF TypeOK
    <3>2. x \notin Begun \cup done
      BY <3>1, <1>t DEF EachTaskOnce, TypeOK
    <3>3. hand[t] = NoTask
      BY <1>5, <1>t DEF FetchTask, TypeOK
    <3>4. Begun' = Begun \cup {x}
      BY <2>2, <3>1, <3>3, <1>t DEF Begun, TypeOK, Tasks, NoTask
    <3>5. Barrier!Begin(t, x)
      BY <2>1, <2>2, <3>1, <3>2, <3>3, <3>4 DEF Barrier!Begin
    <3> QED
      BY <3>1, <3>5 DEF Barrier!BNext
  <2>3. CASE UNCHANGED hand
    BY <1>1, <2>1, <2>3
  <2> QED
    BY <1>5, <2>2, <2>3 DEF FetchTask
<1>6. ASSUME NEW t \in Threads, Run(t) PROVE [Barrier!BNext]_(Barrier!barrierVars)
  <2>1. /\ hand[t] \in Tasks /\ hand[t] # NoTask /\ owner # "returned"
        /\ done' = done \cup {hand[t]} /\ hand' = [hand EXCEPT ![t] = NoTask]
        /\ UNCHANGED <<mode, owner>>
    BY <1>6, <1>t DEF Run, TypeOK, OwnerPhases, Joined, NoTask
  <2>2. Begun' \cup done' = Begun \cup done
    BY <2>1, <1>t DEF Begun, EachTaskOnce, TypeOK
  <2>3. Barrier!End(t)
    BY <2>1, <2>2 DEF Barrier!End
  <2> QED
    BY <2>3 DEF Barrier!BNext
<1>7. CASE UNCHANGED vars
  BY <1>7 DEF vars, Begun, taskVars
<1> QED
  BY <1>2, <1>3, <1>4, <1>5, <1>6, <1>7 DEF Next, Owner, Thread, Done

\* WaitAllTasks and Stop are a barrier, for any number of threads and tasks.
THEOREM PoolIsBarrier == Spec => ImplementsBarrier
<1>1. Init => Barrier!BInit
  BY ConstantsAssumption DEF Init, Barrier!BInit, Begun, ModeType
<1>2. IInv /\ IInv' /\ [Next]_vars => [Barrier!BNext]_(Barrier!barrierVars)
  BY StepRefines
<1> QED
  BY <1>1, <1>2, Invariance, PTL DEF Spec, ImplementsBarrier, Barrier!Barrier
=============================================================================
