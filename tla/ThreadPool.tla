------------------------------ MODULE ThreadPool ------------------------------
(***************************************************************************)
(* The thread pool of the C++ engine                                       *)
(* (analysis/csrc/infrastructure/utils/thread_pool.cpp) under the ways its *)
(* owners use it: HostTraceWorker starts it, adds tasks, waits until they  *)
(* are assigned and stops it; DeviceContextEntry adds the tasks before it  *)
(* starts; an owner that unwinds stops it without waiting, and is not      *)
(* heard of again.                                                         *)
(*                                                                         *)
(* A lock section is one action.  running_ is written under the lock and   *)
(* read by Loop without: the read may be stale until the thread has taken  *)
(* the lock.                                                               *)
(***************************************************************************)
EXTENDS Naturals, SequencesExt

CONSTANTS
  Threads,  \* threadsNum_ threads
  MaxTasks,
  Modes     \* how an owner uses the pool, and what may go wrong

\* late: tasks are added before Start; waits: WaitAllTasks comes before Stop;
\* checked: tasks are wrapped by AddCheckedTask; spawns: threads can be made.
ModeType == [late: BOOLEAN, waits: BOOLEAN, checked: BOOLEAN, spawns: BOOLEAN]

ASSUME ConstantsAssumption ==
  /\ MaxTasks \in Nat
  /\ Modes \subseteq {m \in ModeType : m.late => m.waits}

Tasks == 1..MaxTasks
NoTask == 0

VARIABLES
  mode,     \* chosen in Init
  owner,    \* where the owner is
  added,    \* tasks the owner has added
  queue,    \* taskQueue_
  running,  \* running_
  at,       \* where a thread is in Loop; "none" before it exists
  hand,     \* the task it has fetched
  done,     \* tasks that have returned or thrown
  bad,      \* those of them that failed or threw, for the properties only
  succeeded \* succeeded_ of HostTraceWorker, result_ of other owners

taskVars == <<done, bad, succeeded>>
vars == <<mode, owner, added, queue, running, at, hand, taskVars>>

Init ==
  /\ mode \in Modes
  /\ owner = IF mode.late THEN "add" ELSE "start"
  /\ added = 0 /\ queue = << >> /\ running = FALSE
  /\ at = [t \in Threads |-> "none"] /\ hand = [t \in Threads |-> NoTask]
  /\ done = {} /\ bad = {} /\ succeeded = TRUE

------------------------------------------------------------------------------
(* The owner. *)

\* Threads run as soon as they are made; the first sets running_ before it.  A
\* thread that cannot be made throws, and the destructor stops the pool.
Start ==
  /\ owner = "start"
  /\ running' = TRUE
  /\ \/ /\ \E t \in Threads : at[t] = "none" /\ at' = [at EXCEPT ![t] = "loop"]
        /\ UNCHANGED owner
     \/ /\ \A t \in Threads : at[t] # "none"
        /\ owner' = IF mode.late THEN "wait" ELSE "add"
        /\ UNCHANGED at
     \/ /\ ~mode.spawns /\ \E t \in Threads : at[t] = "none"
        /\ owner' = "stop"
        /\ UNCHANGED at
  /\ UNCHANGED <<mode, added, queue, hand, taskVars>>

\* Mutant: no notification.
WakeNone(a) == {a}

\* hasTaskToDo_.notify_one: any of the threads that sleep.
WakeOne(a) ==
  IF \E t \in Threads : a[t] = "asleep"
  THEN {[a EXCEPT ![t] = "fetch"] : t \in {t \in Threads : a[t] = "asleep"}}
  ELSE {a}

AddTask ==
  /\ owner = "add" /\ added < MaxTasks
  /\ added' = added + 1
  /\ queue' = Append(queue, added + 1)
  /\ at' \in WakeOne(at)
  /\ UNCHANGED <<mode, owner, running, hand, taskVars>>

\* All are added, or the owner throws on its way and unwinds.
EndOfTasks ==
  /\ owner = "add"
  /\ mode.waits => added = MaxTasks
  /\ owner' = IF ~mode.waits THEN "stop" ELSE IF mode.late THEN "start" ELSE "wait"
  /\ UNCHANGED <<mode, added, queue, running, at, hand, taskVars>>

\* Mutant: WaitAllTasks does not wait.
WaitNothing ==
  /\ owner = "wait"
  /\ owner' = "stop"
  /\ UNCHANGED <<mode, added, queue, running, at, hand, taskVars>>

WaitAllTasks ==
  /\ owner = "wait"
  /\ owner' = IF queue = << >> THEN "stop" ELSE "asleep"
  /\ UNCHANGED <<mode, added, queue, running, at, hand, taskVars>>

\* Mutant: Stop wakes one thread only.
WakeFirst(a) == CHOOSE b \in WakeOne(a) : TRUE

WakeAll(a) == [t \in Threads |-> IF a[t] = "asleep" THEN "fetch" ELSE a[t]]

Stop ==
  /\ owner = "stop"
  /\ running' = FALSE
  /\ at' = WakeAll(at)
  /\ owner' = "join"
  /\ UNCHANGED <<mode, added, queue, hand, taskVars>>

\* Mutant: the threads that run a task are not joined.
JoinedIdle == \A t \in Threads : at[t] \in {"none", "gone", "run"}

Joined == \A t \in Threads : at[t] \in {"none", "gone"}

Join ==
  /\ owner = "join" /\ Joined
  /\ owner' = "returned"
  /\ UNCHANGED <<mode, added, queue, running, at, hand, taskVars>>

Owner == Start \/ AddTask \/ EndOfTasks \/ WaitAllTasks \/ Stop \/ Join

------------------------------------------------------------------------------
(* Loop, on a thread of the pool. *)

Loop(t) ==
  /\ at[t] = "loop"
  /\ \/ at' = [at EXCEPT ![t] = "fetch"]
     \/ ~running /\ at' = [at EXCEPT ![t] = "gone"]
  /\ UNCHANGED <<mode, owner, added, queue, running, hand, taskVars>>

\* Mutant: FetchTask does not tell the owner.
OwnerAsleep == owner

\* waitTaskDone_.notify_one: only the owner waits on it.
OwnerWoken == IF owner = "asleep" THEN "wait" ELSE owner

\* Mutant: the front of the queue is taken and stays there.
FetchAndKeep(t) ==
  /\ at[t] = "fetch"
  /\ \/ /\ running /\ queue # << >>
        /\ hand' = [hand EXCEPT ![t] = Head(queue)]
        /\ owner' = OwnerWoken
        /\ at' = [at EXCEPT ![t] = "run"]
     \/ /\ ~(running /\ queue # << >>)
        /\ at' = [at EXCEPT ![t] = IF running THEN "asleep" ELSE "gone"]
        /\ UNCHANGED <<owner, hand>>
  /\ UNCHANGED <<mode, added, queue, running, taskVars>>

FetchTask(t) ==
  /\ at[t] = "fetch"
  /\ \/ /\ running /\ queue = << >>
        /\ at' = [at EXCEPT ![t] = "asleep"]
        /\ UNCHANGED <<owner, queue, hand>>
     \/ /\ running /\ queue # << >>
        /\ hand' = [hand EXCEPT ![t] = Head(queue)]
        /\ queue' = Tail(queue)
        /\ owner' = OwnerWoken
        /\ at' = [at EXCEPT ![t] = "run"]
     \/ /\ ~running
        /\ at' = [at EXCEPT ![t] = "gone"]
        /\ UNCHANGED <<owner, queue, hand>>
  /\ UNCHANGED <<mode, added, running, taskVars>>

\* Mutant: what a task throws is noted by nobody.
NotedReturns(outcome) == outcome = "failed"

\* A task that fails says so in succeeded_; what one throws ends in the pool,
\* or in AddCheckedTask, which notes it too.
Noted(outcome) == outcome = "failed" \/ (outcome = "threw" /\ mode.checked)

Run(t) ==
  /\ at[t] = "run"
  /\ \E outcome \in {"ok", "failed", "threw"} :
       /\ bad' = IF outcome = "ok" THEN bad ELSE bad \cup {hand[t]}
       /\ succeeded' = (succeeded /\ ~Noted(outcome))
  /\ done' = done \cup {hand[t]}
  /\ hand' = [hand EXCEPT ![t] = NoTask]
  /\ at' = [at EXCEPT ![t] = "loop"]
  /\ UNCHANGED <<mode, owner, added, queue, running>>

Thread(t) == Loop(t) \/ FetchTask(t) \/ Run(t)

------------------------------------------------------------------------------
Done == owner = "returned" /\ UNCHANGED vars

Next == Owner \/ (\E t \in Threads : Thread(t)) \/ Done

\* Owner and threads are scheduled, and a task returns or throws.
Fairness == WF_vars(Owner) /\ \A t \in Threads : WF_vars(Thread(t))

Spec == Init /\ [][Next]_vars
FairSpec == Spec /\ Fairness

------------------------------------------------------------------------------
(* Properties. *)

\* Every variable has its type, and a thread holds a task while it runs one.
TypeOK ==
  /\ mode \in Modes /\ running \in BOOLEAN /\ succeeded \in BOOLEAN
  /\ owner \in {"start", "add", "wait", "asleep", "stop", "join", "returned"}
  /\ added \in 0..MaxTasks
  /\ queue \in Seq(Tasks)
  /\ at \in [Threads -> {"none", "loop", "fetch", "asleep", "run", "gone"}]
  /\ hand \in [Threads -> Tasks \cup {NoTask}]
  /\ \A t \in Threads : at[t] = "run" <=> hand[t] # NoTask
  /\ done \subseteq Tasks /\ bad \subseteq done

\* Every task that was added is in one place, the queue, one thread or done, and
\* tasks are begun in the order they were added.
Begun == {hand[t] : t \in Threads} \ {NoTask}
EachTaskOnce ==
  /\ \A i \in 1..Len(queue) : queue[i] = added - Len(queue) + i
  /\ Begun \cap done = {}
  /\ Begun \cup done = 1..(added - Len(queue))
  /\ \A t, u \in Threads : hand[t] = hand[u] /\ hand[t] # NoTask => t = u

\* HostTraceWorker: what its tasks return or throw is in the verdict it reads
\* when the pool has stopped.  An owner that adds bare tasks hears of those that
\* return, and not of those that throw.
VerdictHonest ==
  owner = "returned" /\ mode.checked => (succeeded <=> bad = {})

\* Whatever the tasks do, the owner gets through WaitAllTasks and Stop.
Termination == <>(owner = "returned")

\* To its owner the pool is a barrier: once WaitAllTasks and Stop have returned
\* every task is done, and after Stop none runs or begins, waited for or not.
Barrier == INSTANCE TaskBarrier WITH
             Workers <- Threads, None <- NoTask,
             waits <- mode.waits /\ mode.spawns,
             todo <- Tasks \ (Begun \cup done),
             doing <- hand,
             passed <- owner = "returned"
ImplementsBarrier == Barrier!Barrier
=============================================================================
