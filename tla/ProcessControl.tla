---------------------------- MODULE ProcessControl ----------------------------
(***************************************************************************)
(* The runtime-graph executor of the C++ analysis                          *)
(* (analysis/csrc/infrastructure/process/process_control.cpp): one         *)
(* coordinator thread runs ProcessControl::Impl::Execute, dispatches the   *)
(* processes of a dependency graph to a thread pool, and learns of their   *)
(* completion through a queue guarded by a mutex and a condition variable. *)
(*                                                                         *)
(* The coordinator owns the mutex from its first dispatch on and gives it  *)
(* up only inside changed.wait; a worker needs it only to post its         *)
(* completion.  Each visit of a ready key, each completion drained and     *)
(* each decision at the end of a pass is one action, so that the workers,  *)
(* which run their process outside the mutex, interleave with all of them. *)
(***************************************************************************)
EXTENDS Naturals, SequencesExt

CONSTANTS
  Keys,              \* every RuntimeProcessKey a dependency may name
  Procs,             \* the keys of processes_
  Resources,         \* named resources a process holds while it runs
  Scopes,            \* device scopes ("" of host processes is one of them)
  Inventories,       \* DataInventory objects the processes are bound to
  Types,             \* data types registered and injected
  Graphs,            \* the process collections the executor may be given
  Workers,           \* worker threads of the pool
  MaxActiveDevices,  \* options_.maxActiveDevices, 0 for no limit
  StopOnMandatory,   \* failureMode is STOP_ON_MANDATORY_FAILURE
  ReleaseUnusedData, \* options_.releaseUnusedData
  StopAt             \* processes named by the DFX stop-at setting

\* RuntimeProcessInfo of every process, as functions and sets over Procs.
GraphType ==
  [dep: [Procs -> SUBSET Keys],        \* processDependence
   comp: [Procs -> SUBSET Keys],       \* completionDependence (orders only)
   mandatory: SUBSET Procs,
   always: SUBSET Procs,               \* runOnDependencyFailure
   res: [Procs -> SUBSET Resources],
   scope: [Procs -> Scopes],
   opens: SUBSET Procs,                \* opensDeviceScope
   closes: SUBSET Procs,               \* closesDeviceScope
   inv: [Procs -> Inventories],
   reads: [Procs -> SUBSET Types],     \* paramTypes
   writes: [Procs -> SUBSET Types]]    \* what Run injects

ASSUME ConstantsAssumption ==
  /\ Procs \subseteq Keys
  /\ IsFiniteSet(Procs) /\ Procs # {}
  /\ Graphs \subseteq GraphType
  /\ Workers \in Nat \ {0}
  /\ MaxActiveDevices \in Nat
  /\ StopOnMandatory \in BOOLEAN
  /\ ReleaseUnusedData \in BOOLEAN
  /\ StopAt \subseteq Procs

VARIABLES
  graph,      \* processes_; never changes
  pc,         \* where the coordinator is; "true"/"false" are the returned verdict
  state,      \* results_[p].state
  causes,     \* results_[p].failedDependencies
  level,      \* levels_
  pending,    \* dependencies of p that are not settled yet
  ready,      \* keys whose dependencies are all settled, FIFO
  left,       \* keys of the current pass still to visit
  progressed, \* the current pass settled or dispatched something
  outcome,    \* what the worker of p made of Run: "none" while it runs
  completed,  \* completions posted by the workers, FIFO
  woken,      \* the condition variable has been notified
  active,     \* processes dispatched and not drained
  held,       \* resources in use
  devices,    \* activeDevices
  finished,   \* number of settled processes
  stopped,
  data        \* types present in each inventory

execVars == <<state, causes, level, stopped>>
queueVars == <<pending, ready, left, progressed, finished>>
poolVars == <<outcome, completed, woken, data>>
limitVars == <<active, held, devices>>
vars == <<graph, pc, execVars, queueVars, poolVars, limitVars>>

States == {"PENDING", "RUNNING", "SUCCEEDED", "FAILED", "BLOCKED", "CANCELLED"}
Settled == {"SUCCEEDED", "FAILED", "BLOCKED", "CANCELLED"}
Outcomes == {"ok", "error", "throw"}

Prereqs(p) == graph.dep[p] \cup graph.comp[p]
Dependents(k) == {c \in Procs : k \in Prereqs(c)}

-----------------------------------------------------------------------------
\* Verification of the collection, before anything runs.

\* Kahn's algorithm: round n removes what depends only on earlier rounds.
KahnRemoved ==
  LET removed[n \in Nat] ==
        IF n = 0 THEN {} ELSE {p \in Procs : Prereqs(p) \subseteq removed[n - 1]}
  IN  removed[Cardinality(Procs)]

\* No dependency is missing or named twice.
KeysVerified ==
  \A p \in Procs :
    /\ Prereqs(p) \subseteq Procs
    /\ graph.dep[p] \cap graph.comp[p] = {}

VerifyDependencies == KeysVerified /\ KahnRemoved = Procs

Init ==
  /\ graph \in Graphs
  /\ pc = "verify"
  /\ state = [p \in Procs |-> "PENDING"]
  /\ causes = [p \in Procs |-> {}]
  /\ level = [p \in Procs |-> 0]
  /\ pending = [p \in Procs |-> 0]
  /\ ready = << >> /\ left = 0 /\ progressed = FALSE
  /\ outcome = [p \in Procs |-> "none"]
  /\ completed = << >> /\ woken = FALSE
  /\ active = 0 /\ held = {} /\ devices = {} /\ finished = 0
  /\ stopped = FALSE
  /\ data = [i \in Inventories |-> {}]

\* A collection that does not verify is refused without running anything.
Refuse ==
  /\ pc = "verify" /\ ~VerifyDependencies
  /\ pc' = "false"
  /\ UNCHANGED <<graph, execVars, queueVars, poolVars, limitVars>>

\* The unordered map yields the keys without dependencies in any order.
Start ==
  /\ pc = "verify" /\ VerifyDependencies
  /\ pc' = "drain"
  /\ pending' = [p \in Procs |-> Cardinality(Prereqs(p))]
  /\ ready' \in SetToSeqs({p \in Procs : Prereqs(p) = {}})
  /\ UNCHANGED <<graph, execVars, left, progressed, finished, poolVars, limitVars>>

-----------------------------------------------------------------------------
\* The lambda "finish": settle process k in state s; queue is ready without k.

\* The worker reports the DFX stop unless creating or running the process threw.
DfxStop(k) == k \in StopAt /\ outcome[k] \in {"ok", "error"}

StopsIfFailed(k, s) ==                        \* mutant: a blocked process is no failure
  StopOnMandatory /\ s = "FAILED" /\ k \in graph.mandatory
StopsRun(k, s) ==
  \/ StopOnMandatory /\ s # "SUCCEEDED" /\ k \in graph.mandatory
  \/ DfxStop(k)

HeldAfter(k, s) == IF state[k] = "RUNNING" THEN held \ graph.res[k] ELSE held

\* The slot is freed even when the closing process itself was blocked.
DevicesIfRun(k) ==                            \* mutant: freed only when it has run
  IF k \in graph.closes /\ state[k] = "RUNNING"
  THEN devices \ {graph.scope[k]} ELSE devices
DevicesAfter(k) == IF k \in graph.closes THEN devices \ {graph.scope[k]} ELSE devices

LevelAfter(c, k) == IF level[c] <= level[k] THEN level[k] + 1 ELSE level[c]

\* ReleaseUnused: an inventory keeps what its unfinished processes registered.
KeptForPending(i, st) ==                      \* mutant: running processes forgotten
  UNION {graph.reads[p] : p \in {q \in Procs : graph.inv[q] = i /\ st[q] = "PENDING"}}
Kept(i, st) ==
  UNION {graph.reads[p] : p \in {q \in Procs : /\ graph.inv[q] = i
                                               /\ st[q] \in {"PENDING", "RUNNING"}}}
ReleaseIfSucceeded(s, st) ==                  \* mutant: no release after a failure
  IF s = "SUCCEEDED" THEN [i \in Inventories |-> data[i] \cap Kept(i, st)] ELSE data
ReleaseUnused(s, st) ==
  IF ReleaseUnusedData THEN [i \in Inventories |-> data[i] \cap Kept(i, st)] ELSE data

Finish(k, s, queue) ==
  /\ state' = [state EXCEPT ![k] = s]
  /\ active' = IF state[k] = "RUNNING" THEN active - 1 ELSE active
  /\ held' = HeldAfter(k, s)
  /\ devices' = DevicesAfter(k)
  /\ finished' = finished + 1
  /\ stopped' = (stopped \/ StopsRun(k, s))
  /\ level' = [c \in Procs |-> IF c \in Dependents(k) THEN LevelAfter(c, k) ELSE level[c]]
  /\ pending' = [c \in Procs |-> IF c \in Dependents(k) THEN pending[c] - 1
                                                        ELSE pending[c]]
  /\ \E released \in SetToSeqs({c \in Dependents(k) : pending[c] = 1}) :
        ready' = queue \o released
  /\ data' = ReleaseUnused(s, state')

\* The coordinator drains every posted completion before it scans the queue.
Drain ==
  /\ pc = "drain" /\ completed # << >>
  /\ LET k == Head(completed)
         ok == outcome[k] = "ok" /\ ~DfxStop(k)
     IN  Finish(k, IF ok THEN "SUCCEEDED" ELSE "FAILED", ready)
  /\ completed' = Tail(completed)
  /\ UNCHANGED <<graph, pc, causes, left, progressed, outcome, woken>>

\* A pass visits the keys that are ready now, not those it makes ready.
PassLength == Len(ready)

BeginPass ==
  /\ pc = "drain" /\ completed = << >>
  /\ pc' = "scan" /\ left' = PassLength /\ progressed' = FALSE
  /\ UNCHANGED <<graph, execVars, pending, ready, finished, poolVars, limitVars>>

-----------------------------------------------------------------------------
\* Visiting the key at the head of the ready queue.

OnlyFailed(k) == {d \in graph.dep[k] : state[d] = "FAILED"}   \* mutant
NotSucceeded(k) == {d \in graph.dep[k] : state[d] # "SUCCEEDED"}
BlockedEvenIfAlways(k) == NotSucceeded(k) # {}   \* mutant: runOnDependencyFailure ignored
Blocked(k) == k \notin graph.always /\ NotSucceeded(k) # {}

\* The causes of a blocked process: its dependencies' causes, or themselves.
DirectCauses(k) == NotSucceeded(k)            \* mutant: blocked dependencies named
RootCauses(k) ==
  UNION {IF causes[d] = {} THEN {d} ELSE causes[d] : d \in NotSucceeded(k)}

Visit(k) == pc = "scan" /\ left > 0 /\ k = Head(ready) /\ left' = left - 1

Block(k) ==
  /\ Visit(k) /\ Blocked(k)
  /\ causes' = [causes EXCEPT ![k] = RootCauses(k)]
  /\ Finish(k, "BLOCKED", Tail(ready))
  /\ progressed' = TRUE
  /\ UNCHANGED <<graph, pc, outcome, completed, woken>>

Cancel(k) ==
  /\ Visit(k) /\ ~Blocked(k) /\ stopped
  /\ Finish(k, "CANCELLED", Tail(ready))
  /\ progressed' = TRUE
  /\ UNCHANGED <<graph, pc, causes, outcome, completed, woken>>

DeviceLimitOffByOne(k) ==                     \* mutant: > for >=
  /\ k \in graph.opens /\ MaxActiveDevices # 0
  /\ graph.scope[k] \notin devices
  /\ Cardinality(devices) > MaxActiveDevices
DeviceLimit(k) ==
  /\ k \in graph.opens /\ MaxActiveDevices # 0
  /\ graph.scope[k] \notin devices
  /\ Cardinality(devices) >= MaxActiveDevices
BusyIfAllHeld(k) == graph.res[k] # {} /\ graph.res[k] \subseteq held   \* mutant: all_of
Busy(k) == graph.res[k] \cap held # {}
MustWait(k) == active >= Workers \/ DeviceLimit(k) \/ Busy(k)

Defer(k) ==
  /\ Visit(k) /\ ~Blocked(k) /\ ~stopped /\ MustWait(k)
  /\ ready' = Append(Tail(ready), k)
  /\ UNCHANGED <<graph, pc, execVars, pending, progressed, finished,
                 poolVars, limitVars>>

Dispatch(k) ==
  /\ Visit(k) /\ ~Blocked(k) /\ ~stopped /\ ~MustWait(k)
  /\ ready' = Tail(ready)
  /\ state' = [state EXCEPT ![k] = "RUNNING"]
  /\ active' = active + 1
  /\ held' = held \cup graph.res[k]
  /\ devices' = IF k \in graph.opens THEN devices \cup {graph.scope[k]} ELSE devices
  /\ progressed' = TRUE
  /\ UNCHANGED <<graph, pc, causes, level, stopped, pending, finished, poolVars>>

-----------------------------------------------------------------------------
\* The end of a pass.

EndOfPass == pc = "scan" /\ left = 0
AllFinished == finished = Cardinality(Procs)

Return ==
  /\ EndOfPass /\ AllFinished
  /\ pc' = IF ~stopped /\ \A p \in graph.mandatory : state[p] = "SUCCEEDED"
           THEN "true" ELSE "false"
  /\ UNCHANGED <<graph, execVars, queueVars, poolVars, limitVars>>

NextPass ==
  /\ EndOfPass /\ ~AllFinished /\ progressed
  /\ pc' = "drain"
  /\ UNCHANGED <<graph, execVars, queueVars, poolVars, limitVars>>

\* "Runtime graph cannot make progress": cancel what is pending and give up.
NeverStuck == FALSE                           \* mutant: waits with nothing running
Stuck == active = 0
CancelUnsuccessful(p) ==                      \* mutant: settled results overwritten
  IF state[p] # "SUCCEEDED" THEN "CANCELLED" ELSE state[p]
CancelPending(p) == IF state[p] = "PENDING" THEN "CANCELLED" ELSE state[p]
GiveUp ==
  /\ EndOfPass /\ ~AllFinished /\ ~progressed /\ Stuck
  /\ pc' = "false"
  /\ stopped' = TRUE
  /\ state' = [p \in Procs |-> CancelPending(p)]
  /\ UNCHANGED <<graph, causes, level, queueVars, poolVars, limitVars>>

\* changed.wait: the mutex is free until a completion is posted.
Wait ==
  /\ EndOfPass /\ ~AllFinished /\ ~progressed /\ ~Stuck
  /\ pc' = "wait"
  /\ UNCHANGED <<graph, execVars, queueVars, poolVars, limitVars>>

Wake ==
  /\ pc = "wait" /\ woken /\ completed # << >>
  /\ pc' = "drain" /\ woken' = FALSE
  /\ UNCHANGED <<graph, execVars, queueVars, outcome, completed, data, limitVars>>

Coordinator ==
  \/ Refuse \/ Start \/ Drain \/ BeginPass
  \/ \E k \in Procs : Block(k) \/ Cancel(k) \/ Defer(k) \/ Dispatch(k)
  \/ Return \/ NextPass \/ GiveUp \/ Wait \/ Wake

-----------------------------------------------------------------------------
\* A worker runs its process without the mutex.  A process that returns OK has
\* injected all it writes; one that fails or throws may have injected some.
Run(p) ==
  /\ state[p] = "RUNNING" /\ outcome[p] = "none"
  /\ \E o \in Outcomes, w \in SUBSET graph.writes[p] :
       /\ o = "ok" => w = graph.writes[p]
       /\ outcome' = [outcome EXCEPT ![p] = o]
       /\ data' = [data EXCEPT ![graph.inv[p]] = @ \cup w]
  /\ UNCHANGED <<graph, pc, execVars, queueVars, completed, woken, limitVars>>

NoNotify == woken' = woken                    \* mutant: posts without a wake-up
Notify == woken' = TRUE

\* It takes the mutex to post its completion and to notify the coordinator.
Post(p) ==
  /\ pc = "wait"
  /\ state[p] = "RUNNING" /\ outcome[p] # "none" /\ ~Contains(completed, p)
  /\ completed' = Append(completed, p)
  /\ Notify
  /\ UNCHANGED <<graph, pc, execVars, queueVars, outcome, data, limitVars>>

Done == pc \in {"true", "false"} /\ UNCHANGED vars

Next == Coordinator \/ (\E p \in Procs : Run(p) \/ Post(p)) \/ Done

\* The threads are scheduled and every process' Run returns or throws.
Fairness ==
  /\ WF_vars(Coordinator)
  /\ \A p \in Procs : WF_vars(Run(p)) /\ WF_vars(Post(p))

Spec == Init /\ [][Next]_vars
FairSpec == Spec /\ Fairness
-----------------------------------------------------------------------------
(***************************************************************************)
(* Properties.                                                             *)
(***************************************************************************)
Returned == pc \in {"true", "false"}
Running == {p \in Procs : state[p] = "RUNNING"}

TypeOK ==
  /\ graph \in GraphType
  /\ pc \in {"verify", "drain", "scan", "wait", "true", "false"}
  /\ state \in [Procs -> States]
  /\ causes \in [Procs -> SUBSET Procs]
  /\ level \in [Procs -> Nat]
  /\ pending \in [Procs -> Nat]
  /\ ready \in Seq(Procs)
  /\ left \in 0..Len(ready)
  /\ progressed \in BOOLEAN
  /\ outcome \in [Procs -> Outcomes \cup {"none"}]
  /\ completed \in Seq(Procs)
  /\ woken \in BOOLEAN
  /\ active \in Nat
  /\ held \subseteq Resources
  /\ devices \subseteq Scopes
  /\ finished \in Nat
  /\ stopped \in BOOLEAN
  /\ data \in [Inventories -> SUBSET Types]

\* The inductive invariant behind the theorems, as named parts.  Working is the
\* phase in which the coordinator works through the graph.
Working == pc \in {"drain", "scan", "wait"}
Unsettled(p) == {d \in Prereqs(p) : state[d] \notin Settled}

\* pending counts what p still waits for; it is zero once p has moved.
PendingCounts ==
  Working => \A p \in Procs :
    /\ pending[p] = Cardinality(Unsettled(p))
    /\ state[p] # "PENDING" => pending[p] = 0
ReadyArePending ==
  Working => /\ \A p \in ToSet(ready) : state[p] = "PENDING" /\ pending[p] = 0
             /\ IsInjective(ready)
CompletedAreRunning ==
  /\ \A p \in ToSet(completed) : state[p] = "RUNNING" /\ outcome[p] # "none"
  /\ IsInjective(completed)
Accounting ==
  /\ active = Cardinality(Running) /\ active <= Workers
  /\ held = UNION {graph.res[p] : p \in Running}
  /\ pc = "verify" => \A p \in Procs : state[p] = "PENDING"
  /\ pc = "verify" => finished = 0 /\ completed = << >> /\ left = 0
  /\ Working => KeysVerified /\ finished = Cardinality({p \in Procs : state[p] \in Settled})
  /\ Returned => Running = {}
StopRecorded ==
  StopOnMandatory /\ ~stopped =>
    \A p \in graph.mandatory : state[p] \notin Settled \ {"SUCCEEDED"}

\* A process is dispatched, or found blocked, only when all it waits for has
\* settled; unless it runs on failure, all it depends on has then succeeded.
DependenciesFirst ==
  \A p \in Procs : state[p] \notin {"PENDING", "CANCELLED"} =>
    /\ \A d \in Prereqs(p) : state[d] \in Settled
    /\ p \notin graph.always /\ state[p] # "BLOCKED"
         => \A d \in graph.dep[p] : state[d] = "SUCCEEDED"

\* Two processes that run at the same time hold no resource in common
\* (two writers of one database file, say), and a thread runs each of them.
ResourcesExclusive ==
  /\ \A p, q \in Running : p # q => graph.res[p] \cap graph.res[q] = {}
  /\ Cardinality(Running) <= Workers

\* No more than maxActiveDevices devices are analysed at the same time: every
\* process of a device scope counts, not only the one that opens it.  As the graph
\* builder lays devices out, the others require that one, and the one that closes
\* the device comes after all of them.
Before(q) ==
  {d \in Procs : \A S \in SUBSET Procs :
     Prereqs(q) \subseteq S /\ (\A e \in S : Prereqs(e) \subseteq S) => d \in S}
Opened(s) ==
  \A p \in Procs \ graph.opens : graph.scope[p] = s =>
    /\ p \notin graph.always
    /\ \E o \in graph.opens \cap graph.dep[p] : graph.scope[o] = s
ClosedLast(s) ==
  \A q \in graph.closes, p \in Procs :
    graph.scope[q] = s /\ graph.scope[p] = s /\ p # q => p \in Before(q)
DeviceSlots ==
  LET bracketed == {s \in Scopes : Opened(s) /\ ClosedLast(s)}
      deviceScopes == {graph.scope[p] : p \in graph.opens} \cap bracketed
  IN  MaxActiveDevices # 0 =>
        Cardinality({graph.scope[p] : p \in Running} \cap deviceScopes)
          <= MaxActiveDevices

IInv ==
  /\ TypeOK
  /\ PendingCounts /\ ReadyArePending /\ CompletedAreRunning
  /\ Accounting /\ StopRecorded
  /\ DependenciesFirst /\ ResourcesExclusive

\* What a blocked process is blamed on: the processes that failed or were
\* cancelled and are reached from it through blocked ones.
BlamedOn(p) ==
  {c \in Procs :
     /\ state[c] \in {"FAILED", "CANCELLED"}
     /\ \A S \in SUBSET Procs :
          p \in S /\ (\A q \in S : state[q] = "BLOCKED" => NotSucceeded(q) \subseteq S)
            => c \in S}

\* failedDependencies of a blocked process names exactly the root causes, at
\* least one, however many blocked processes lie between.
CausesAreRoots ==
  \A p \in Procs : state[p] = "BLOCKED" => causes[p] # {} /\ causes[p] = BlamedOn(p)

\* Releasing unused data while others run never takes away what a successful
\* process injected for a process that has yet to run or is running.
SucceededDataKept ==
  \A p, c \in Procs :
    /\ outcome[p] = "ok" /\ graph.inv[p] = graph.inv[c]
    /\ state[c] \in {"PENDING", "RUNNING"}
    => graph.writes[p] \cap graph.reads[c] \subseteq data[graph.inv[c]]

\* A run that settled everything leaves no data behind, whatever failed.
AllReleased ==
  ReleaseUnusedData /\ Returned /\ AllFinished => \A i \in Inventories : data[i] = {}

\* The executor returns only when every process has settled, unless it refused
\* the collection and ran nothing: a verified graph whose device scopes are all
\* closed, by a process that waits for no device opened since its own was, never
\* gets stuck.  Nothing is running or waiting to be drained when it returns.
OpensOther(p) == {r \in graph.opens : graph.scope[r] # graph.scope[p]}
ScopesClosed ==
  \A p \in graph.opens : \E q \in graph.closes :
    /\ graph.scope[q] = graph.scope[p] /\ p \in Prereqs(q)
    /\ Before(q) \cap OpensOther(p) \subseteq Before(p)
RefusedOrFinished ==
  Returned =>
    /\ \/ AllFinished \/ (\A p \in Procs : state[p] = "PENDING")
       \/ ~ScopesClosed
    /\ Running = {} /\ completed = << >>

\* With CONTINUE_INDEPENDENT a failure stops its dependents and nothing else:
\* the processes that did not run are those some chain of dependencies leads
\* from to a failed one, up to a process that runs on failure.
Doomed ==
  {p \in Procs : \A S \in SUBSET Procs :
     (\A q \in Procs \ graph.always :
        (\E d \in graph.dep[q] : state[d] = "FAILED" \/ d \in S) => q \in S)
     => p \in S}
FailureContained ==
  ~StopOnMandatory /\ StopAt = {} /\ Returned /\ AllFinished
    => {p \in Procs : state[p] \in {"BLOCKED", "CANCELLED"}} = Doomed

\* Once a mandatory process has not succeeded (in STOP_ON_MANDATORY_FAILURE) or
\* a process has reported the DFX stop, no further process is started, and the
\* run does not return true.
MustStop ==
  \E p \in Procs :
    \/ StopOnMandatory /\ p \in graph.mandatory /\ state[p] \in Settled \ {"SUCCEEDED"}
    \/ p \in StopAt /\ state[p] = "FAILED" /\ outcome[p] \in {"ok", "error"}
NoStartAfterStop ==
  [][MustStop => Running' \subseteq Running /\ pc' # "true"]_vars

\* Whatever fails, throws or blocks, the executor returns.
Termination == <>Returned

\* The executor implements the contract of DagExecution.
Contract == INSTANCE DagExecution WITH
              verdict <- IF Returned THEN pc ELSE "none"
ImplementsContract == Contract!Spec
=============================================================================
