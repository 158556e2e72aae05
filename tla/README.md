# A TLA+ development for msprof

msprof analyses the profiling data that an Ascend device run collects: it parses
binary files of the host and of each device, stores what it learns in SQLite
databases, and exports timelines (JSON), summaries (CSV) and a unified database.
Two engines do this: a Python front end (`analysis/msinterface`, `analysis/msparser`,
...) and a C++ engine (`analysis/csrc`).  This directory holds TLA+ models of the
parts of both where order, concurrency and failure decide whether the result is right.

Paths below are relative to the repository; `csrc/` stands for `analysis/csrc/`.

## 1. Inventory

| part | state it keeps | operations | talks to | what is hard |
|---|---|---|---|---|
| **ProcessControl** `csrc/infrastructure/process/process_control.cpp` | process results, levels, pending counts, ready and completed queues, resources, device slots | `Execute` (verify, dispatch, settle, give up) | thread pool, data inventories, every process of the graph | workers finish in any order; failures, stops and limits interact; condition variable |
| **ThreadPool** `csrc/infrastructure/utils/thread_pool.cpp` | task queue, running flag, threads | `Start AddTask WaitAllTasks Stop FetchTask Loop` | everything parallel in the C++ engine | two condition variables, tasks dropped at stop, a flag read outside the lock |
| **DataInventory** `csrc/infrastructure/data_inventory` | data by type | `Inject GetPtr RemoveRestData` | processes, ProcessControl | check-then-insert in two lock sections |
| **TopoGraph** `csrc/infrastructure/process/topo_graph.cpp` | definitions, overlay, memoised keys | `Register Add Build` | graph builder, registers | recursion over devices and chips, cycle detection, keys handed out on the way back |
| **Registered topology** `csrc/*/…_topology_register.cpp` | what each process depends on and reads | static registration | TopoGraph, ProcessControl | a type read but not declared is released before its reader |
| **Graph builder and pipeline markers** `csrc/application/pipeline` | INCOMPLETE/COMPLETE markers, input snapshots, validated devices | `PlanPipeline`, `Device.Ready`, `Export.Init`, `Export.Finalize` | ProcessControl, the file system, the Python front end | crash between two file operations; reuse of intermediate results |
| **DeliverableConsumer** `csrc/application/deliverable_consumer.cpp` | JSON and CSV streams, DB writer threads, sticky `ok` | `AcceptJson SyncJson FinishTimeline StartCsv AppendCsv FinishCsv RunDb CloseAllDb` | assemblers, thread pool, file system | many producers, one drainer per file, bounded queues, a writer that throws, threads that end while called |
| **JsonEventSink** (same component) | event batch, spill file | `push_back Flush Discard Sync` | DeliverableConsumer | spill and replay |
| **ProfTaskScheduler** `analysis/msinterface/prof_parallel_scheduler.py` | owned worker processes, channels, deadlines, failures | `run` and its handlers | worker processes, signals | process death at any point, interrupt, bootstrap timeout |
| **Task executor** `analysis/msinterface/prof_task_executor.py` | the worker's side of the channel | `run_prof_task` | the scheduler | the parent may die |
| **Task plan** `analysis/msinterface/prof_parallel_plan.py` | none (pure) | `plan_prof_tasks` | the scheduler | boundaries |
| **C++ pipeline decision** `analysis/common_func/cpp_pipeline_decision.py`, `msprof_cpp_pipeline.py` | none / result of a run | `_decide`, `run` | C++ engine, Python engine | stale intermediate results |
| **Command entry points** `analysis/msinterface`, `msvp_common.py`, `msprof_common.py` | `data/all_file.complete` | import and export of a directory: clear, parse, complete, view, clean up | both engines | files removed one by one, shared with the C++ engine's markers |
| **Export manager** `csrc/application/export_manager.cpp` | reports, plan | `Plan Run` | unified pipeline | selection |
| **Host parsing and association** `csrc/domain/services/{parser/host,association/cann}` | event queues, API trees | `GroupEvents`, `Build` | ThreadPool | nesting of intervals |
| **Device modelling** `csrc/domain/services/modeling` | batch ids, step traces | `ModelingFlow...` | device processes | wrap-around of 16-bit task ids |
| **Python calculators, parsers, viewers** `analysis/mscalculate`, `analysis/msparser`, `analysis/viewer` | tables | per data kind | SQLite | data volume rather than control |

The correctness properties that matter, per part:

- **ProcessControl**: dependencies first; a failure stops its dependents and nothing
  else; no start after a stop; exclusive resources; the device limit; data is not
  released before its last reader; the run ends; blame names the root causes.
- **ProfTaskScheduler**: success means that every task returned; the exception raised is
  that of the smallest failed task; a failure spreads to no peer; a slot stands for a
  whole process tree; nothing is left behind; the run ends.
- **DeliverableConsumer**: one writer per file and per database; events in order, at most
  once; an assembler or saver reports success only of what is on disk; files are well
  formed; a failure is in the verdict before anybody acts on it; waiting ends whatever
  fails; the run returns only when all writes are done.
- **ThreadPool**: a barrier. No task is lost, doubled or overtaken; the owner gets past
  it only when nothing runs any more.
- **Pipeline markers**: whatever instant a run dies at, a marker that a later run trusts
  speaks of tables that are there, of one version of the inputs.
- **TopoGraph and the registered topology**: the graph built is acyclic, complete and
  what the definitions mean; who reads data is ordered after who makes it, and declares it.
- **Batch ids, task plan, decision, host trees**: each computes what a reference
  definition says.

How they fit together: the Python front end plans tasks and forks one worker per PROF
directory (ProfTaskScheduler); a worker decides between the engines (PipelineMarkers); the
C++ engine plans a run from the markers it finds, builds a graph (TopoGraph, PipelinePlan),
runs it (ProcessControl on a ThreadPool, with data in DataInventories), and its export
processes are assemblers and savers that feed DeliverableConsumer (streams and DbWriters),
which ExecuteTopoGraph finishes once the graph has run.

## 2. Modules

| module | kind | models |
|---|---|---|
| `ProcessControl` | component | `csrc/infrastructure/process/process_control.cpp` |
| `DagExecution` | abstract specification | what `ExecuteProcess` promises its caller |
| `MCGraphs`, `MCProcessControl` | instances | families of graphs for TLC |
| `ProfTaskScheduler` | component | `msinterface/prof_parallel_scheduler.py`, `prof_task_executor.py` |
| `MCProfTasks` | instances | scenarios of two tasks |
| `DeliverableConsumer` | component | streams of `csrc/application/deliverable_consumer.cpp`, `json_event_sink.h`, the `Run` of `json_assembler.cpp` and `summary_assembler.h` |
| `MCDeliverables` | instances | two timelines, or a table |
| `DbWriters` | component | the database threads of `deliverable_consumer.cpp`, `DeliverableScope` |
| `MCDbWriters` | instances | two savers, two databases, ways of closing |
| `ThreadPool` | component | `csrc/infrastructure/utils/thread_pool.cpp` with the protocol of its owners |
| `TaskBarrier` | abstract specification | what the owner of a pool relies on |
| `MCThreadPool` | instances | the ways a pool is used |
| `TopoGraph` | component | `csrc/infrastructure/process/topo_graph.cpp` |
| `TopologyTables` | data | all that the topology registers register, and what the processes read, make and edit |
| `PipelinePlan` | composition | `PlanPipeline` of `topo_graph_builder.cpp` over `TopoGraph` and the tables |
| `MCPipelinePlan` | instances | requests, and calls with invented definitions |
| `PipelineMarkers` | component | markers and intermediate results over many runs of both engines |
| `ProcessControlProofs`, `ProfTaskSchedulerProofs`, `DeliverableConsumerProofs`, `DbWritersProofs`, `ThreadPoolProofs`, `PipelinePlanProofs`, `PipelineMarkersProofs` | proofs | theorems about the component of that name |
| `InductionFacts` | proofs | induction over the natural numbers, and facts about `FlattenSeq`, `FoldSet`, least closed sets and what is left of a set that is taken apart, in a form first-order provers can use |

To check a run: `tlc -config pc_stop.cfg MCProcessControl.tla` and so on (the module of
each run is in `PROJECT.json`); a proof: `tlapm ProcessControlProofs.tla`.  Definitions
marked "mutant" are plausible bugs; each property has one that breaks it.

### ProcessControl

`Execute` is run by one coordinator; `pc` says where it is in its loop: `verify`
(VerifyDependencies), `drain` (completions), `scan` (a pass over the ready queue), `wait`.
`left` is the part of the pass still to be visited.  The coordinator holds the mutex all
the time but in `changed.wait`, and a worker needs it only to post its completion, so each
visit, each drained completion and each decision is one action, while `Run` (a worker
runs its process and injects data) happens between any two of them.

| code | model |
|---|---|
| `VerifyDependencies`, initial counts | `KeysVerified`, `KahnRemoved`, `Refuse`, `Start` |
| completion loop, lambda `finish` | `Drain`, `Finish` (release of resources and slots, levels, stop, counts, unused data) |
| pass over `ready` | `BeginPass`, `Block`, `Cancel`, `Defer`, `Dispatch` |
| after a pass: return, next pass, give up, wait | `Return`, `NextPass`, `GiveUp`, `Wait`, `Wake` |
| task of the pool | `Run`, `Post` |

Dispatch order among keys that become ready at the same time follows a hash map, so it
is any order.  Priorities, statistics and log texts are left out.

### ProfTaskScheduler

`_run_parallel` is a loop of stages (`pump reap deadline cancel drain dispatch spawn`)
each of which visits the tasks it owns in turn; `todo` is what it has still to visit, and
one visit is one action.  Workers, their descendants, signals and clocks act in between.
`rec[t]` is the `_OwnedTask`, `w[t]` the operating system's view of the worker,
`kids[t]` whether descendants of it live on in its process group.  A clock is a flag that
a deadline has passed.  Probes of a group (`/proc` snapshot, identity) may find it
unverifiable, which raises and leaves the loop for `_cancel_all_owned` (`Cleanup`).
The serial mode, the framing of messages and progress output are left out.

### DeliverableConsumer

A file is the sequence of the tokens written to it, an event or row being one token, and
a write counts one against the cap of its queue.  Actors (assemblers, and the main thread
in `FinishTimeline`) queue operations on streams, `Enqueue`; whoever finds the stream
without a drain marks it scheduled and hands one to the pool, `Schedule`; a thread of the
pool (or the actor itself, when it was given no pool) takes it up and carries out the
operations one by one: `Fetch`, `Pop`, `Perform`, each a lock section or the work between
two of them.  An operation may fail (noted in `ok`), or throw (`FailStream`).

The pool is made by the first who needs it, and kept.  `pool` says that it is there, `alive`
which threads it has, `alone[p]` that actor `p` has been told to write for itself.  `Start`
may return false: the pool is dropped and the next caller tries again (`EnsurePool`).  Or a
thread cannot be made and `Start` throws: the caller fails, but the pool stays with the
threads it has, perhaps none (`StartThrows`).  The consumer is a singleton, so that a run may
find any of these pools when it begins (`PoolAtStart`).

| code | model |
|---|---|
| `EnsurePool`, `ThreadPool::Start` | `EnsurePool`, `StartThrows` |
| `JsonEventSink::push_back`, `PublishDirect`, `ReplaySpill` | `PushBatch`, `Replay`, `ReplayBreaks` |
| `JsonAssembler::Run` | `Flush` or `Discard`; after `Flush`, `Sync` file by file and `Report` |
| `StartCsv`, `AppendCsvRows`, `FinishCsv`, `SummaryAssembler::Run` | `StartCsv`, `AppendRow`, `FinishCsv`, `EndCsv`, or `Abandon` when it throws |
| `FinishTimeline`, `ExecuteTopoGraph` | `FinishStream`, `StreamFinished`, `Return` |

`ConstantsAssumption` says of the data what the code builds: an assembler knows a file once
(`prefixes_` is keyed by path, `deliverable_consumer.cpp:834`), and there is a longest table.
`NamesApart` keeps the model values for streams, tables, threads, actors and brackets from
coinciding.

A JSON stream, a table and a database are never one file, so that streams and database
writers share nothing but `ok`, which only ever goes from true to false: they are two
modules.

### DbWriters

A saver's call of `RunDb` goes through `EnsureDb` (find or make the writer of a path,
under `dbMu`), the lock section of the writer's own mutex that queues the job unless the
writer was told to stop, the notification, and the wait for the future; between any two
of these everybody else acts.  A writer's `at` is its place in `DbLoop`.  `InsertRows`
inserts batch by batch, each a transaction whose COMMIT result nobody reads (`lost` is what
a failed COMMIT took away).

| code | model |
|---|---|
| `RunDb` | `EnsureDb`, `Push`, `NotifyOne`, `Get` |
| `DbLoop` | `Fetch`, `InsertBatch`, `EndJob`, `SetValue` |
| `CloseAllDb` | `CloseAllDb`, `Stop`, `NotifyAll`, `Join`, `Closed`; `dbMu` is held throughout |
| `DeliverableScope` | two closes, the second by the destructor |

### ThreadPool

A lock section is an action.  `running_` is written under the lock but read by `Loop`
without; the read may still see the old value until the thread has taken the lock.  A
`mode` chosen at the start says how the owner uses the pool: tasks before or after
`Start`, with or without `WaitAllTasks`, tasks wrapped by `AddCheckedTask` or bare, threads
that can be made or not.  `TaskBarrier` is the view from outside: tasks begin and end on
workers, and nothing does once the owner has passed.

### TopoGraph, TopologyTables, PipelinePlan

`TopoGraphCompiler::Add` is recursive; in the model its calls are frames on `stack`, and a
step resolves one dependency: `Known` (the graph has the instance), `Enter` (a new one),
`Leave` (all its dependencies have keys: it becomes a process), and the failures of `Build`.
Dependencies on a device's node that name no device stand for one instance per device, in
any order (a hash table in the code; the checks take one order).  A definition may have a
`dependencyResolver` (`Resolver`): a function of the constants, given an instance's scope and
of the call only what the code passes it (`View`: the context and the roots, not the overlay).
`WellFormed` is what a C++ call cannot help being: finite collections, lists of ids.

`TopologyTables` holds the definitions that are registered when the library is loaded:
names, dependencies, completion dependencies, chips, mandatory or optional, the
`dependencyResolver`, declared inputs; and, from the bodies of the processes, what each
really takes from its inventory, puts there, and edits in place.  `PipelinePlan` makes
from a request (host, devices with chips, exports, what is reused) the overlay and roots
as `PlanPipeline` does (`Environment.Load`, `Export.Init`, the operations of each device,
`Device.Ready`, `Export.Finalize`, `Pipeline.Done`) and has `TopoGraph` build them, once to
learn what each device needs and once for the graph that runs.  `With` is `emplace`: a
definition that is there stays.

| code | model |
|---|---|
| `Find`, `ResolveScope`, `ExpandDeviceDependencies` | `Definition`, `ScopeOf`, `Expand` |
| `Add`, `Build` | `Begin`, `Known`, `Enter`, `Leave`, `Finish`, and its failures |
| registers, `BindDeviceDefinitions` | `Registered`, `Bindings` |
| `PlanPipeline`, `AddDeviceCompletion` | `Selection`, `ReadyNodes`, `Closing`, `Complete` between the two builds |
| `single_device.cpp` | `SingleDevice` |

### PipelineMarkers

Of every directory (the host's and one per device) the model keeps: a version of the
inputs (it stands for names, sizes and times in `InputSnapshot`), INCOMPLETE and COMPLETE
with what is written into them, from which version each table was made, whether any
`*.db` file is there (what the front end looks at), and `all_file.complete`; of the PROF
directory the markers of the export.  A command (import or export) is given to one of the
engines; it may die before any file operation (`Crash`), and the inputs may change at any
time (`Touch`).

| code | model |
|---|---|
| `CppPipelineRunner._run`, `_has_sqlite_data` | `StartNative`, `Requested` |
| `ValidateExportState`, `IntermediateReady`, `PlanPipeline` | `PlanFails`, `Plan` (`Refused`, `Ready`) |
| `CreateHost`, `CreateDeviceInit`, `WriteMarker(false)` | `StartParse` |
| producers | `OpenDb`, `MakeTable`, `ProducerFails` |
| `Device.Ready`, `WriteMarker(true)` | `PublishComplete`, then `DropIncomplete` |
| `Export.Init`, exports, `Export.Finalize`, `Pipeline.Done` | `ExportInit`, `SomeExported`, `ExportReads`, `ExportFails`, `Finalize`, `Finish` |
| `clear_project_dirs`, `analyze_collect_data`, `add_all_file_complete` | `PyBegin`, `RemoveDb`, `RemoveLastDb`, `RemoveMarker`, `Cleared`, `ClearFails`, `PyTable`, `PyParsed` |
| `_start_calculate`, `dump_device_data` | `Calculate`, `DumpDevice` |
| `ImportCommand`, `ExportCommand` | `StartPython`, `PyFails`, `PyView`, `Conclude`, `PyCleared` |

An export runs its calculators on every directory, those that it skipped as analysed
included; they write tables from the raw files or from other tables, or drop one and fail.  An
import ends with `dump_device_data`, also after a directory has failed.  Both write beside
whatever markers there are, and so do the parsers after a clear that failed.  (An export calls
`dump_device_data` as well, before its calculators, which may write all that it may.)

`foreign` is an auxiliary variable: the tables of a directory that the Python engine has
removed or written beside the COMPLETE that is there (all of them where it removed an
INCOMPLETE from beside it).  A directory is not excepted from `CompleteMeansWhole` for a
clear that failed or was cut short: tables that are not foreign are those COMPLETE
speaks of, and where it speaks for a whole directory, the only kind a later run takes as parsed,
foreign ones are gone or no older than the inputs it lists.  With the comparison of the inputs
at the plan this makes what a reuse reads fresh or missing, never stale: `ExportFromOneVersion`.

## 3. Runs

| run | instance | shows |
|---|---|---|
| `pc_stop` | every acyclic graph of 3 processes (mandatory, optional, run on failure; each edge a dependence or order-only), every other graph over them, device scopes never closed; stop on failure, DFX stop; 2 workers | `CausesAreRoots`, `RefusedOrFinished`, `NoStartAfterStop`, `Termination`, `ImplementsContract` |
| `pc_continue` | CONTINUE_INDEPENDENT: all graphs of dependences of 4 processes, those of 3 joined by a fourth, 3 that share 2 resources or 2 types in 1 or 2 inventories, 2 devices for 1 slot | `FailureContained`, `ResourcesExclusive`, `SucceededDataKept`, `AllReleased`, `DeviceSlots`, `RefusedOrFinished` |
| `pt_safety` | 2 tasks on 2 slots whose workers crash, hang, raise or fail to start; groups unverifiable at any probe on 2 slots, or on 1 with an interrupt | `SuccessMeansAllReturned`, `FirstFailureReported`, `SlotsBoundTrees`, `NothingLeftBehind`, `FailureDoesNotSpread` |
| `pt_ends` | 2 tasks drained after a failure on 2 slots; INT, TERM, failing spawns and the death of the parent on 1 | `Termination` |
| `dc_delivery` | 2 assemblers and 2 timelines, one shared, 2 batches each, or a table of 0 to 5 rows announced as 0 or 3; queues of 1 write; a pool of 2 threads, of fewer, or none; every fault (with both assemblers at once: those of files, or those of the pool) | `OneDrain`, `EventsInOrder`, `SuccessMeansWritten`, `TimelinesWhenOk`, `TablesWhenOk`, `Termination` |
| `dc_abandoned` | the same table | a violation, section 6 |
| `db_writers` | 2 savers, 2 databases, inserts of 2 batches and an index; closes after the calls or during them; threads, jobs and COMMITs that fail | `OneWriter`, `NoneDropped`, `RowsStand`, `FailureInVerdict`, `Termination` |
| `tp_pool` | 3 threads, 4 tasks, every mode | `EachTaskOnce`, `VerdictHonest`, `Termination`, `ImplementsBarrier` |
| `tg_build` | all registered definitions on each chip they name and one they do not, with and without host, reuse, exports; 13 826 calls with invented definitions | `Verifiable`, `ExactGraph`, `InputsOrdered`, `DeviceBracketed` |
| `tg_inputs` | the step trace summary of each chip, without its timeline | a violation, section 6 |
| `pm_markers` | a host and a device, a mandatory and an optional table, 2 commands on either engine, 2 versions of the inputs | `CompleteMeansWhole`, `ExportFromOneVersion`, `PartialOutputMarked` |
| `pm_partial` | the same, C++ engine only | a violation, section 6 |

Why these bounds.  ProcessControl: every rule speaks of a process and its direct
neighbours, or of two that compete; with 3 or 4 processes every shape of dependence between
a failed process, one in between and one that must still run occurs, 2 workers make any
two overlap, and a second device is the first that waits for one slot.  Scheduler: the rules
compare a failed task with one peer, and one slot with two tasks is the least that reuses
it.  Streams: two assemblers are the least that share a file; 2 batches the least with a
spill before the rest; rows 0 to 5 at a limit of 2 reach the first, second and third slice
and both sides of each boundary; a queue of 1 write fills at once.  `FlushAt = 2` makes a
buffer flush both in the middle of a slice and at its end.  Databases: a writer that is
stopped, a second made for the same path and one of another path need 2 savers and 2 calls.
Pool: with 3 threads one can run, one sleep and one be woken; 4 tasks leave one in the queue
with all threads busy.  Graphs: the registered definitions are not bounded at all; a request
has up to 2 devices, the least with which expansion differs from naming; the invented calls
have 3 devices (one reused, one of another chip) and 5 names, enough for a cycle through a
dependency, a completion dependency or an expansion, and for a missing node.  Markers:
a parse and a later command that finds its remains are 2 runs; a version that INCOMPLETE
lists and a newer one are 2; 2 tables are the least that can be partly there.

Deadlock is checked where the last state steps to itself (ProcessControl, ThreadPool,
DbWriters).  The scheduler and the streams end for good, and their `Termination` says that
they do; the marker and graph models end when their bounds or requests are used up.

Runs are kept few by choosing the graph, scenario, mode or request in the initial state: a
run then covers a family.

## 4. Fairness

- ProcessControl: the coordinator and each worker are scheduled, and a process that runs
  comes to an end (they are threads of one program, and `Run` has no lock to wait for).
- ProfTaskScheduler: the parent's loop runs; clocks advance; signals are delivered; a
  worker *told to run* takes the order, ends and exits.  Nothing is assumed of a worker
  before RUN: it may hang there, which is what the bootstrap deadline is for; and its
  descendants need not end until they are killed.
- DeliverableConsumer: the program does not stop while a thread of it can move (weak fairness
  of `Next`; nothing repeats for ever, so that no thread can be passed over).  Waiters use condition variables with predicates under the lock that guards them, and
  every change of the predicate notifies, so that a wait is a guard.
- DbWriters, ThreadPool: each thread is scheduled, and what it runs comes to an end.  Here
  sleeping and waking are modelled (`sleep`, `asleep`, `NotifyOne`, `WakeOne`), so that
  `Termination` also says that no wake-up is lost.

Only `Termination` of each component uses fairness; safety runs use `Spec`, or a
specification with fairness that is of no matter to safety.  PipelineMarkers and PipelinePlan
state safety only: nothing obliges a user to start another command.

## 5. Proofs

All theorems hold for every value of the constants, from the module's named assumptions
(`ConstantsAssumption`, `MarkersAssumption`, `NamesApart`, and those of PipelinePlan) alone.
TLC evaluates each of them on the instances it checks.  Those of PipelinePlan:

| assumption | the code that justifies it |
|---|---|
| `RequestsAreScoped` | the scope of a device is the name of its directory (`device_0`), never `profile`, `host` or `export` |
| `TablesAreWellFormed`, `RequestsAreWellFormed`, `CallsAreWellFormed` | collections are finite, dependencies are lists of ids, and resolvers return lists of ids; registered ids have no scope |
| `DevicesAreInitialised` | `DeviceDefinition` (`device_topology_register.cpp:101`) makes every operation of a device depend on `Device.Init`; nobody registers `Device.Ready`, `Export.Finalize` or `Pipeline.Done` |
| `BothBuildsAnswerAlike` | resolvers take of the roots only exports, which both builds of a plan have |

The last two are used by `DevicesAreBracketed` only.

| module | theorem | statement |
|---|---|---|
| `ProcessControlProofs` | `Invariance`, `TypeCorrect` | `Spec => []IInv`, `Spec => []TypeOK` |
| | `Exclusion` | `Spec => []ResourcesExclusive` |
| | `Order` | `Spec => []DependenciesFirst` |
| | `Released`, `DataKept` | `Spec => []AllReleased`, `Spec => []SucceededDataKept` |
| | `StopIsFinal` | `Spec => NoStartAfterStop` |
| | `Implementation` | `Spec => ImplementsContract`, the refinement of `DagExecution` |
| | `VerifiedIsGrounded` | `VerifyDependencies => KeysVerified /\ Grounded`: Kahn's rounds leave no cycle |
| | `Causes`, `Containment` | `Spec => []CausesAreRoots`, `[]FailureContained` |
| | `Slots` | `Spec => []DeviceSlots` |
| | `SettlesAll` | `Spec => []RefusedOrFinished` |
| `InductionFacts` | `FlattenRange`, `FoldLists` (lemmas) | what `FlattenSeq` and an appending `FoldSet` list |
| | `ClosureIsLeast`, `CoreIsLeft` (lemmas) | of two recursions over subsets of a finite set: the least closed set, the greatest set each member of which needs another |
| `ProfTaskSchedulerProofs` | `Invariance`, `TypeCorrect` | `Spec => []FullInv`, `Spec => []TypeOK` |
| | `Slots`, `NothingLeft` | `Spec => []SlotsBoundTrees`, `[]NothingLeftBehind` |
| | `Success`, `FirstFailure` | `Spec => []SuccessMeansAllReturned`, `[]FirstFailureReported` |
| | `NoSpread` | `Spec => FailureDoesNotSpread` |
| `DeliverableConsumerProofs` | `Invariance`, `SingleDrain` | `Spec => []IInv`, `Spec => []OneDrain` |
| | `QueuesAreDrained` | `Spec => []NoneStranded`: what is queued has a drain that will come |
| | `DeliveryStands`, `TypeCorrect` | `Spec => []Delivery`, `Spec => []TypeOK` |
| | `EventsKeepOrder`, `SuccessIsWritten` | `Spec => []EventsInOrder`, `[]SuccessMeansWritten` |
| | `TimelinesAreWhole`, `TablesAreWhole` | `Spec => []TimelinesWhenOk`, `[]TablesWhenOk` |
| `ThreadPoolProofs` | `Invariance`, `TypeCorrect`, `NoTaskLostOrDoubled`, `Honesty` | `Spec => []EachTaskOnce`, `[]VerdictHonest` |
| | `PoolIsBarrier` | `Spec => ImplementsBarrier`, the refinement of `TaskBarrier` |
| `DbWritersProofs` | `Invariance`, `TypeCorrect`, `SingleWriter`, `JobsKept`, `FailuresCount` | `Spec => []OneWriter`, `[]NoneDropped`, `[]FailureInVerdict` |
| | `Rows` | `Spec => []RowsStand` |
| `PipelinePlanProofs` | `Invariance`, `GraphVerifiable` | `Spec => []IInv`, `Spec => []Verifiable` |
| | `GraphIsExact` | `Spec => []ExactGraph`: the graph is what the definitions mean |
| | `DevicesAreBracketed` | `Spec => []DeviceBracketed`: Device.Init first, Device.Ready last |
| `PipelineMarkersProofs` | `Invariance`, `TypeCorrect`, `CompleteIsWhole`, `OneVersion`, `PartialMarked` | `Spec => []CompleteMeansWhole`, `[]ExportFromOneVersion`, `[]PartialOutputMarked` |

Along which argument:

- **ProcessControl.** `DependenciesFirst` is not inductive: a key is dispatched because it
  is in `ready`, and it is there because a counter reached zero.  `IInv` adds what connects
  these: a counter is the number of prerequisites not settled (`PendingCounts`), what is
  ready is pending with a counter of zero and queued once (`ReadyArePending`), what is in the
  completion queue is running and queued once (`CompletedAreRunning`), so that no process is
  settled twice; the tallies `active`, `held` and `finished` agree with the states
  (`Accounting`), so that the checks a dispatch makes of them are checks of the running
  processes; and the stop flag is set once a mandatory process has not succeeded
  (`StopRecorded`), which the refinement needs: the contract starts nothing after that.
  One lemma per action; those of settling a process share `FinishStates`, `FinishCounts`,
  `FinishReady`, `FinishLimits`, `FinishOrder` and `FinishTypes`.
  `SucceededDataKept` and `AllReleased` follow from a second invariant on top of `IInv`,
  `DInv`: what a process that is pending or runs still wants was dropped from no inventory,
  nothing is wanted any more once all have settled, and a stop that a process asked for is in
  `stopped` when its completion has been drained.  So does `NoStartAfterStop`, an action property.

  The other four properties go along chains of dependencies.  What the code computes by
  going along a chain is stated as a least closed set of processes (`BlamedOn`, `Doomed`,
  `Before`), so that no recursion is left in the statement, and every argument starts from
  `Grounded`: each non-empty set of processes has one that depends on none of the others.
  `VerifiedIsGrounded` proves it of the graphs that pass: the rounds of `KahnRemoved` are
  a function by recursion, which exists by the lemma `Iteration`, and the first process of a set to
  be removed has nothing in the set before it.  `GraphInv` relates the causes of a blocked
  process to those of the processes it waited for (`LocalCauses`); that they are the
  roots reached by a chain follows by taking a first counterexample.  `DeviceInv` has a
  device counted from the dispatch of a process that opens it until one that closes it has
  settled, so that the limit on the count bounds the devices whose processes run.
  `DeviceSlots` is about devices as the builder lays them out, all processes of a device after
  its opener and before its closer (`Opened`, `ClosedLast`); of another graph it is false,
  and `DeviceBracketed` is that property of the graphs a plan builds.  `ProgressInv` gives
  `RefusedOrFinished`: a process with no prerequisites left is ready or refused, and a pass
  that dispatches nothing while nothing runs has met only processes that wait for a device
  slot; the devices counted then all have a closer, and a first process before it that is
  not settled could have run.
- **ProfTaskScheduler.** None of the five properties is inductive: each speaks of workers,
  and the parent acts on what it has recorded of them.  `FullInv` says, per task, what a
  record and its worker have to do with each other: what lives is owned, and a worker that
  has not said READY has no descendants, orders or results (`TreeOwned`); a task that runs
  was told to, one that may have descendants has a group that is known, and a channel is
  closed only for a task that never runs (`RecordTrue`); a result is under way to the parent,
  recorded, or in the verdict (`ResultKept`); a tree is cancelled only for an interrupt, in a
  cleanup, or when its task can do no work any more (`RunningSpared`).  `BlameJust` says that
  the task blamed has not returned normally and never will, `LoopPhases` why the loop is
  where it is, `SlotsKept` that no more is owned than there are slots, `SignalsLive` that
  signals are pending for living workers only.  One lemma per stage of the parent
  (`SettleSettles`, `VisitKeepsIInv` and `ReclaimKeepsIInv` say what visits have in common),
  one for the environment, one for the worker; a task a step is not about keeps its part
  (`KeptKeeps`).  `NoSpread` is an action property: it needs in addition who a visit may
  signal (`RunningUnsignalled`) and blame (`BlamedWithCause`).
- **DeliverableConsumer.** A drain of a stream is with an actor that has to post it, in the
  queue of the pool or with a thread; `DrainIffScheduled` says that it is in one of these
  just when `ioScheduled` is set, and at most once in all.  With `QueuesScheduled` (a queue
  that is not empty is scheduled) this gives `OneDrain` and `NoneStranded`.

  The contents rest on it: as one thread at a time writes a stream, what is `Pending` for it
  is one sequence, the operation in that thread's hand and then the queue, and a step of the pool
  has only four effects on it (`DrainEffect`): none, the first operation is written, it
  is lost and `ok` turns false, or all is given up and `ok` turns false.  What is
  queued is a step of an actor (one lemma per action), of which `Shapes` says what it may still
  have in `out` where it is.  `Types` includes that no queue holds more writes than
  `Cap`.  Over these, three invariants say where everything is:
  `Stories`, that the events of an assembler for a file are in the file, then pending, then in
  its `out`, in order and below `made` (`Ordered`), that while `ok` holds none is
  missing (`Accounted`), and that what `Sync` waited for is written (`Awaited`); `Timelines`,
  that a timeline that is open is `HalfOpen` and what is pending continues it (`Separated`),
  with the closing bracket last and only from `FinishTimeline`; `TablesStand`, that
  the operations ahead of a table, carried out on its files (`Replays`), leave them as its
  stream has them: each full slice with its rows, and the last with what is not in the buffer
  yet (`Stand`).  All six are inductive together
  (`Delivery`); `EventsInOrder` and `SuccessMeansWritten` are parts of them.
- **ThreadPool.** `EachTaskOnce` (queue, hands and done tasks partition what was added) is
  inductive with `OwnerPhases`: where the owner is bounds what can still be queued or
  running, which is what the barrier needs at `Pass`.  The refinement takes a task as begun
  when it is fetched.
- **DbWriters.** That a database has one writer rests on `Registered`: the map names only
  writers that are not told to stop, a live writer is in the map or about to be joined, and
  while some are to be joined the map is empty (`CloseAllDb` holds `dbMu`).  `Holding` and
  `Awaited` say that a writer has a job exactly while it runs or answers it and that a saver
  that waits is answered, queued or under way; `Sticky` that a failure is in `ok` before it
  is in an answer.  `RowsStand` needs `RowInv` on top: as only one writer of a path lives,
  the rows of a job that runs are the last of its database (`RowsKnown`), hence those of a call
  stay together (`Together`); each batch counted is in the database or `lost` (`Counted`),
  and a call answered true has counted them all (`AnswersKept`).
- **PipelinePlan.** Keys are positions in the list of processes; a call of `Add` has
  collected only keys of processes that exist, each once and never in both lists
  (`CallsWell`), and an instance on the stack is no process yet and is on it once.  So a
  process that is completed has only smaller keys: no cycle, no missing key (`GraphWell`).
  Whatever the definitions, overlay and resolvers are, ProcessControl's verification passes.

  `ExactGraph` compares that graph with a meaning given without an order of compilation, by
  two recursions over sets.  Of these the proofs keep only what they compute: what the roots
  need is the least closed set (`Reached`, `DemandedIsReached`), and what is left of it is
  empty exactly if no set of needed instances has each need another of them
  (`BuildableUnlessRefuted`, `Refuted`).  `Exact` is inductive: a call of `Add` has a key for
  exactly the names it does not ask for any more (`FrameOk`), each call and the root below
  it are the answer to the first name that the one before still asks for (`CallsOk`), a process
  has a key for all it needs (`ProcessOk`), and every way to fail is a reason why nothing can
  succeed: an instance that is met while it is visited makes the stack above it a set that
  refutes (`CycleRefutes`).  A graph that is finished is then closed (`IdsClosed`), and
  since inputs come earlier nothing refutes (`NoCycle`).  That both calls of a plan are well
  formed is proved, not assumed (`SelectionWell`, `SecondWell`), the second from what the
  first has built; it needs that `Listed` lists its set and `Expand` the names (`ListedAll`,
  `ExpandLists`).

  `DeviceBracketed` speaks of the second graph, which is built of nodes made from the first.
  `FinalFor` remembers the first graph `G`: its operations still mean the same, since what is
  added has other names and resolvers are not given the overlay (`DefinitionsKept`,
  `DependenciesKept`, `NeededKept`).  So the second graph holds nothing but `G`, the marking
  nodes and the two that end it (`IdsWithin`), and a marking node needs exactly the
  operations of its device (`DeviceMarked`); of these each is `Device.Init` or needs it
  (`OperationsInitialised`).  `Ancestors` contains the inputs and what comes before them
  (`AncestorsHold`), which turns needs into order.
- **PipelineMarkers.** `CompleteMeansWhole` needs to know how COMPLETE came about:
  INCOMPLETE stands as long as tables are made and none is older than it lists (`Making`),
  none is newer than the inputs (`Bounded`), so that when the inputs are still those of
  INCOMPLETE every table is of just that version.  What the Python engine does afterwards
  leaves the tables that are not foreign (`Kept`), and makes none that is older than COMPLETE
  says, as all it can read under a marker of all tables is as new (`Versioned`); the six
  actions that clear and write share `BesideKeeps`.  `ExportFromOneVersion` needs in addition
  that a directory the plan leaves out is `Reusable` under its marker or not needed (`Planned`,
  `Marked`), and that what an export has read does not change before it is finalized
  (`Reading`).

Model-checked only: liveness (`Termination` of each component, out of the prover's reach),
and `InputsOrdered`, which holds because of what is registered in this version of the code:
it is false of other tables that satisfy every assumption, so that TLC's check of the tables
as they are is the statement.

## 6. Findings

- `dc_abandoned`: the comment on `DeliverableScope`
  (`csrc/application/pipeline/unified_pipeline.cpp:57`) promises to "drain file writes and
  close DB writers before returning, including when execution or diagnostics throw".
  `FinishTimeline` waits for JSON streams only.  A table whose assembly throws between
  `StartCsv` and `FinishCsv` keeps its stream in `csvStreams` with writes queued or under way,
  which nobody waits for; the run returns (false, since the process failed) before they are
  carried out.
- `pm_partial`: the comment in `IntermediateReady`
  (`csrc/application/pipeline/topo_graph_builder.cpp:248`) says "A partial Device run is never a
  whole-device cache hit".  The front end asks for no device parse once every device has a
  `*.db` file, so the builder never sees the device: an export that needs other nodes than the
  first is finalized without their tables.
- `tg_inputs`: `data_inventory.h:65` says that data nobody registered for is released at
  once.  The step trace summary declares `TrainTraceData` but takes `AllReduceData` as well; if
  its timeline is not exported too, the type is dropped before it is read and the reduce
  columns stay empty.

Observed while modelling, without a run of their own:

- `connection.h:228`: the result of COMMIT is not read; rows of a batch whose COMMIT fails are
  lost while the saver succeeds.  `RowsStand` states what holds nevertheless (rows are there,
  or among `lost`).
- `EnsurePool` sets `pool` before `Start`, which throws when `std::thread` does
  (`thread_pool.cpp:65`, with `running_` true).  Nothing resets the pool.  If the first thread
  could not be made, later callers get a pool without threads: `AddTask` succeeds,
  `ioScheduled` stays set, and `Wait` never returns, neither in this run nor in a later one of
  the same process.  The comments beside show that this is not meant: "write on the caller thread"
  (`deliverable_consumer.cpp:187`), "nothing would ever drain this stream and Wait would block"
  (in `Enqueue`), "Drop the rest of the queue or Wait never returns" (309).  `Termination`
  states what holds: the run ends unless the pool was left with no thread at all.
- A COMPLETE that outlives a `clear_project_dirs` that failed or was cut short may speak for
  tables that are gone; the C++ engine reuses a host directory all the same, and an export
  reads nothing there (`seen = 0` in `ExportFromOneVersion`).  Calculators and
  `dump_device_data` write beside a COMPLETE without renewing it.
- `EventGrouper::Group` and other owners that add bare tasks do not hear of a task that throws.
- `OverlapAnalysis` and the saver of COMPUTE_TASK_INFO read `MC2CommInfoData`, which no
  registered process makes; `HalFreqLpmData` is read on CHIP_V4_1_0, for which no parser of it
  is registered; `LoadHostData` is optional though mandatory processes depend on it;
  `completionDependencyResolver` is never set.
- `ModelingCalibrateBatchId` never looks at the first task of its list.

## 7. Plan

What is left, in this order:

1. Composition of ProcessControl with `DataInventory` as it is (two lock sections of
   `Inject`, views of host data in a device's inventory).
2. Pure algorithms against references: batch ids (`batch_id.cpp`), the task plan, host
   trees, `_decide`.
3. Two sessions of one CSV path; the serial mode of the scheduler.
4. Proofs: a condition on tables, local to each pair of a maker and a reader, from which
   `InputsOrdered` would follow for any request.

## 8. Not modelled

The parts listed `not_modelled` in `PROJECT.json`, with reasons: decoding of binary records,
SQL per kind of data, the Python parsers, calculators and viewers (data conversion
without shared state), reporting (tuning), wrappers of the operating system.  They are most
of the repository by size, which is why only a small share of its lines is mapped.  Of the
parts modelled: statistics, logs and progress output, the serial mode of the scheduler,
sizes in bytes, the order of a hash table where no property depends on it, and two sessions
of one CSV path at the same time.  Smaller omissions:

- ProcessControl: a pool whose `Start` returns false (`process_control.cpp:170`; the run ends
  with every process pending) and an exception of `AddTask` or `DrainWorkers` (235-249).
- ProfTaskScheduler: a `start` that fails when the worker has a pid already
  (`prof_parallel_scheduler.py:540`), a second signal that replaces the first (843), and a
  probe that fails in the visit that has just sent a signal to the group (688).
- TopoGraph: `completionDependencyResolver`, which no register sets.
- PipelineMarkers: which calculators write which tables, and that most leave a table alone
  that exists already: any table may be written, or not.
