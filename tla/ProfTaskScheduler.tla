-------------------------- MODULE ProfTaskScheduler --------------------------
(***************************************************************************)
(* The bounded scheduler of PROF tasks                                     *)
(* (analysis/msinterface/prof_parallel_scheduler.py) and the workers it    *)
(* forks (prof_task_executor.py).  The parent runs one event loop whose    *)
(* stages visit the tasks it owns one after the other; the workers, their  *)
(* descendants, signals and clocks run between any two visits.             *)
(*                                                                         *)
(* A task is its task_id, which is also the order in which it was found    *)
(* and is spawned.  A worker has one message under way at most: a terminal *)
(* message answers RUN, and RUN answers READY.                             *)
(***************************************************************************)
EXTENDS Integers, FiniteSets

CONSTANTS
  N,            \* number of tasks, identified by 1..N
  Scenarios     \* the plans and environments a run may meet

Tasks == 1..N

Scenario ==
  [slots : Nat \ {0},                     \* plan.max_workers
   families : SUBSET Tasks,               \* tasks that start processes of their own
   interrupts : SUBSET {"int", "term"},   \* signals that may interrupt the parent
   spawnFaults : BOOLEAN,                 \* starting a worker may fail
   probeFaults : BOOLEAN,                 \* a worker group may be impossible to verify
   parentDies : BOOLEAN]                  \* the parent itself may be killed

ASSUME ConstantsAssumption == N \in Nat /\ Scenarios \subseteq Scenario

VARIABLES
  scenario,    \* never changes
  pc,          \* stage of the parent's loop, or how the run ended
  todo,        \* tasks the stage has still to visit
  pending,     \* tasks not started
  owned,       \* tasks whose record is kept
  rec,         \* the _OwnedTask record of a task
  first,       \* task of loop.first_exception, 0 for none
  interrupted, \* the signal received, "none"
  failures,    \* records whose cleanup failed in this round
  unreclaimed, \* records handed over without being verified
  late,        \* the bootstrap deadline of the task has passed
  graceOver,   \* the current cancel_deadline of the task has passed
  w,           \* the worker process
  code,        \* its exit code: "none", "ok" (zero) or "bad"
  inbox,       \* RUN is under way to the worker
  outbox,      \* the message under way to the parent
  leaderSig,   \* signal pending for the worker
  groupSig,    \* signal pending for its descendants
  kids,        \* descendants of the worker are alive in its group
  result       \* what the task itself came to: "none", "started", "ok", "raised"

loopVars == <<scenario, pending, first, interrupted, failures, unreclaimed>>
sigVars == <<leaderSig, groupSig>>
workVars == <<w, code, kids, result>>
wireVars == <<inbox, outbox>>
clockVars == <<late, graceOver>>
vars == <<pc, todo, owned, rec, loopVars, sigVars, workVars, wireVars, clockVars>>

Alive == {"forked", "waiting", "running", "closing"}
Ended == {"returned", "raised", "interrupted", "unverified", "killed"}
LoopStages == {"pump", "reap", "deadline", "cancel", "drain", "dispatch"}

NoRecord == [state |-> "STARTING", run |-> FALSE, pgid |-> FALSE, terminal |-> FALSE,
             cancelled |-> FALSE, cleanup |-> "no", started |-> FALSE,
             channel |-> "none"]

Init ==
  /\ scenario \in Scenarios
  /\ pc = "pump" /\ todo = {} /\ pending = Tasks /\ owned = {}
  /\ rec = [t \in Tasks |-> NoRecord]
  /\ first = 0 /\ interrupted = "none" /\ failures = {} /\ unreclaimed = {}
  /\ late = [t \in Tasks |-> FALSE] /\ graceOver = [t \in Tasks |-> FALSE]
  /\ w = [t \in Tasks |-> "none"] /\ code = [t \in Tasks |-> "none"]
  /\ inbox = [t \in Tasks |-> FALSE] /\ outbox = [t \in Tasks |-> "none"]
  /\ leaderSig = [t \in Tasks |-> "none"] /\ groupSig = [t \in Tasks |-> "none"]
  /\ kids = [t \in Tasks |-> FALSE] /\ result = [t \in Tasks |-> "none"]

-----------------------------------------------------------------------------
\* What the stages share.

\* The dictionary of owned tasks is visited in the order of insertion.
Visiting(stage, t) == pc = stage /\ t \in todo /\ \A u \in todo : t <= u
Exited(t) == w[t] = "gone"
Open(t) == rec[t].channel \in {"open", "eof"}
WorkerClosed(t) == w[t] \in {"closing", "gone"}
ParentGone == pc \in Ended
NoChild(r) == ~r.started
\* _group_alive: known of a worker whose READY was accepted.
LeaderOnly(t, r) == FALSE                    \* mutant: the leader stands for the tree
GroupAlive(t, r) == r.pgid /\ kids[t]

\* The failure of the smallest task wins, and the first one of a task.
FirstInTime(failed, t) == IF failed /\ first = 0 THEN t ELSE first  \* mutant
Blame(failed, t) == IF failed /\ (first = 0 \/ t < first) THEN t ELSE first

\* _cancel_task_tree on record r: TERM (or the signal that interrupted the
\* parent) first, KILL once the grace period is over.  A group that cannot be
\* verified gets no signal, and the probe error leaves the stage.
FirstSignal == IF interrupted = "none" THEN "term" ELSE interrupted
TermOnly(t, r) ==                            \* mutant: KILL never follows
  IF NoChild(r) THEN r ELSE [r EXCEPT !.cleanup = IF @ = "no" THEN "term" ELSE @]
Cancelled(t, r) ==
  IF NoChild(r) THEN r
  ELSE [r EXCEPT !.cleanup = IF @ = "no" THEN "term"
                             ELSE IF @ = "term" /\ graceOver[t] THEN "kill" ELSE @]
Escalates(t, r) == Cancelled(t, r) # r
SignalLeader(t, s) ==
  leaderSig' = [leaderSig EXCEPT ![t] = IF w[t] \in Alive THEN s ELSE @]
SignalTree(t, r, s) ==
  /\ SignalLeader(t, s)
  /\ groupSig' = [groupSig EXCEPT ![t] = IF r.pgid /\ kids[t] THEN s ELSE @]
GraceAfter(t, r) ==
  [graceOver EXCEPT ![t] = @ /\ ~(r.cleanup = "no" /\ Escalates(t, r))]
CancelTree(t, r) ==
  /\ rec' = [rec EXCEPT ![t] = Cancelled(t, r)]
  /\ graceOver' = GraceAfter(t, r)
  /\ IF Escalates(t, r)
     THEN SignalTree(t, r, IF r.cleanup = "no" THEN FirstSignal ELSE "kill")
     ELSE UNCHANGED sigVars
CancelFaults(t, r) ==
  /\ scenario.probeFaults /\ r.pgid /\ Escalates(t, r)
  /\ rec' = [rec EXCEPT ![t] = Cancelled(t, r)]
  /\ graceOver' = GraceAfter(t, r)
  /\ UNCHANGED sigVars
KeepRecord(t, r) ==
  /\ rec' = [rec EXCEPT ![t] = r]
  /\ UNCHANGED <<graceOver, sigVars>>

\* A visit that ends normally goes on with the next task; one that ends in a
\* probe error leaves the loop for the cleanup.
Visited(t) == todo' = todo \ {t} /\ pc' = pc
LeaveAtOnce == pc' = "unverified" /\ todo' = {}   \* mutant: no cleanup
LeaveLoop == pc' = "cleanup" /\ todo' = owned

\* The record is kept, its tree cancelled if that is asked for.
Settle(t, r, cancel) ==
  /\ UNCHANGED owned
  /\ \/ cancel /\ CancelTree(t, r) /\ Visited(t)
     \/ cancel /\ CancelFaults(t, r) /\ LeaveLoop
     \/ ~cancel /\ KeepRecord(t, r) /\ Visited(t)

\* _reclaim gives up the record and its slot; nothing reads the record any more.
Reclaim(t) ==
  /\ rec' = [rec EXCEPT ![t] = [NoRecord EXCEPT !.channel = "closed"]]
  /\ graceOver' = [graceOver EXCEPT ![t] = FALSE]
  /\ owned' = owned \ {t}
  /\ UNCHANGED sigVars

-----------------------------------------------------------------------------
\* _pump_channels: read what a worker has sent.

\* Record r after the message m (_handle_message).
Handled(r, m) ==
  IF m = "READY" THEN [r EXCEPT !.state = "READY", !.pgid = TRUE]
  ELSE IF m \in {"RETURNED", "RAISED"} THEN [r EXCEPT !.terminal = TRUE] ELSE r
NoteEof(t, r) == [r EXCEPT !.channel = IF WorkerClosed(t) THEN "eof" ELSE @]

LostBeforeTerminal(r) ==
  r.channel = "eof" /\ ~r.terminal /\ ~r.cancelled /\ r.cleanup = "no"

Pump(t) ==
  /\ Visiting("pump", t)
  /\ IF ~Open(t) THEN Settle(t, rec[t], FALSE) /\ UNCHANGED <<first, outbox>>
     ELSE LET r == NoteEof(t, Handled(rec[t], outbox[t]))
              failed == outbox[t] = "RAISED" \/ LostBeforeTerminal(r)
          IN  /\ Settle(t, r, failed)
              /\ first' = Blame(failed, t)
              /\ outbox' = [outbox EXCEPT ![t] = "none"]
  /\ UNCHANGED <<scenario, pending, interrupted, failures, unreclaimed, workVars, inbox, late>>

\* _reap_exited: the worker has exited.  What it sent last is read first; READY
\* is refused now, its process being gone.  The slot is kept for as long as
\* descendants are alive.
OnlyBeforeRun(t, r) == ~r.cancelled /\ ~r.run    \* mutant
CancelledToo(t, r) == ~r.run \/ ~r.terminal \/ code[t] = "bad"   \* mutant
Abnormal(t, r) == ~r.cancelled /\ (~r.run \/ ~r.terminal \/ code[t] = "bad")
Reap(t) ==
  /\ Visiting("reap", t)
  /\ \/ /\ NoChild(rec[t])
        /\ Reclaim(t) /\ Visited(t) /\ UNCHANGED <<first, outbox>>
     \/ /\ ~NoChild(rec[t]) /\ ~Exited(t)
        /\ Settle(t, rec[t], FALSE) /\ UNCHANGED <<first, outbox>>
     \/ /\ ~NoChild(rec[t]) /\ Exited(t)
        /\ LET m == IF Open(t) THEN outbox[t] ELSE "none"
               r == IF m = "READY" THEN rec[t] ELSE Handled(rec[t], m)
               failed == \/ m \in {"READY", "RAISED"}
                         \/ Abnormal(t, r)
           IN  /\ first' = Blame(failed, t)
               /\ outbox' = IF Open(t) THEN [outbox EXCEPT ![t] = "none"] ELSE outbox
               /\ \/ GroupAlive(t, r) /\ Settle(t, r, TRUE)
                  \/ ~GroupAlive(t, r) /\ Reclaim(t) /\ Visited(t)
                  \/ /\ scenario.probeFaults /\ r.pgid
                     /\ IF m = "RAISED" THEN CancelTree(t, r) ELSE KeepRecord(t, r)
                     /\ LeaveLoop /\ UNCHANGED owned
                  \/ /\ m = "RAISED" /\ CancelFaults(t, r)
                     /\ LeaveLoop /\ UNCHANGED owned
  /\ UNCHANGED <<scenario, pending, interrupted, failures, unreclaimed, workVars, inbox, late>>

\* _check_bootstrap_deadlines: pursue the cancellations under way, and cancel
\* a worker that is not ready in time.
TooLate(t) == rec[t].state = "STARTING" /\ ~rec[t].run /\ late[t]
CheckDeadline(t) ==
  /\ Visiting("deadline", t)
  /\ Settle(t, rec[t], rec[t].cleanup # "no" \/ TooLate(t))
  /\ first' = Blame(TooLate(t), t)
  /\ UNCHANGED <<scenario, pending, interrupted, failures, unreclaimed, workVars, wireVars, late>>

-----------------------------------------------------------------------------
\* Once the parent is interrupted or a task has failed, nothing more starts.
Stopping == interrupted # "none" \/ first # 0

Interrupt(t) ==
  /\ Visiting("cancel", t)
  /\ Settle(t, rec[t], TRUE)
  /\ UNCHANGED <<loopVars, workVars, wireVars, late>>

\* _cancel_bootstrap_tasks: close the channel of a task that has not been told
\* to run; cancel its tree when it outlives the grace period.
NoneSpared(t) == FALSE                       \* mutant: running tasks too
Spared(t) == rec[t].run
NeverOverdue(t) == FALSE                     \* mutant: EOF is relied upon
Overdue(t) == ~NoChild(rec[t]) /\ ~Exited(t) /\ graceOver[t]
CancelBootstrap(t) ==
  /\ Visiting("drain", t)
  /\ \/ /\ ~Spared(t) /\ ~rec[t].cancelled
        /\ rec' = [rec EXCEPT ![t].cancelled = TRUE,
                              ![t].channel = IF Open(t) THEN "closed" ELSE @]
        /\ graceOver' = [graceOver EXCEPT ![t] = FALSE]
        /\ Visited(t) /\ UNCHANGED <<owned, sigVars>>
     \/ /\ Spared(t) \/ rec[t].cancelled
        /\ Settle(t, rec[t], ~Spared(t) /\ Overdue(t))
  /\ UNCHANGED <<loopVars, workVars, wireVars, late>>

\* _dispatch_run: tell a ready worker to run.  Sending fails when the worker has
\* closed its end, and ends the stage.
Dispatch(t) ==
  /\ Visiting("dispatch", t)
  /\ LET told == [rec[t] EXCEPT !.run = TRUE]
     IN  \/ /\ rec[t].state # "READY" \/ rec[t].run
            /\ Settle(t, rec[t], FALSE) /\ UNCHANGED <<first, inbox>>
         \/ /\ rec[t].state = "READY" /\ ~rec[t].run /\ Stopping
            /\ todo' = {} /\ UNCHANGED <<pc, owned, rec, sigVars, graceOver, first, inbox>>
         \/ /\ rec[t].state = "READY" /\ ~rec[t].run /\ ~Stopping /\ ~WorkerClosed(t)
            /\ Settle(t, [told EXCEPT !.state = "RUNNING"], FALSE)
            /\ inbox' = [inbox EXCEPT ![t] = TRUE] /\ UNCHANGED first
         \/ /\ rec[t].state = "READY" /\ ~rec[t].run /\ ~Stopping /\ WorkerClosed(t)
            /\ Settle(t, told, TRUE)
            /\ first' = Blame(TRUE, t) /\ UNCHANGED inbox
  /\ UNCHANGED <<scenario, pending, interrupted, failures, unreclaimed, workVars, outbox, late>>

\* _spawn_pending: fill the free slots.
MaySpawn == ~Stopping /\ pending # {} /\ Cardinality(owned) < scenario.slots
Spawn(t) ==
  /\ pc = "spawn" /\ MaySpawn
  /\ t \in pending /\ \A u \in pending : t <= u
  /\ pending' = pending \ {t} /\ owned' = owned \cup {t}
  /\ \/ /\ rec' = [rec EXCEPT ![t].started = TRUE, ![t].channel = "open"]
        /\ w' = [w EXCEPT ![t] = "forked"]
        /\ UNCHANGED first
     \/ /\ scenario.spawnFaults
        /\ rec' = [rec EXCEPT ![t].channel = "closed"]
        /\ first' = Blame(TRUE, t) /\ UNCHANGED w
  /\ UNCHANGED <<scenario, pc, todo, interrupted, failures, unreclaimed, sigVars,
                 code, kids, result, wireVars, clockVars>>

-----------------------------------------------------------------------------
\* From stage to stage.

Successor(stage) == CASE stage = "pump" -> "reap" [] stage = "reap" -> "deadline"
                      [] stage \in {"cancel", "drain"} -> "stopped"
                      [] stage = "dispatch" -> "spawn"
NextStage ==
  /\ pc \in LoopStages /\ todo = {}
  /\ \/ /\ pc = "pump" /\ owned \cup pending = {}
        /\ pc' = "finish" /\ UNCHANGED todo
     \/ /\ pc # "deadline" /\ (pc = "pump" => owned \cup pending # {})
        /\ pc' = Successor(pc) /\ todo' = owned
     \/ /\ pc = "deadline" /\ todo' = owned
        /\ pc' = IF interrupted # "none" THEN "cancel"
                 ELSE IF first # 0 THEN "drain" ELSE "dispatch"
  /\ UNCHANGED <<owned, rec, loopVars, sigVars, workVars, wireVars, clockVars>>

\* The next round, once a slice of time has passed or a channel has news.
NextRound ==
  /\ \/ pc = "stopped" /\ owned # {}
     \/ pc = "spawn" /\ ~MaySpawn
  /\ pc' = "pump" /\ todo' = owned
  /\ UNCHANGED <<owned, rec, loopVars, sigVars, workVars, wireVars, clockVars>>

\* The end of the run, when nothing is owned any more.
Verdict == IF interrupted # "none" /\ (pc = "stopped" \/ first = 0) THEN "interrupted"
           ELSE IF first # 0 THEN "raised" ELSE "returned"
EndRun ==
  /\ pc = "finish" \/ (pc = "stopped" /\ owned = {})
  /\ pc' = Verdict
  /\ UNCHANGED <<todo, owned, rec, loopVars, sigVars, workVars, wireVars, clockVars>>

-----------------------------------------------------------------------------
\* _cancel_all_owned: a probe error has ended the loop.

\* A direct child is signalled without the group when the group is unverifiable.
DirectSignal(t, r) ==
  /\ SignalLeader(t, IF r.cleanup = "kill" THEN "kill" ELSE "term")
  /\ UNCHANGED groupSig

Cleanup(t) ==
  /\ Visiting("cleanup", t)
  /\ todo' = todo \ {t} /\ pc' = pc
  /\ \/ /\ NoChild(rec[t]) \/ (Exited(t) /\ ~GroupAlive(t, rec[t]))
        /\ Reclaim(t) /\ failures' = failures \ {t}
     \/ /\ ~NoChild(rec[t]) /\ ~(Exited(t) /\ ~GroupAlive(t, rec[t]))
        /\ CancelTree(t, rec[t]) /\ failures' = failures \ {t} /\ UNCHANGED owned
     \/ /\ scenario.probeFaults /\ ~NoChild(rec[t]) /\ rec[t].pgid
        /\ (Escalates(t, rec[t]) \/ Exited(t))
        /\ rec' = [rec EXCEPT ![t] = Cancelled(t, rec[t])]
        /\ graceOver' = GraceAfter(t, rec[t])
        /\ DirectSignal(t, Cancelled(t, rec[t]))
        /\ failures' = failures \cup {t} /\ UNCHANGED owned
  /\ UNCHANGED <<scenario, pending, first, interrupted, unreclaimed, workVars, wireVars, late>>

Unresolved == {t \in owned \cap failures : rec[t].cleanup = "kill"}
EndCleanupRound ==
  /\ pc = "cleanup" /\ todo = {}
  /\ \/ /\ owned = {}
        /\ pc' = "unverified" /\ UNCHANGED <<todo, rec, unreclaimed>>
     \/ /\ owned # {} /\ Unresolved = owned
        /\ pc' = "unverified" /\ unreclaimed' = owned /\ UNCHANGED todo
        /\ rec' = [t \in Tasks |-> IF t \in owned THEN [rec[t] EXCEPT !.channel = "closed"]
                                                  ELSE rec[t]]
     \/ /\ owned # {} /\ Unresolved # owned
        /\ todo' = owned /\ UNCHANGED <<pc, rec, unreclaimed>>
  /\ UNCHANGED <<scenario, owned, pending, first, interrupted, failures, sigVars, workVars,
                 wireVars, clockVars>>

Parent ==
  \/ \E t \in Tasks : \/ Pump(t) \/ Reap(t) \/ CheckDeadline(t) \/ Interrupt(t)
                      \/ CancelBootstrap(t) \/ Dispatch(t) \/ Spawn(t) \/ Cleanup(t)
  \/ NextStage \/ NextRound \/ EndRun \/ EndCleanupRound

-----------------------------------------------------------------------------
\* The worker (run_prof_task) and its descendants.

WorkerFrame == UNCHANGED <<pc, todo, owned, rec, loopVars, clockVars>>
OwnEndOnly(t) == rec[t].channel # "closed"   \* mutant: a dead parent goes unseen
ParentEndOpen(t) == ~ParentGone /\ rec[t].channel # "closed"

\* It becomes the leader of a session and group of its own and says READY,
\* which fails, and ends it, when nobody listens.
Hello(t) ==
  /\ w[t] = "forked" /\ leaderSig[t] = "none"
  /\ IF ParentEndOpen(t)
     THEN /\ w' = [w EXCEPT ![t] = "waiting"]
          /\ outbox' = [outbox EXCEPT ![t] = "READY"]
     ELSE /\ w' = [w EXCEPT ![t] = "closing"]
          /\ UNCHANGED outbox
  /\ WorkerFrame /\ UNCHANGED <<code, kids, result, inbox, sigVars>>

TakeRun(t) ==
  /\ w[t] = "waiting" /\ inbox[t]
  /\ w' = [w EXCEPT ![t] = "running"]
  /\ inbox' = [inbox EXCEPT ![t] = FALSE]
  /\ result' = [result EXCEPT ![t] = "started"]
  /\ WorkerFrame /\ UNCHANGED <<code, kids, outbox, sigVars>>

\* The parent's end is closed, or the parent is gone: leave without a word.
SeeEof(t) ==
  /\ w[t] = "waiting" /\ ~inbox[t] /\ ~ParentEndOpen(t)
  /\ w' = [w EXCEPT ![t] = "closing"]
  /\ WorkerFrame /\ UNCHANGED <<code, kids, result, wireVars, sigVars>>

\* No RUN for 300 seconds.
GiveUp(t) ==
  /\ w[t] = "waiting" /\ ~inbox[t]
  /\ w' = [w EXCEPT ![t] = "closing"]
  /\ WorkerFrame /\ UNCHANGED <<code, kids, result, wireVars, sigVars>>

\* The terminal message is lost when the parent's end is closed.
Report(t, res) ==
  /\ w' = [w EXCEPT ![t] = "closing"]
  /\ result' = [result EXCEPT ![t] = res]
  /\ outbox' = [outbox EXCEPT ![t] = IF ~ParentEndOpen(t) THEN @
                                     ELSE IF res = "ok" THEN "RETURNED" ELSE "RAISED"]
Finish(t) ==
  /\ w[t] = "running"
  /\ \E res \in {"ok", "raised"} : Report(t, res)
  /\ WorkerFrame /\ UNCHANGED <<code, kids, inbox, sigVars>>

\* The process is gone with exit code c.
Die(t, c) ==
  /\ w' = [w EXCEPT ![t] = "gone"]
  /\ code' = [code EXCEPT ![t] = c]
  /\ leaderSig' = [leaderSig EXCEPT ![t] = "none"]
  /\ WorkerFrame /\ UNCHANGED <<kids, result, wireVars, groupSig>>
Exit(t) == w[t] = "closing" /\ Die(t, "ok")
Crash(t) == w[t] \in Alive /\ Die(t, "bad")

\* A signal arrives.  Until _reset_worker_signals the handlers are those of the
\* parent, which only set a flag; INT is KeyboardInterrupt, which a running task
\* reports like any other exception.
Deliver(t) ==
  /\ leaderSig[t] # "none"
  /\ \/ leaderSig[t] = "kill" /\ Die(t, "bad")
     \/ /\ leaderSig[t] # "kill" /\ w[t] = "forked"
        /\ leaderSig' = [leaderSig EXCEPT ![t] = "none"]
        /\ WorkerFrame /\ UNCHANGED <<workVars, wireVars, groupSig>>
     \/ /\ leaderSig[t] = "int" /\ w[t] = "running"
        /\ Report(t, "raised")
        /\ leaderSig' = [leaderSig EXCEPT ![t] = "none"]
        /\ WorkerFrame /\ UNCHANGED <<code, kids, inbox, groupSig>>
     \/ /\ leaderSig[t] # "kill" /\ w[t] # "forked"
        /\ ~(leaderSig[t] = "int" /\ w[t] = "running")
        /\ Die(t, "bad")

\* A running task starts processes of its own, in the worker's group.
Fork(t) ==
  /\ t \in scenario.families /\ w[t] = "running" /\ ~kids[t] /\ leaderSig[t] \in {"none", "int"}
  /\ kids' = [kids EXCEPT ![t] = TRUE]
  /\ WorkerFrame /\ UNCHANGED <<w, code, result, wireVars, sigVars>>

\* They end by themselves or by TERM or INT if they do not ignore it, and by
\* KILL in any case.
KidsGone(t) ==
  /\ kids[t]
  /\ kids' = [kids EXCEPT ![t] = FALSE]
  /\ groupSig' = [groupSig EXCEPT ![t] = "none"]
  /\ WorkerFrame /\ UNCHANGED <<w, code, result, wireVars, leaderSig>>
KidsExit(t) == groupSig[t] # "kill" /\ KidsGone(t)
KidsKilled(t) == groupSig[t] = "kill" /\ KidsGone(t)

Worker(t) ==
  \/ Hello(t) \/ TakeRun(t) \/ SeeEof(t) \/ GiveUp(t) \/ Finish(t) \/ Exit(t)
  \/ Crash(t) \/ Deliver(t) \/ Fork(t) \/ KidsExit(t) \/ KidsKilled(t)

-----------------------------------------------------------------------------
\* Clocks, and signals to the parent.

ClockFrame == UNCHANGED <<scenario, todo, owned, rec, pending, first, failures, unreclaimed,
                          sigVars, workVars, wireVars>>
StartupTimeout(t) ==
  /\ ~ParentGone /\ t \in owned /\ rec[t].state = "STARTING" /\ ~late[t]
  /\ late' = [late EXCEPT ![t] = TRUE]
  /\ ClockFrame /\ UNCHANGED <<pc, interrupted, graceOver>>
GraceEnds(t) ==
  /\ ~ParentGone /\ t \in owned /\ ~graceOver[t]
  /\ rec[t].cleanup = "term" \/ (rec[t].cancelled /\ rec[t].cleanup = "no")
  /\ graceOver' = [graceOver EXCEPT ![t] = TRUE]
  /\ ClockFrame /\ UNCHANGED <<pc, interrupted, late>>

\* _on_signal.
OnSignal ==
  /\ ~ParentGone /\ interrupted = "none"
  /\ interrupted' \in scenario.interrupts
  /\ ClockFrame /\ UNCHANGED <<pc, clockVars>>
ParentKilled ==
  /\ scenario.parentDies /\ ~ParentGone
  /\ pc' = "killed"
  /\ ClockFrame /\ UNCHANGED <<interrupted, clockVars>>

Environment == OnSignal \/ ParentKilled \/ \E t \in Tasks : StartupTimeout(t) \/ GraceEnds(t)

Next == Parent \/ (\E t \in Tasks : Worker(t)) \/ Environment

\* What comes in time for a task: clocks advance, signals arrive, and a worker
\* told to run takes the order, ends and exits.  Each happens a few times at most
\* in a run, so that fairness of the disjunction is fairness of every part.  A
\* worker may hang before RUN, and descendants may outlive all but KILL.
Due(t) ==
  \/ StartupTimeout(t) \/ GraceEnds(t) \/ Deliver(t) \/ KidsKilled(t)
  \/ TakeRun(t) \/ SeeEof(t) \/ Finish(t) \/ Exit(t)
Fairness == WF_vars(Parent) /\ \A t \in Tasks : WF_vars(Due(t))

Spec == Init /\ [][Next]_vars
FairSpec == Spec /\ Fairness

-----------------------------------------------------------------------------
Signals == {"none", "int", "term", "kill"}
Record == [state : {"STARTING", "READY", "RUNNING"}, run : BOOLEAN, pgid : BOOLEAN,
           terminal : BOOLEAN, cancelled : BOOLEAN, cleanup : {"no", "term", "kill"},
           started : BOOLEAN, channel : {"none", "open", "eof", "closed"}]

\* The values every variable may take, and only what is owned is on a list.
TypeOK ==
  /\ pc \in LoopStages \cup Ended \cup {"spawn", "stopped", "finish", "cleanup"}
  /\ todo \subseteq owned /\ failures \subseteq owned /\ unreclaimed \subseteq owned
  /\ scenario \in Scenarios /\ pending \subseteq Tasks /\ owned \subseteq Tasks
  /\ rec \in [Tasks -> Record]
  /\ first \in Tasks \cup {0} /\ interrupted \in {"none", "int", "term"}
  /\ late \in [Tasks -> BOOLEAN] /\ graceOver \in [Tasks -> BOOLEAN]
  /\ w \in [Tasks -> Alive \cup {"none", "gone"}] /\ code \in [Tasks -> {"none", "ok", "bad"}]
  /\ inbox \in [Tasks -> BOOLEAN] /\ outbox \in [Tasks -> {"none", "READY", "RETURNED", "RAISED"}]
  /\ leaderSig \in [Tasks -> Signals] /\ groupSig \in [Tasks -> Signals]
  /\ kids \in [Tasks -> BOOLEAN]
  /\ result \in [Tasks -> {"none", "started", "ok", "raised"}]

LiveTree(t) == w[t] \in Alive \/ kids[t]

\* A run that returns has run every task to its normal end, and nothing of them
\* is left: no lost message, crash or timeout passes for success (_run_parallel
\* raises first_exception otherwise).
SuccessMeansAllReturned ==
  pc = "returned" => \A t \in Tasks : result[t] = "ok" /\ ~LiveTree(t)

\* No more process trees are alive than the plan has slots for, descendants of
\* a worker that has exited included (the reservation comment in _reap_exited).
SlotsBoundTrees == Cardinality({t \in Tasks : LiveTree(t)}) <= scenario.slots

\* However the run ends, short of the parent's death, no process of a task
\* outlives it unless the task was handed over as unverifiable
\* (_cancel_all_owned).
NothingLeftBehind ==
  pc \in Ended \ {"killed"} => \A t \in Tasks \ unreclaimed : ~LiveTree(t)

\* The exception raised is that of a task that failed, and of none with a
\* larger task_id than another task whose exception was sent (_record_failure).
FirstFailureReported ==
  pc = "raised" => /\ first # 0 /\ (result[first] = "ok" => code[first] = "bad")
                   /\ \A t \in Tasks : result[t] = "raised" => first <= t

\* One failure does not spread: the peers already told to run are left to finish,
\* so that only an interrupt or a broken probe signals a running task
\* (_cancel_bootstrap_tasks spares them), and the peers it cancels are blamed for
\* nothing but a bootstrap that was late anyway (_reap_exited).
FailureDoesNotSpread ==
  [][/\ \A t \in Tasks : w[t] = "running" /\ leaderSig[t] = "none" /\ leaderSig'[t] # "none"
                          => interrupted # "none" \/ pc = "cleanup"
     /\ first' # first => ~rec[first'].cancelled \/ late[first']]_vars

\* The run ends, whatever hangs before RUN, crashes, ignores TERM or is
\* interrupted, as long as a task told to run ends; and no worker waits for RUN
\* for ever, the parent's death included (the EOF and identity checks of
\* run_prof_task).
Termination == <>(pc \in Ended /\ \A t \in Tasks : w[t] # "waiting")
=============================================================================
