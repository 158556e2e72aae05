----------------------- MODULE ProfTaskSchedulerProofs -----------------------
(***************************************************************************)
(* Theorems about ProfTaskScheduler, for any number of tasks and of slots  *)
(* and every scenario.                                                     *)
(***************************************************************************)
EXTENDS ProfTaskScheduler, FiniteSetTheorems, TLAPS

-----------------------------------------------------------------------------
(***************************************************************************)
(* The inductive invariant.                                                *)
(***************************************************************************)
Broken == {"cleanup", "unverified", "killed"}
Over == {"closing", "gone"}
Unheard == {"none", "forked"}
Blamed(t) == first # 0 /\ first <= t

\* Where the loop is says why it is there, and what it has seen to.
LoopPhases ==
  /\ pc = "cancel" => interrupted # "none"
  /\ pc = "drain" => first # 0
  /\ pc = "stopped" => interrupted # "none" \/ first # 0
  /\ pc \in {"finish", "returned"} => pending = {}
  /\ pc \in {"finish", "returned", "raised", "interrupted"} => owned = {}
  /\ pc = "returned" => first = 0 /\ interrupted = "none"
  /\ pc = "raised" => first # 0
  /\ pc = "unverified" => owned \subseteq unreclaimed
  /\ pc \notin Broken => failures = {}
  /\ pc # "unverified" => unreclaimed = {}

\* What lives is owned, and what has not been spawned does not live.
TreeOwned(t) ==
  /\ t \in pending => t \notin owned /\ w[t] = "none" /\ rec[t] = NoRecord
  /\ t \notin owned => ~LiveTree(t)
  /\ w[t] \in Unheard =>
       ~kids[t] /\ result[t] = "none" /\ outbox[t] = "none" /\ ~inbox[t]
  /\ result[t] \in {"ok", "raised"} => w[t] \in Over
  /\ code[t] # "none" => w[t] = "gone"

\* The record of an owned task is true of its worker: there is a group to look for
\* when it may have descendants, it was told to run when it runs, and its channel
\* is closed only when it never will.
RecordTrue(t) ==
  t \in owned =>
    /\ rec[t].channel # "none"
    /\ ~rec[t].started => w[t] = "none" /\ rec[t].channel = "closed"
    /\ rec[t].state = "READY" => rec[t].pgid /\ w[t] \notin Unheard
    /\ w[t] = "running" \/ kids[t] \/ (inbox[t] /\ w[t] = "waiting") => rec[t].pgid
    /\ w[t] = "running" \/ result[t] # "none" \/ (inbox[t] /\ w[t] = "waiting") => rec[t].run
    /\ rec[t].cancelled => rec[t].channel = "closed" /\ first # 0 /\ ~rec[t].run
    /\ rec[t].channel = "closed" /\ pc # "unverified" => first # 0 /\ ~rec[t].run
    /\ rec[t].channel = "eof" => w[t] \in Over

\* No result gets lost: it is under way to the parent, recorded, or in the verdict.
ResultKept(t) ==
  /\ outbox[t] \in {"RETURNED", "RAISED"} => w[t] \in Over
  /\ outbox[t] = "RETURNED" => result[t] = "ok"
  /\ outbox[t] = "RAISED" => result[t] = "raised"
  /\ t \in owned /\ rec[t].terminal =>
       outbox[t] = "none" /\ w[t] \in Over /\ (result[t] = "ok" \/ first # 0)
  /\ pc \notin Broken =>
       /\ t \in owned /\ result[t] = "ok" => outbox[t] = "RETURNED" \/ rec[t].terminal
       /\ t \in owned /\ result[t] = "raised" => outbox[t] = "RAISED" \/ Blamed(t)
       /\ t \notin owned \cup pending =>
            /\ first = 0 /\ interrupted = "none" => result[t] = "ok"
            /\ result[t] = "raised" => Blamed(t)

\* A tree is cancelled only in an interrupt or a cleanup, or when its task can
\* do no work any more.
RunningSpared(t) ==
  t \in owned /\ rec[t].cleanup # "no" =>
    \/ interrupted # "none" \/ pc \in Broken
    \/ w[t] \in Over \cup {"none"}
    \/ first # 0 /\ ~rec[t].run

TaskInv(t) == TreeOwned(t) /\ RecordTrue(t) /\ ResultKept(t) /\ RunningSpared(t)

\* The task that is blamed has not returned normally, and never will.
FailsFor(t) ==
  \/ code[t] = "bad" \/ result[t] = "raised"
  \/ result[t] # "ok" /\ (w[t] \in Over \cup {"none"} \/ ~rec[t].run)
BlameJust == first # 0 => FailsFor(first)

SlotsKept == Cardinality(owned) <= scenario.slots

IInv ==
  /\ TypeOK /\ LoopPhases /\ BlameJust /\ SlotsKept
  /\ \A t \in Tasks : TaskInv(t)

LEMMA InitIInv == Init => IInv
<1> SUFFICES ASSUME Init PROVE IInv
  OBVIOUS
<1>1. TypeOK
  BY ConstantsAssumption
  DEF Init, TypeOK, NoRecord, Record, LoopStages, Ended, Alive, Signals, Tasks
<1>2. LoopPhases /\ BlameJust
  BY DEF Init, LoopPhases, BlameJust, Broken
<1>3. SlotsKept
  BY FS_EmptySet, ConstantsAssumption DEF Init, SlotsKept, Scenario
<1>4. ASSUME NEW t \in Tasks PROVE TaskInv(t)
  BY DEF Init, TaskInv, TreeOwned, Unheard, RecordTrue, ResultKept, RunningSpared, LiveTree,
      Alive, NoRecord
<1> QED
  BY <1>1, <1>2, <1>3, <1>4 DEF IInv

\* A signal is pending only for a worker that lives.
SignalsLive == \A t \in Tasks : leaderSig[t] # "none" => w[t] \in Alive

FullInv == IInv /\ SignalsLive

-----------------------------------------------------------------------------
(***************************************************************************)
(* What steps have in common.                                              *)
(***************************************************************************)
\* A step that is not about task u leaves all that is known of it.
Kept(u) ==
  /\ rec'[u] = rec[u] /\ w'[u] = w[u] /\ kids'[u] = kids[u] /\ result'[u] = result[u]
  /\ code'[u] = code[u] /\ inbox'[u] = inbox[u] /\ outbox'[u] = outbox[u]
  /\ u \in owned' <=> u \in owned
  /\ u \in pending' <=> u \in pending

\* The run does not go back: a failure or an interrupt is not forgotten, and a
\* cleanup is not left for the loop.
Onward ==
  /\ first' \in Tasks \cup {0} /\ (first # 0 => first' # 0 /\ first' <= first)
  /\ interrupted # "none" => interrupted' # "none"
  /\ pc \in Broken => pc' \in Broken
  /\ pc = "unverified" => pc' = "unverified"

LEMMA KeptKeeps ==
  ASSUME NEW u \in Tasks, first \in Tasks \cup {0}, TaskInv(u), Kept(u), Onward
  PROVE  TaskInv(u)'
<1>1. TreeOwned(u)'
  BY DEF TaskInv, TreeOwned, Unheard, Kept, LiveTree
<1>2. RecordTrue(u)'
  BY DEF TaskInv, RecordTrue, Kept, Onward
<1>3. Blamed(u) => Blamed(u)'
  BY DEF Blamed, Onward, Tasks
<1>4. ResultKept(u)'
  BY <1>3 DEF TaskInv, ResultKept, Kept, Onward
<1>5. RunningSpared(u)'
  BY DEF TaskInv, RunningSpared, Kept, Onward
<1> QED
  BY <1>1, <1>2, <1>4, <1>5 DEF TaskInv

\* Blaming keeps to the smallest task.
LEMMA BlameMoves ==
  ASSUME first \in Tasks \cup {0}, NEW t \in Tasks, NEW failed \in BOOLEAN, first' = Blame(failed, t)
  PROVE  /\ first' \in Tasks \cup {0} /\ (first # 0 => first' # 0 /\ first' <= first)
         /\ failed => first' # 0 /\ first' <= t
         /\ first' # first => failed /\ first' = t
         /\ ~failed => first' = first
BY DEF Blame, Tasks

\* Cancelling a tree changes of the record only how far the cleanup has come.
Alike(x, r) ==
  /\ x.state = r.state /\ x.run = r.run /\ x.pgid = r.pgid /\ x.terminal = r.terminal
  /\ x.cancelled = r.cancelled /\ x.started = r.started /\ x.channel = r.channel

LEMMA CancelledAlike ==
  ASSUME NEW t \in Tasks, NEW r \in Record
  PROVE  Cancelled(t, r) \in Record /\ Alike(Cancelled(t, r), r)
BY DEF Cancelled, Record, Alike, NoChild

\* A visit that keeps the record.
Settled(t, r, cancel, x) ==
  /\ x \in Record /\ Alike(x, r) /\ (~cancel => x.cleanup = r.cleanup)
  /\ rec' = [rec EXCEPT ![t] = x] /\ owned' = owned
  /\ \/ pc' = pc /\ todo' = todo \ {t}
     \/ pc' = "cleanup" /\ todo' = owned
  /\ graceOver' \in [Tasks -> BOOLEAN] /\ sigVars' \in [Tasks -> Signals] \X [Tasks -> Signals]
  /\ ~cancel => leaderSig' = leaderSig
  /\ \A u \in Tasks \ {t} : leaderSig'[u] = leaderSig[u]

LEMMA SignalTypes ==
  ASSUME TypeOK, NEW t \in Tasks, NEW r \in Record, NEW s \in Signals, SignalTree(t, r, s)
  PROVE  /\ sigVars' \in [Tasks -> Signals] \X [Tasks -> Signals]
         /\ \A u \in Tasks \ {t} : leaderSig'[u] = leaderSig[u]
BY DEF SignalTree, SignalLeader, TypeOK, sigVars

LEMMA CancelTreeSettles ==
  ASSUME TypeOK, NEW t \in Tasks, NEW r \in Record, CancelTree(t, r) \/ CancelFaults(t, r)
  PROVE  /\ rec' = [rec EXCEPT ![t] = Cancelled(t, r)]
         /\ graceOver' \in [Tasks -> BOOLEAN]
         /\ sigVars' \in [Tasks -> Signals] \X [Tasks -> Signals]
         /\ \A u \in Tasks \ {t} : leaderSig'[u] = leaderSig[u]
<1>1. /\ rec' = [rec EXCEPT ![t] = Cancelled(t, r)] /\ graceOver' = GraceAfter(t, r)
  BY DEF CancelTree, CancelFaults
<1>2. graceOver' \in [Tasks -> BOOLEAN]
  BY <1>1 DEF GraceAfter, TypeOK
<1>3. FirstSignal \in Signals /\ "kill" \in Signals
  BY DEF FirstSignal, Signals, TypeOK
<1>4. \/ UNCHANGED sigVars
      \/ \E s \in Signals : SignalTree(t, r, s)
  BY <1>3 DEF CancelTree, CancelFaults
<1>5. UNCHANGED sigVars => sigVars' \in [Tasks -> Signals] \X [Tasks -> Signals]
                           /\ leaderSig' = leaderSig
  BY DEF sigVars, TypeOK
<1> QED
  BY <1>1, <1>2, <1>4, <1>5, SignalTypes

LEMMA SettleSettles ==
  ASSUME TypeOK, NEW t \in Tasks, NEW r \in Record, NEW cancel \in BOOLEAN, Settle(t, r, cancel)
  PROVE  \E x : Settled(t, r, cancel, x)
<1>1. CASE cancel
  <2>1. owned' = owned /\ (CancelTree(t, r) \/ CancelFaults(t, r))
    BY <1>1 DEF Settle
  <2>2. \/ pc' = pc /\ todo' = todo \ {t}
        \/ pc' = "cleanup" /\ todo' = owned
    BY <1>1 DEF Settle, Visited, LeaveLoop
  <2>3. Settled(t, r, cancel, Cancelled(t, r))
    BY <1>1, <2>1, <2>2, CancelTreeSettles, CancelledAlike DEF Settled
  <2> QED
    BY <2>3
<1>2. CASE ~cancel
  <2>1. Settled(t, r, cancel, r)
    BY <1>2 DEF Settle, KeepRecord, Visited, Settled, Alike, sigVars, TypeOK
  <2> QED
    BY <2>1
<1> QED
  BY <1>1, <1>2

\* Reading a message.
LEMMA HandledFacts ==
  ASSUME NEW r \in Record, NEW m \in {"none", "READY", "RETURNED", "RAISED"}
  PROVE  LET h == Handled(r, m)
         IN  /\ h \in Record /\ h.run = r.run /\ h.cancelled = r.cancelled
             /\ h.started = r.started /\ h.cleanup = r.cleanup /\ h.channel = r.channel
             /\ h.terminal <=> r.terminal \/ m \in {"RETURNED", "RAISED"}
             /\ h.pgid <=> r.pgid \/ m = "READY"
             /\ h.state = IF m = "READY" THEN "READY" ELSE r.state
BY DEF Handled, Record

LEMMA NoteEofFacts ==
  ASSUME NEW t \in Tasks, NEW r \in Record
  PROVE  LET h == NoteEof(t, r)
         IN  /\ h \in Record /\ h.run = r.run /\ h.cancelled = r.cancelled
             /\ h.started = r.started /\ h.cleanup = r.cleanup
             /\ h.terminal = r.terminal /\ h.pgid = r.pgid /\ h.state = r.state
             /\ h.channel = IF WorkerClosed(t) THEN "eof" ELSE r.channel
BY DEF NoteEof, Record

\* The parts of the invariant after a step about task t.
LEMMA Together ==
  ASSUME IInv, NEW t \in Tasks, TypeOK', LoopPhases', BlameJust', SlotsKept', TaskInv(t)',
         Onward, \A u \in Tasks \ {t} : Kept(u)
  PROVE  IInv'
<1>1. ASSUME NEW u \in Tasks PROVE TaskInv(u)'
  <2>1. CASE u # t
    BY <2>1, KeptKeeps DEF IInv, TypeOK
  <2> QED
    BY <2>1
<1> QED
  BY <1>1 DEF IInv

LEMMA FewerOwned ==
  ASSUME IInv, owned' \subseteq owned, scenario' = scenario
  PROVE  SlotsKept'
<1>1. IsFiniteSet(owned)
  <2>1. IsFiniteSet(Tasks)
    BY FS_Interval, ConstantsAssumption DEF Tasks
  <2> QED
    BY <2>1, FS_Subset DEF IInv, TypeOK
<1>2. /\ Cardinality(owned') <= Cardinality(owned)
      /\ Cardinality(owned) \in Nat /\ Cardinality(owned') \in Nat
  BY <1>1, FS_Subset, FS_CardinalityType
<1>3. scenario.slots \in Nat
  BY ConstantsAssumption DEF IInv, TypeOK, Scenario
<1> QED
  BY <1>2, <1>3 DEF IInv, SlotsKept

\* The parent does not touch the workers; it tells none to run once it has somebody
\* to blame, so that who is blamed stays so.
LEMMA ParentBlames ==
  ASSUME IInv, NEW t \in Tasks, UNCHANGED workVars,
         first' # first => first' = t /\ FailsFor(t)',
         \A u \in Tasks : first # 0 /\ rec'[u].run => rec[u].run
  PROVE  BlameJust'
<1>1. CASE first' = first /\ first # 0
  BY <1>1 DEF IInv, TypeOK, BlameJust, FailsFor, workVars
<1>2. CASE first' = 0
  BY <1>2 DEF BlameJust
<1>3. CASE first' # first
  BY <1>3 DEF BlameJust
<1> QED
  BY <1>1, <1>2, <1>3

\* What the record of an owned task becomes when it is kept, and nothing is sent.
LEMMA TypesAfterVisit ==
  ASSUME IInv, NEW t \in Tasks, NEW r \in Record, NEW cancel \in BOOLEAN, NEW x,
         Settled(t, r, cancel, x), first' \in Tasks \cup {0}, pc \in LoopStages,
         UNCHANGED <<scenario, pending, interrupted, failures, unreclaimed, workVars, late>>,
         inbox' \in [Tasks -> BOOLEAN],
         outbox' \in [Tasks -> {"none", "READY", "RETURNED", "RAISED"}]
  PROVE  TypeOK'
<1>1. rec' \in [Tasks -> Record] /\ owned' \subseteq Tasks
  BY DEF Settled, IInv, TypeOK
<1>2. /\ pc' \in LoopStages \cup Ended \cup {"spawn", "stopped", "finish", "cleanup"}
      /\ todo' \subseteq owned'
  BY DEF Settled, IInv, TypeOK
<1>3. leaderSig' \in [Tasks -> Signals] /\ groupSig' \in [Tasks -> Signals]
  BY DEF Settled, sigVars
<1>4. graceOver' \in [Tasks -> BOOLEAN]
  BY DEF Settled
<1>5. /\ failures' \subseteq owned' /\ unreclaimed' \subseteq owned'
  BY DEF Settled, IInv, TypeOK
<1> QED
  BY <1>1, <1>2, <1>3, <1>4, <1>5 DEF IInv, TypeOK, workVars

\* A visit that keeps the record changes nothing for the loop but its place.
LEMMA LoopAfterVisit ==
  ASSUME IInv, NEW t \in Tasks, NEW r, NEW cancel, NEW x, Settled(t, r, cancel, x),
         first # 0 => first' # 0, pc \in LoopStages,
         UNCHANGED <<pending, interrupted, failures, unreclaimed>>
  PROVE  LoopPhases'
<1>1. pc' = pc \/ pc' = "cleanup"
  BY DEF Settled
<1>2. pc \notin {"stopped", "finish", "returned", "raised", "interrupted", "unverified"} \cup Broken
  BY DEF LoopStages, Broken
<1> QED
  BY <1>1, <1>2 DEF IInv, LoopPhases, Broken

LEMMA PumpKeepsIInv ==
  ASSUME IInv, NEW t \in Tasks, Pump(t)
  PROVE  IInv'
<1>1. /\ pc = "pump" /\ t \in owned
      /\ UNCHANGED <<scenario, pending, interrupted, failures, unreclaimed, workVars, inbox, late>>
  BY DEF Pump, Visiting, IInv, TypeOK
<1>2. \E r \in Record, failed \in BOOLEAN :
        /\ Settle(t, r, failed) /\ first' = Blame(failed, t)
        /\ \/ r = rec[t] /\ ~failed /\ outbox' = outbox /\ ~Open(t)
           \/ /\ Open(t) /\ outbox' = [outbox EXCEPT ![t] = "none"]
              /\ r = NoteEof(t, Handled(rec[t], outbox[t]))
              /\ failed = (outbox[t] = "RAISED" \/ LostBeforeTerminal(r))
  <2>1. rec[t] \in Record
    BY DEF IInv, TypeOK
  <2>2. CASE ~Open(t)
    BY <2>1, <2>2 DEF Pump, Blame
  <2>3. CASE Open(t)
    <3>1. NoteEof(t, Handled(rec[t], outbox[t])) \in Record
      BY <2>1 DEF NoteEof, Handled, Record
    <3> QED
      BY <2>3, <3>1 DEF Pump
  <2> QED
    BY <2>2, <2>3
<1>3. PICK r \in Record, failed \in BOOLEAN :
        /\ Settle(t, r, failed) /\ first' = Blame(failed, t)
        /\ \/ r = rec[t] /\ ~failed /\ outbox' = outbox /\ ~Open(t)
           \/ /\ Open(t) /\ outbox' = [outbox EXCEPT ![t] = "none"]
              /\ r = NoteEof(t, Handled(rec[t], outbox[t]))
              /\ failed = (outbox[t] = "RAISED" \/ LostBeforeTerminal(r))
  BY <1>2
<1>4. PICK x : Settled(t, r, failed, x)
  BY <1>3, SettleSettles DEF IInv
<1>5. /\ first' \in Tasks \cup {0} /\ (first # 0 => first' # 0 /\ first' <= first)
      /\ failed => first' # 0 /\ first' <= t
      /\ first' # first => failed /\ first' = t
  BY <1>3, BlameMoves DEF IInv, TypeOK
<1>6. TypeOK'
  <2>1. outbox' \in [Tasks -> {"none", "READY", "RETURNED", "RAISED"}] /\ inbox' \in [Tasks -> BOOLEAN]
    BY <1>1, <1>3 DEF IInv, TypeOK
  <2> QED
    BY <1>1, <1>4, <1>5, <2>1, TypesAfterVisit DEF LoopStages
<1>7. LoopPhases'
  BY <1>1, <1>4, <1>5, LoopAfterVisit DEF LoopStages
<1>8. Onward /\ \A u \in Tasks \ {t} : Kept(u)
  BY <1>1, <1>3, <1>4, <1>5 DEF Onward, Kept, Settled, Broken, workVars, IInv, TypeOK
<1>9. /\ rec'[t] = x /\ Alike(x, r) /\ t \in owned' /\ t \notin pending /\ t \notin pending'
      /\ w'[t] = w[t] /\ kids'[t] = kids[t] /\ result'[t] = result[t] /\ code'[t] = code[t]
      /\ inbox'[t] = inbox[t] /\ (~failed => x.cleanup = r.cleanup)
      /\ pc' \in {"pump", "cleanup"}
  BY <1>1, <1>4 DEF Settled, workVars, IInv, TypeOK, TaskInv, TreeOwned, Unheard
<1>10. /\ r.run = rec[t].run /\ r.cancelled = rec[t].cancelled /\ r.started = rec[t].started
       /\ r.cleanup = rec[t].cleanup
       /\ r.pgid <=> rec[t].pgid \/ (Open(t) /\ outbox[t] = "READY")
       /\ r.state = rec[t].state \/ (Open(t) /\ outbox[t] = "READY")
       /\ r.terminal <=> rec[t].terminal \/ (Open(t) /\ outbox[t] \in {"RETURNED", "RAISED"})
       /\ r.channel = IF Open(t) /\ w[t] \in Over THEN "eof" ELSE rec[t].channel
  <2>1. rec[t] \in Record /\ outbox[t] \in {"none", "READY", "RETURNED", "RAISED"}
    BY DEF IInv, TypeOK
  <2>2. CASE ~Open(t)
    BY <1>3, <2>2
  <2>3. CASE Open(t)
    <3> DEFINE h == Handled(rec[t], outbox[t])
    <3>1. /\ h \in Record /\ h.run = rec[t].run /\ h.cancelled = rec[t].cancelled
          /\ h.started = rec[t].started /\ h.cleanup = rec[t].cleanup /\ h.channel = rec[t].channel
          /\ h.terminal <=> rec[t].terminal \/ outbox[t] \in {"RETURNED", "RAISED"}
          /\ h.pgid <=> rec[t].pgid \/ outbox[t] = "READY"
          /\ h.state = IF outbox[t] = "READY" THEN "READY" ELSE rec[t].state
      BY <2>1, HandledFacts
    <3>2. r = NoteEof(t, h)
      BY <1>3, <2>3
    <3> HIDE DEF h
    <3>3. /\ r.run = h.run /\ r.cancelled = h.cancelled
          /\ r.started = h.started /\ r.cleanup = h.cleanup
          /\ r.terminal = h.terminal /\ r.pgid = h.pgid /\ r.state = h.state
          /\ r.channel = IF WorkerClosed(t) THEN "eof" ELSE h.channel
      BY <3>1, <3>2, NoteEofFacts
    <3> QED
      BY <2>3, <3>1, <3>3 DEF WorkerClosed, Over
  <2> QED
    BY <2>2, <2>3
<1>11. TaskInv(t)
  BY DEF IInv
<1>12. /\ outbox'[t] = IF Open(t) THEN "none" ELSE outbox[t]
       /\ Open(t) <=> rec[t].channel \in {"open", "eof"}
       /\ failed => w[t] \in Over
       /\ outbox[t] = "RAISED" /\ Open(t) => failed
       /\ pc \notin Broken /\ pc # "unverified"
  <2>1. outbox \in [Tasks -> {"none", "READY", "RETURNED", "RAISED"}]
    BY DEF IInv, TypeOK
  <2>2. Open(t) <=> rec[t].channel \in {"open", "eof"}
    BY DEF Open
  <2>3. failed => w[t] \in Over
    BY <1>1, <1>3, <1>10, <1>11, <2>2 DEF LostBeforeTerminal, TaskInv, ResultKept, RecordTrue
  <2> QED
    BY <1>1, <1>3, <2>1, <2>2, <2>3 DEF Broken
<1>13. TreeOwned(t)'
  BY <1>9, <1>11, <1>12 DEF TaskInv, TreeOwned, Unheard, LiveTree
<1>14. RecordTrue(t)'
  BY <1>1, <1>5, <1>9, <1>10, <1>11, <1>12 DEF TaskInv, RecordTrue, TreeOwned, Unheard, Alike
<1>15. ResultKept(t)'
  <2>1. Blamed(t) => Blamed(t)'
    BY <1>5 DEF Blamed, Tasks, IInv, TypeOK
  <2>2. failed => Blamed(t)'
    BY <1>5 DEF Blamed
  <2>3. x.terminal = r.terminal
    BY <1>9 DEF Alike
  <2> QED
    BY <1>1, <1>5, <1>9, <1>10, <1>11, <1>12, <2>1, <2>2, <2>3
    DEF TaskInv, ResultKept, RecordTrue
<1>16. RunningSpared(t)'
  BY <1>1, <1>5, <1>9, <1>10, <1>11, <1>12 DEF TaskInv, RunningSpared, Alike, Broken
<1>17. BlameJust'
  <2>1. first' # first => first' = t /\ FailsFor(t)'
    <3>1. ASSUME failed PROVE result[t] # "ok" \/ result[t] = "raised"
      BY <1>1, <1>3, <1>10, <1>11, <1>12, <3>1
      DEF TaskInv, ResultKept, LostBeforeTerminal
    <3> QED
      BY <1>5, <1>9, <1>12, <3>1 DEF FailsFor
  <2>2. \A u \in Tasks : rec'[u].run => rec[u].run
    BY <1>8, <1>9, <1>10 DEF Kept, Alike
  <2> QED
    BY <1>1, <2>1, <2>2, ParentBlames
<1>18. SlotsKept'
  BY <1>1, <1>4, FewerOwned DEF Settled
<1> QED
  BY <1>6, <1>7, <1>8, <1>13, <1>14, <1>15, <1>16, <1>17, <1>18, Together DEF TaskInv

\* A visit that keeps the record and at most reads what came last, with the reasons
\* there may be for blaming the task and for cancelling its tree.
LEMMA VisitKeepsIInv ==
  ASSUME IInv, NEW t \in Tasks, t \in owned, pc \in LoopStages,
         NEW r \in Record, NEW cancel \in BOOLEAN, NEW x, Settled(t, r, cancel, x),
         UNCHANGED <<scenario, pending, interrupted, failures, unreclaimed, workVars, inbox, late>>,
         outbox' \in {outbox, [outbox EXCEPT ![t] = "none"]},
         first' \in Tasks \cup {0}, first # 0 => first' # 0 /\ first' <= first,
         first' # first => first' = t /\ FailsFor(t)',
         /\ r.run = rec[t].run /\ r.pgid = rec[t].pgid /\ r.cancelled = rec[t].cancelled
         /\ r.started = rec[t].started /\ r.cleanup = rec[t].cleanup
         /\ r.channel = rec[t].channel /\ r.state = rec[t].state,
         r.terminal => rec[t].terminal \/ (outbox[t] \in {"RETURNED", "RAISED"} /\ outbox'[t] = "none"),
         rec[t].terminal => r.terminal,
         outbox[t] = "RETURNED" => outbox' = outbox \/ r.terminal,
         outbox[t] = "RAISED" => outbox' = outbox \/ Blamed(t)',
         cancel => \/ rec[t].cleanup # "no" \/ interrupted # "none" \/ w[t] \in Over
                   \/ first' # 0 /\ ~rec[t].run
  PROVE  IInv'
<1>1. pc \notin Broken /\ pc # "unverified"
  BY DEF LoopStages, Broken
<1>2. /\ rec'[t] = x /\ Alike(x, r) /\ t \in owned' /\ t \notin pending /\ t \notin pending'
      /\ w'[t] = w[t] /\ kids'[t] = kids[t] /\ result'[t] = result[t] /\ code'[t] = code[t]
      /\ inbox'[t] = inbox[t] /\ (~cancel => x.cleanup = r.cleanup)
      /\ (pc' = pc \/ pc' = "cleanup")
  BY DEF Settled, workVars, IInv, TypeOK, TaskInv, TreeOwned, Unheard
<1>3. /\ outbox' \in [Tasks -> {"none", "READY", "RETURNED", "RAISED"}]
      /\ inbox' \in [Tasks -> BOOLEAN] /\ outbox'[t] \in {outbox[t], "none"}
      /\ \A u \in Tasks \ {t} : outbox'[u] = outbox[u]
      /\ outbox'[t] = outbox[t] => outbox' = outbox
  BY DEF IInv, TypeOK
<1>4. TypeOK'
  BY <1>3, TypesAfterVisit
<1>5. LoopPhases'
  BY LoopAfterVisit
<1>6. Onward
  BY <1>1, <1>2 DEF Onward, Broken
<1>7. \A u \in Tasks \ {t} : Kept(u)
  BY <1>3 DEF Kept, Settled, workVars, IInv, TypeOK
<1>8. TaskInv(t)
  BY DEF IInv
<1>9. TreeOwned(t)'
  BY <1>2, <1>3, <1>8 DEF TaskInv, TreeOwned, Unheard, LiveTree
<1>10. RecordTrue(t)'
  BY <1>1, <1>2, <1>8 DEF TaskInv, RecordTrue, Alike
<1>11. ResultKept(t)'
  <2>1. Blamed(t) => Blamed(t)'
    BY DEF Blamed, Tasks, IInv, TypeOK
  <2>2. x.terminal = r.terminal
    BY <1>2 DEF Alike
  <2>3. Blamed(t)' => first' # 0
    BY DEF Blamed
  <2> QED
    BY <1>1, <1>2, <1>3, <1>8, <2>1, <2>2, <2>3 DEF TaskInv, ResultKept, RecordTrue
<1>12. RunningSpared(t)'
  BY <1>1, <1>2, <1>8 DEF TaskInv, RunningSpared, Alike, Broken
<1>13. BlameJust'
  <2>1. \A u \in Tasks : rec'[u].run => rec[u].run
    BY <1>2, <1>7 DEF Kept, Alike
  <2> QED
    BY <2>1, ParentBlames
<1>14. SlotsKept'
  BY FewerOwned DEF Settled
<1> QED
  BY <1>4, <1>5, <1>6, <1>7, <1>9, <1>10, <1>11, <1>12, <1>13, <1>14, Together DEF TaskInv

\* A record is given up only of a tree that is gone, and in the loop only once what
\* came of the task is known.
LEMMA ReclaimKeepsIInv ==
  ASSUME IInv, NEW t \in Tasks, t \in owned, pc \in {"reap", "cleanup"},
         Reclaim(t), todo' = todo \ {t}, pc' = pc,
         UNCHANGED <<scenario, pending, interrupted, unreclaimed, workVars, inbox, late>>,
         failures' = failures \ {t},
         outbox' \in {outbox, [outbox EXCEPT ![t] = "none"]},
         first' \in Tasks \cup {0}, first # 0 => first' # 0 /\ first' <= first,
         first' # first => first' = t /\ FailsFor(t)',
         ~LiveTree(t),
         pc = "reap" => /\ first' = 0 /\ interrupted = "none" => result[t] = "ok"
                        /\ result[t] = "raised" => Blamed(t)'
  PROVE  IInv'
<1>1. /\ rec' = [rec EXCEPT ![t] = [NoRecord EXCEPT !.channel = "closed"]]
      /\ graceOver' = [graceOver EXCEPT ![t] = FALSE]
      /\ owned' = owned \ {t} /\ UNCHANGED <<leaderSig, groupSig>>
  BY DEF Reclaim, sigVars
<1>2. /\ [NoRecord EXCEPT !.channel = "closed"] \in Record
      /\ [NoRecord EXCEPT !.channel = "closed"].run = FALSE
  BY DEF NoRecord, Record
<1>3. /\ outbox' \in [Tasks -> {"none", "READY", "RETURNED", "RAISED"}]
      /\ outbox'[t] \in {outbox[t], "none"}
      /\ \A u \in Tasks \ {t} : outbox'[u] = outbox[u]
  BY DEF IInv, TypeOK
<1>4. TypeOK'
  <2>1. rec' \in [Tasks -> Record] /\ graceOver' \in [Tasks -> BOOLEAN]
    BY <1>1, <1>2 DEF IInv, TypeOK
  <2>2. unreclaimed = {}
    BY DEF IInv, LoopPhases
  <2>3. todo' \subseteq owned' /\ failures' \subseteq owned' /\ unreclaimed' \subseteq owned'
    BY <1>1, <2>2 DEF IInv, TypeOK
  <2> QED
    BY <1>1, <1>3, <2>1, <2>3 DEF IInv, TypeOK, workVars
<1>5. LoopPhases'
  BY <1>1 DEF IInv, LoopPhases, Broken
<1>6. Onward /\ \A u \in Tasks \ {t} : Kept(u)
  BY <1>1, <1>3 DEF Onward, Kept, workVars, IInv, TypeOK
<1>7. TaskInv(t)
  BY DEF IInv
<1>8. TaskInv(t)'
  <2>1. t \notin owned' /\ t \notin pending /\ t \notin pending'
    BY <1>1, <1>7 DEF TaskInv, TreeOwned, Unheard
  <2>2. TreeOwned(t)'
    BY <1>3, <1>7, <2>1 DEF TaskInv, TreeOwned, Unheard, LiveTree, workVars
  <2>3. RecordTrue(t)' /\ RunningSpared(t)'
    BY <2>1 DEF RecordTrue, RunningSpared
  <2>4. ResultKept(t)'
    BY <1>3, <1>7, <2>1 DEF TaskInv, ResultKept, workVars, Broken
  <2> QED
    BY <2>2, <2>3, <2>4 DEF TaskInv
<1>9. BlameJust'
  <2>1. \A u \in Tasks : rec'[u].run => rec[u].run
    BY <1>1, <1>2 DEF IInv, TypeOK
  <2> QED
    BY <2>1, ParentBlames
<1>10. SlotsKept'
  BY <1>1, FewerOwned
<1> QED
  BY <1>4, <1>5, <1>6, <1>8, <1>9, <1>10, Together

LEMMA CheckDeadlineKeepsIInv ==
  ASSUME IInv, NEW t \in Tasks, CheckDeadline(t)
  PROVE  IInv'
<1> DEFINE cancel == rec[t].cleanup # "no" \/ TooLate(t)
<1>1. /\ pc = "deadline" /\ t \in owned /\ rec[t] \in Record /\ Settle(t, rec[t], cancel)
      /\ first' = Blame(TooLate(t), t)
      /\ UNCHANGED <<scenario, pending, interrupted, failures, unreclaimed, workVars, inbox, late>>
      /\ outbox' = outbox
  BY DEF CheckDeadline, Visiting, IInv, TypeOK, wireVars
<1>2. TooLate(t) \in BOOLEAN
  BY DEF TooLate, IInv, TypeOK, Record
<1>3. /\ first' \in Tasks \cup {0} /\ (first # 0 => first' # 0 /\ first' <= first)
      /\ TooLate(t) => first' # 0
      /\ first' # first => TooLate(t) /\ first' = t
  BY <1>1, <1>2, BlameMoves DEF IInv, TypeOK
<1>4. TooLate(t) => ~rec[t].run /\ result[t] = "none"
  BY <1>1 DEF TooLate, IInv, TaskInv, RecordTrue
<1>5. PICK x : Settled(t, rec[t], cancel, x)
  BY <1>1, <1>2, SettleSettles DEF IInv
<1>6. first' # first => first' = t /\ FailsFor(t)'
  <2>1. TooLate(t) => ~rec'[t].run /\ result'[t] = "none"
    BY <1>1, <1>4, <1>5 DEF Settled, Alike, workVars, IInv, TypeOK
  <2> QED
    BY <1>3, <2>1 DEF FailsFor
<1> QED
  BY <1>1, <1>2, <1>3, <1>4, <1>5, <1>6, VisitKeepsIInv DEF LoopStages

LEMMA InterruptKeepsIInv ==
  ASSUME IInv, NEW t \in Tasks, Interrupt(t)
  PROVE  IInv'
<1>1. /\ pc = "cancel" /\ t \in owned /\ rec[t] \in Record /\ Settle(t, rec[t], TRUE)
      /\ UNCHANGED <<scenario, pending, interrupted, failures, unreclaimed, workVars, inbox, late>>
      /\ outbox' = outbox /\ first' = first
  BY DEF Interrupt, Visiting, IInv, TypeOK, wireVars, loopVars
<1>2. PICK x : Settled(t, rec[t], TRUE, x)
  BY <1>1, SettleSettles DEF IInv
<1>3. interrupted # "none" /\ first \in Tasks \cup {0} /\ (first # 0 => first <= first)
  BY <1>1 DEF IInv, LoopPhases, TypeOK, Tasks
<1> QED
  BY <1>1, <1>2, <1>3, VisitKeepsIInv DEF LoopStages

\* The worker has exited: its last message is read, and unless descendants of it live
\* the record is given up.
LEMMA ReapKeepsIInv ==
  ASSUME IInv, NEW t \in Tasks, Reap(t)
  PROVE  IInv'
<1>1. /\ pc = "reap" /\ t \in owned /\ rec[t] \in Record
      /\ UNCHANGED <<scenario, pending, interrupted, failures, unreclaimed, workVars, inbox, late>>
      /\ first \in Tasks \cup {0} /\ (first # 0 => first <= first)
      /\ pc \in LoopStages /\ pc \notin Broken /\ pc # "unverified" /\ failures = failures \ {t}
      /\ outbox[t] \in {"none", "READY", "RETURNED", "RAISED"}
  BY DEF Reap, Visiting, IInv, TypeOK, LoopStages, Broken, LoopPhases, Tasks
<1>t. TaskInv(t)
  BY DEF IInv
<1>2. CASE NoChild(rec[t]) /\ Reclaim(t) /\ Visited(t) /\ UNCHANGED <<first, outbox>>
  <2>1. ~LiveTree(t) /\ first # 0 /\ result[t] = "none"
    BY <1>1, <1>2, <1>t DEF NoChild, TaskInv, RecordTrue, TreeOwned, Unheard, LiveTree, Alive
  <2> QED
    BY <1>1, <1>2, <2>1, ReclaimKeepsIInv DEF Visited
<1>3. CASE Settle(t, rec[t], FALSE) /\ UNCHANGED <<first, outbox>>
  <2>1. PICK x : Settled(t, rec[t], FALSE, x)
    BY <1>1, <1>3, SettleSettles DEF IInv
  <2> QED
    BY <1>1, <1>3, <2>1, VisitKeepsIInv
<1>4. CASE ~NoChild(rec[t]) /\ Exited(t)
           /\ ~(Settle(t, rec[t], FALSE) /\ UNCHANGED <<first, outbox>>)
  <2> DEFINE m == IF Open(t) THEN outbox[t] ELSE "none"
             r == IF m = "READY" THEN rec[t] ELSE Handled(rec[t], m)
             failed == m \in {"READY", "RAISED"} \/ Abnormal(t, r)
  <2>1. /\ first' = Blame(failed, t)
        /\ outbox' = IF Open(t) THEN [outbox EXCEPT ![t] = "none"] ELSE outbox
        /\ \/ ~GroupAlive(t, r) /\ Reclaim(t) /\ Visited(t)
           \/ Settle(t, r, TRUE)
           \/ /\ CancelTree(t, r) \/ CancelFaults(t, r) \/ KeepRecord(t, r)
              /\ LeaveLoop /\ UNCHANGED owned
    BY <1>4 DEF Reap
  <2>2. m \in {"none", "READY", "RETURNED", "RAISED"} /\ w[t] = "gone"
        /\ (m = "none" \/ m = outbox[t])
    BY <1>1, <1>4 DEF Exited
  <2>3. /\ r \in Record /\ r.run = rec[t].run /\ r.pgid = rec[t].pgid
        /\ r.cancelled = rec[t].cancelled
        /\ r.started = rec[t].started /\ r.cleanup = rec[t].cleanup
        /\ r.channel = rec[t].channel /\ r.state = rec[t].state
        /\ r.terminal <=> rec[t].terminal \/ m \in {"RETURNED", "RAISED"}
    <3>1. CASE m = "READY"
      BY <1>1, <3>1
    <3>2. CASE m # "READY"
      <4>1. r = Handled(rec[t], m)
        BY <3>2
      <4> HIDE DEF m
      <4> QED
        BY <1>1, <2>2, <3>2, <4>1, HandledFacts DEF Record
    <3> QED
      BY <3>1, <3>2
  <2>4. Open(t) <=> rec[t].channel \in {"open", "eof"}
    BY DEF Open
  <2>5. failed = (m \in {"READY", "RAISED"}
                  \/ (~r.cancelled /\ (~r.run \/ ~r.terminal \/ code[t] = "bad")))
    BY DEF Abnormal
  <2>6. m = IF Open(t) THEN outbox[t] ELSE "none"
    OBVIOUS
  <2> HIDE DEF m, r, failed
  <2>7. failed \in BOOLEAN
    BY <2>5
  <2>8. /\ first' \in Tasks \cup {0} /\ (first # 0 => first' # 0 /\ first' <= first)
        /\ failed => first' # 0 /\ first' <= t
        /\ first' # first => failed /\ first' = t
    BY <1>1, <2>1, <2>7, BlameMoves
  <2>9. result[t] \in {"ok", "raised"} => Open(t) /\ m = outbox[t]
    BY <1>1, <1>t, <2>4, <2>6 DEF TaskInv, RecordTrue, IInv, TypeOK, Record
  <2>10. failed /\ result[t] = "ok" => code[t] = "bad"
    BY <1>1, <1>t, <2>3, <2>5, <2>9 DEF TaskInv, ResultKept, RecordTrue
  <2>11. first' # first => first' = t /\ FailsFor(t)'
    <3>1. w'[t] = "gone" /\ result'[t] = result[t] /\ code'[t] = code[t]
      BY <1>1, <2>2 DEF workVars
    <3> QED
      BY <2>8, <2>10, <3>1 DEF FailsFor, Over
  <2>12. outbox' \in {outbox, [outbox EXCEPT ![t] = "none"]}
    BY <2>1
  <2>13. outbox[t] = "RAISED" => outbox' = outbox \/ Blamed(t)'
    BY <2>1, <2>5, <2>6, <2>8 DEF Blamed
  <2>14. CASE ~GroupAlive(t, r) /\ Reclaim(t) /\ Visited(t)
    <3>1. ~LiveTree(t)
      BY <1>1, <1>t, <2>2, <2>3, <2>14 DEF GroupAlive, LiveTree, Alive, TaskInv, RecordTrue
    <3>2. result[t] = "raised" => Blamed(t)'
      <4>1. Blamed(t) => Blamed(t)'
        BY <2>8, <1>1 DEF Blamed, Tasks
      <4>2. failed => Blamed(t)'
        BY <2>8 DEF Blamed
      <4> QED
        BY <1>1, <1>t, <2>5, <2>9, <4>1, <4>2 DEF TaskInv, ResultKept
    <3>3. first' = 0 /\ interrupted = "none" => result[t] = "ok"
      <4> SUFFICES ASSUME first' = 0, interrupted = "none" PROVE result[t] = "ok"
        OBVIOUS
      <4>1. ~failed /\ first = 0
        BY <2>8
      <4>2. ~rec[t].cancelled
        BY <1>1, <1>t, <4>1 DEF TaskInv, RecordTrue
      <4>3. r.terminal /\ m # "RAISED"
        BY <2>3, <2>5, <4>1, <4>2
      <4> QED
        BY <1>1, <1>t, <2>2, <2>3, <4>1, <4>3 DEF TaskInv, ResultKept
    <3> QED
      BY <1>1, <2>8, <2>11, <2>12, <2>14, <3>1, <3>2, <3>3, ReclaimKeepsIInv DEF Visited
  <2>15. ASSUME NEW x, Settled(t, r, TRUE, x) PROVE IInv'
    <3>1. outbox'[t] = IF Open(t) THEN "none" ELSE outbox[t]
      BY <2>1 DEF IInv, TypeOK
    <3>2. /\ r.terminal => rec[t].terminal
                           \/ (outbox[t] \in {"RETURNED", "RAISED"} /\ outbox'[t] = "none")
          /\ rec[t].terminal => r.terminal
          /\ outbox[t] = "RETURNED" => outbox' = outbox \/ r.terminal
      BY <2>1, <2>3, <2>6, <3>1
    <3>3. w[t] \in Over
      BY <2>2 DEF Over
    <3> QED
      BY <1>1, <2>3, <2>8, <2>11, <2>12, <2>13, <2>15, <3>2, <3>3, VisitKeepsIInv
  <2>16. CASE Settle(t, r, TRUE)
    BY <2>3, <2>15, <2>16, SettleSettles DEF IInv
  <2>17. CASE (CancelTree(t, r) \/ CancelFaults(t, r) \/ KeepRecord(t, r))
              /\ LeaveLoop /\ UNCHANGED owned
    <3>1. pc' = "cleanup" /\ todo' = owned /\ owned' = owned
      BY <2>17 DEF LeaveLoop
    <3>2. CASE CancelTree(t, r) \/ CancelFaults(t, r)
      <4>1. Settled(t, r, TRUE, Cancelled(t, r))
        BY <2>3, <3>1, <3>2, CancelTreeSettles, CancelledAlike DEF Settled, IInv
      <4> QED
        BY <2>15, <4>1
    <3>3. CASE KeepRecord(t, r)
      <4>1. Settled(t, r, TRUE, r)
        BY <2>3, <3>1, <3>3 DEF KeepRecord, Settled, Alike, sigVars, IInv, TypeOK
      <4> QED
        BY <2>15, <4>1
    <3> QED
      BY <2>17, <3>2, <3>3
  <2> QED
    BY <2>1, <2>14, <2>16, <2>17
<1> QED
  BY <1>2, <1>3, <1>4 DEF Reap

\* Closing the channel of a task that was not told to run.
LEMMA CancelBootstrapKeepsIInv ==
  ASSUME IInv, NEW t \in Tasks, CancelBootstrap(t)
  PROVE  IInv'
<1>1. /\ pc = "drain" /\ t \in owned /\ rec[t] \in Record
      /\ UNCHANGED <<scenario, pending, interrupted, failures, unreclaimed, workVars, inbox, outbox,
                     late>>
      /\ first' = first /\ first # 0 /\ first \in Tasks \cup {0} /\ first <= first
  BY DEF CancelBootstrap, Visiting, IInv, TypeOK, wireVars, loopVars, LoopPhases, Tasks
<1>2. CASE Settle(t, rec[t], ~Spared(t) /\ Overdue(t))
  <2> DEFINE cancel == ~Spared(t) /\ Overdue(t)
  <2>1. cancel \in BOOLEAN /\ (cancel => ~rec[t].run)
    BY DEF Spared
  <2>2. PICK x : Settled(t, rec[t], cancel, x)
    BY <1>1, <1>2, <2>1, SettleSettles DEF IInv
  <2> HIDE DEF cancel
  <2> QED
    BY <1>1, <2>1, <2>2, VisitKeepsIInv DEF LoopStages
<1>3. CASE /\ ~Spared(t) /\ ~rec[t].cancelled
           /\ rec' = [rec EXCEPT ![t].cancelled = TRUE,
                                 ![t].channel = IF Open(t) THEN "closed" ELSE @]
           /\ graceOver' = [graceOver EXCEPT ![t] = FALSE]
           /\ Visited(t) /\ UNCHANGED <<owned, sigVars>>
  <2> DEFINE y == [rec[t] EXCEPT !.cancelled = TRUE,
                                 !.channel = IF Open(t) THEN "closed" ELSE @]
  <2>1. rec' = [rec EXCEPT ![t] = y]
    BY <1>3, <1>1 DEF IInv, TypeOK
  <2>2. /\ y \in Record /\ y.state = rec[t].state /\ y.run = rec[t].run /\ y.pgid = rec[t].pgid
        /\ y.terminal = rec[t].terminal /\ y.cancelled /\ y.started = rec[t].started
        /\ y.cleanup = rec[t].cleanup /\ (y.channel = "closed" \/ y.channel = rec[t].channel)
        /\ rec[t].channel \in {"open", "eof"} => y.channel = "closed"
    BY <1>1 DEF Record, Open
  <2> HIDE DEF y
  <2>3. TaskInv(t) /\ ~rec[t].run /\ rec[t].channel # "none"
    BY <1>1, <1>3 DEF IInv, Spared, TaskInv, RecordTrue
  <2>4. y.channel = "closed"
    BY <1>1, <2>2, <2>3 DEF Record
  <2>5. TypeOK'
    <3>1. rec' \in [Tasks -> Record] /\ graceOver' \in [Tasks -> BOOLEAN]
      <4>1. graceOver' = [graceOver EXCEPT ![t] = FALSE]
        BY <1>3
      <4> QED
        BY <2>1, <2>2, <4>1 DEF IInv, TypeOK
    <3>2. pc' = pc /\ todo' \subseteq owned' /\ owned' = owned
      BY <1>3 DEF Visited, IInv, TypeOK
    <3> QED
      BY <1>1, <1>3, <3>1, <3>2 DEF IInv, TypeOK, workVars, sigVars
  <2>6. LoopPhases'
    BY <1>1, <1>3 DEF IInv, LoopPhases, Visited
  <2>7. Onward /\ \A u \in Tasks \ {t} : Kept(u)
    BY <1>1, <1>3, <2>1 DEF Onward, Kept, workVars, IInv, TypeOK, Visited
  <2>8. /\ rec'[t] = y /\ pc' = pc /\ owned' = owned
    BY <1>3, <2>1 DEF IInv, TypeOK, Visited
  <2>9. TreeOwned(t)' /\ ResultKept(t)' /\ RunningSpared(t)'
    BY <1>1, <2>2, <2>3, <2>8
    DEF TaskInv, TreeOwned, Unheard, LiveTree, ResultKept, RunningSpared, workVars, Blamed
  <2>10. RecordTrue(t)'
    BY <1>1, <2>2, <2>3, <2>4, <2>8 DEF TaskInv, RecordTrue, workVars
  <2>11. BlameJust'
    <3>1. \A u \in Tasks : rec'[u].run => rec[u].run
      BY <2>1, <2>2 DEF IInv, TypeOK
    <3> QED
      BY <1>1, <3>1, ParentBlames
  <2>12. SlotsKept'
    BY <1>1, <2>8, FewerOwned
  <2> QED
    BY <2>5, <2>6, <2>7, <2>9, <2>10, <2>11, <2>12, Together DEF TaskInv
<1> QED
  BY <1>2, <1>3 DEF CancelBootstrap

\* Telling a worker to run: it is one that said READY, whose group is known, and
\* nobody has failed so far.
LEMMA DispatchKeepsIInv ==
  ASSUME IInv, NEW t \in Tasks, Dispatch(t)
  PROVE  IInv'
<1> DEFINE told == [rec[t] EXCEPT !.run = TRUE]
<1>1. /\ pc = "dispatch" /\ t \in owned /\ rec[t] \in Record
      /\ UNCHANGED <<scenario, pending, interrupted, failures, unreclaimed, workVars, outbox, late>>
      /\ first \in Tasks \cup {0} /\ (first # 0 => first <= first)
      /\ pc \notin Broken /\ pc # "unverified" /\ pc \in LoopStages
  BY DEF Dispatch, Visiting, IInv, TypeOK, Tasks, LoopStages, Broken
<1>2. CASE Settle(t, rec[t], FALSE) /\ UNCHANGED <<first, inbox>>
  <2>1. PICK x : Settled(t, rec[t], FALSE, x)
    BY <1>1, <1>2, SettleSettles DEF IInv
  <2> QED
    BY <1>1, <1>2, <2>1, VisitKeepsIInv
<1>3. CASE todo' = {} /\ UNCHANGED <<pc, owned, rec, sigVars, graceOver, first, inbox>>
  <2>1. TypeOK'
    BY <1>1, <1>3 DEF IInv, TypeOK, sigVars, workVars
  <2>2. LoopPhases'
    BY <1>1, <1>3 DEF IInv, LoopPhases
  <2>3. Onward /\ \A u \in Tasks : Kept(u)
    BY <1>1, <1>3 DEF Onward, Kept, workVars
  <2>4. TaskInv(t)'
    BY <1>1, <2>3, KeptKeeps DEF IInv
  <2>5. BlameJust' /\ SlotsKept'
    BY <1>1, <1>3, ParentBlames, FewerOwned
  <2> QED
    BY <2>1, <2>2, <2>3, <2>4, <2>5, Together
<1>4. ASSUME NEW r \in Record, NEW cancel \in BOOLEAN, NEW x, Settled(t, r, cancel, x),
             rec[t].state = "READY", ~rec[t].run, first = 0, interrupted = "none",
             r.run, r.pgid = rec[t].pgid, r.cancelled = rec[t].cancelled,
             r.started = rec[t].started, r.cleanup = rec[t].cleanup, r.channel = rec[t].channel,
             r.state # "READY" \/ r.state = rec[t].state, r.terminal = rec[t].terminal,
             inbox' = inbox \/ inbox' = [inbox EXCEPT ![t] = TRUE],
             first' = first \/ (first' = t /\ w[t] \in Over),
             cancel => w[t] \in Over
      PROVE  IInv'
  <2>1. /\ rec'[t] = x /\ Alike(x, r) /\ t \in owned' /\ t \notin pending /\ t \notin pending'
        /\ w'[t] = w[t] /\ kids'[t] = kids[t] /\ result'[t] = result[t] /\ code'[t] = code[t]
        /\ outbox'[t] = outbox[t] /\ (~cancel => x.cleanup = r.cleanup)
        /\ (pc' = pc \/ pc' = "cleanup") /\ rec' = [rec EXCEPT ![t] = x] /\ owned' = owned
    BY <1>1, <1>4 DEF Settled, workVars, IInv, TypeOK, TaskInv, TreeOwned, Unheard
  <2>2. /\ inbox' \in [Tasks -> BOOLEAN] /\ \A u \in Tasks \ {t} : inbox'[u] = inbox[u]
        /\ outbox' \in [Tasks -> {"none", "READY", "RETURNED", "RAISED"}]
        /\ first' \in Tasks \cup {0}
    BY <1>1, <1>4 DEF IInv, TypeOK
  <2>3. TypeOK'
    BY <1>1, <1>4, <2>2, TypesAfterVisit
  <2>4. LoopPhases'
    BY <1>1, <1>4, LoopAfterVisit
  <2>5. Onward /\ \A u \in Tasks \ {t} : Kept(u)
    BY <1>1, <1>4, <2>1, <2>2 DEF Onward, Kept, Broken, workVars, IInv, TypeOK
  <2>6. /\ TaskInv(t) /\ rec[t].pgid /\ w[t] \notin Unheard /\ result[t] = "none"
        /\ ~rec[t].cancelled /\ rec[t].channel # "closed"
    BY <1>1, <1>4 DEF IInv, TaskInv, RecordTrue
  <2>7. TreeOwned(t)'
    BY <2>1, <2>6 DEF TaskInv, TreeOwned, Unheard, LiveTree
  <2>8. RecordTrue(t)'
    BY <1>1, <1>4, <2>1, <2>6 DEF TaskInv, RecordTrue, Alike, Unheard
  <2>9. ResultKept(t)'
    BY <1>1, <1>4, <2>1, <2>6 DEF TaskInv, ResultKept, Alike
  <2>10. RunningSpared(t)'
    BY <1>1, <1>4, <2>1, <2>6 DEF TaskInv, RunningSpared, Alike
  <2>11. BlameJust'
    <3>1. w[t] \in Over => FailsFor(t)'
      BY <2>1, <2>6 DEF FailsFor
    <3> QED
      BY <1>1, <1>4, <3>1, ParentBlames
  <2>12. SlotsKept'
    BY <1>1, <2>1, FewerOwned
  <2> QED
    BY <2>3, <2>4, <2>5, <2>7, <2>8, <2>9, <2>10, <2>11, <2>12, Together DEF TaskInv
<1>5. CASE rec[t].state = "READY" /\ ~rec[t].run /\ ~Stopping
  <2>1. first = 0 /\ interrupted = "none"
    BY <1>5 DEF Stopping
  <2>2. /\ told \in Record /\ told.run /\ told.pgid = rec[t].pgid /\ told.cancelled = rec[t].cancelled
        /\ told.started = rec[t].started /\ told.cleanup = rec[t].cleanup
        /\ told.channel = rec[t].channel /\ told.state = rec[t].state
        /\ told.terminal = rec[t].terminal
    BY <1>1 DEF Record
  <2>3. CASE /\ Settle(t, [told EXCEPT !.state = "RUNNING"], FALSE)
             /\ inbox' = [inbox EXCEPT ![t] = TRUE] /\ UNCHANGED first
    <3> DEFINE r == [told EXCEPT !.state = "RUNNING"]
    <3>1. /\ r \in Record /\ r.run /\ r.pgid = rec[t].pgid /\ r.cancelled = rec[t].cancelled
          /\ r.started = rec[t].started /\ r.cleanup = rec[t].cleanup
          /\ r.channel = rec[t].channel /\ r.state # "READY" /\ r.terminal = rec[t].terminal
      BY <1>1 DEF Record
    <3>2. Settle(t, r, FALSE)
      BY <2>3
    <3> HIDE DEF r
    <3>3. PICK x : Settled(t, r, FALSE, x)
      BY <3>1, <3>2, SettleSettles DEF IInv
    <3> QED
      BY <1>4, <1>5, <2>1, <2>3, <3>1, <3>3
  <2>4. CASE Settle(t, told, TRUE) /\ WorkerClosed(t) /\ first' = Blame(TRUE, t) /\ UNCHANGED inbox
    <3> HIDE DEF told
    <3>1. first' = t /\ w[t] \in Over
      BY <2>1, <2>4 DEF Blame, WorkerClosed, Over
    <3>2. PICK x : Settled(t, told, TRUE, x)
      BY <2>2, <2>4, SettleSettles DEF IInv
    <3> QED
      BY <1>4, <1>5, <2>1, <2>2, <2>4, <3>1, <3>2
  <2>5. \/ Settle(t, [told EXCEPT !.state = "RUNNING"], FALSE)
           /\ inbox' = [inbox EXCEPT ![t] = TRUE] /\ UNCHANGED first
        \/ Settle(t, told, TRUE) /\ WorkerClosed(t) /\ first' = Blame(TRUE, t) /\ UNCHANGED inbox
    BY <1>5 DEF Dispatch
  <2> QED
    BY <2>3, <2>4, <2>5
<1> QED
  BY <1>2, <1>3, <1>5 DEF Dispatch

\* A task is spawned into a free slot.
LEMMA SpawnKeepsIInv ==
  ASSUME IInv, NEW t \in Tasks, Spawn(t)
  PROVE  IInv'
<1>1. /\ pc = "spawn" /\ first = 0 /\ interrupted = "none" /\ Cardinality(owned) < scenario.slots
      /\ t \in pending /\ pending' = pending \ {t} /\ owned' = owned \cup {t}
      /\ UNCHANGED <<scenario, pc, todo, interrupted, failures, unreclaimed, sigVars,
                     code, kids, result, wireVars, clockVars>>
  BY DEF Spawn, MaySpawn, Stopping
<1>2. \/ /\ rec' = [rec EXCEPT ![t].started = TRUE, ![t].channel = "open"]
         /\ w' = [w EXCEPT ![t] = "forked"] /\ first' = 0
      \/ /\ rec' = [rec EXCEPT ![t].channel = "closed"]
         /\ w' = w /\ first' = t
  BY <1>1 DEF Spawn, Blame
<1>3. /\ t \notin owned /\ w[t] = "none" /\ rec[t] = NoRecord /\ TaskInv(t)
      /\ ~kids[t] /\ result[t] = "none" /\ outbox[t] = "none" /\ ~inbox[t] /\ code[t] = "none"
  BY <1>1 DEF IInv, TaskInv, TreeOwned, Unheard, TypeOK
<1>4. \E y \in Record :
        /\ rec' = [rec EXCEPT ![t] = y] /\ y.cleanup = "no" /\ ~y.run /\ ~y.cancelled
        /\ y.state = "STARTING" /\ ~y.terminal
        /\ \/ y.started /\ y.channel = "open" /\ w' = [w EXCEPT ![t] = "forked"] /\ first' = 0
           \/ ~y.started /\ y.channel = "closed" /\ w' = w /\ first' = t
  <2>1. CASE /\ rec' = [rec EXCEPT ![t].started = TRUE, ![t].channel = "open"]
             /\ w' = [w EXCEPT ![t] = "forked"] /\ first' = 0
    <3> DEFINE y == [NoRecord EXCEPT !.started = TRUE, !.channel = "open"]
    <3>1. rec' = [rec EXCEPT ![t] = y]
      BY <1>3, <2>1 DEF IInv, TypeOK
    <3>2. /\ y \in Record /\ y.cleanup = "no" /\ ~y.run /\ ~y.cancelled /\ y.state = "STARTING"
          /\ ~y.terminal /\ y.started /\ y.channel = "open"
      BY DEF NoRecord, Record
    <3> HIDE DEF y
    <3> QED
      BY <2>1, <3>1, <3>2
  <2>2. CASE rec' = [rec EXCEPT ![t].channel = "closed"] /\ w' = w /\ first' = t
    <3> DEFINE y == [NoRecord EXCEPT !.channel = "closed"]
    <3>1. rec' = [rec EXCEPT ![t] = y]
      BY <1>3, <2>2 DEF IInv, TypeOK
    <3>2. /\ y \in Record /\ y.cleanup = "no" /\ ~y.run /\ ~y.cancelled /\ y.state = "STARTING"
          /\ ~y.terminal /\ ~y.started /\ y.channel = "closed"
      BY DEF NoRecord, Record
    <3> HIDE DEF y
    <3> QED
      BY <2>2, <3>1, <3>2
  <2> QED
    BY <1>2, <2>1, <2>2
<1>5. PICK y \in Record :
        /\ rec' = [rec EXCEPT ![t] = y] /\ y.cleanup = "no" /\ ~y.run /\ ~y.cancelled
        /\ y.state = "STARTING" /\ ~y.terminal
        /\ \/ y.started /\ y.channel = "open" /\ w' = [w EXCEPT ![t] = "forked"] /\ first' = 0
           \/ ~y.started /\ y.channel = "closed" /\ w' = w /\ first' = t
  BY <1>4
<1>6. TypeOK'
  <2>1. /\ rec' \in [Tasks -> Record] /\ first' \in Tasks \cup {0}
        /\ w' \in [Tasks -> Alive \cup {"none", "gone"}]
    BY <1>5 DEF IInv, TypeOK, Alive
  <2> QED
    BY <1>1, <2>1 DEF IInv, TypeOK, sigVars, wireVars, clockVars
<1>7. LoopPhases'
  BY <1>1 DEF IInv, LoopPhases, Broken
<1>8. Onward /\ \A u \in Tasks \ {t} : Kept(u)
  BY <1>1, <1>5 DEF Onward, Kept, Broken, wireVars, IInv, TypeOK
<1>9. TaskInv(t)'
  <2>1. /\ rec'[t] = y /\ t \in owned' /\ t \notin pending' /\ ~kids'[t] /\ result'[t] = "none"
        /\ outbox'[t] = "none" /\ ~inbox'[t] /\ code'[t] = "none" /\ pc' = "spawn"
        /\ \/ y.started /\ y.channel = "open" /\ w'[t] = "forked"
           \/ ~y.started /\ y.channel = "closed" /\ w'[t] = "none" /\ first' # 0
    <3>1. t # 0
      BY ConstantsAssumption DEF Tasks
    <3>2. rec'[t] = y /\ (w' = [w EXCEPT ![t] = "forked"] => w'[t] = "forked")
      BY <1>5 DEF IInv, TypeOK
    <3> QED
      BY <1>1, <1>3, <1>5, <3>1, <3>2 DEF wireVars
  <2>2. TreeOwned(t)'
    BY <2>1 DEF TreeOwned, Unheard
  <2>3. RecordTrue(t)'
    BY <1>5, <2>1 DEF RecordTrue
  <2>4. ResultKept(t)' /\ RunningSpared(t)'
    BY <1>5, <2>1 DEF ResultKept, RunningSpared
  <2> QED
    BY <2>2, <2>3, <2>4 DEF TaskInv
<1>10. BlameJust'
  BY <1>1, <1>3, <1>5 DEF BlameJust, FailsFor, IInv, TypeOK
<1>11. SlotsKept'
  <2>1. IsFiniteSet(Tasks)
    BY FS_Interval, ConstantsAssumption DEF Tasks
  <2>2. IsFiniteSet(owned)
    BY <2>1, FS_Subset DEF IInv, TypeOK
  <2>3. Cardinality(owned') = Cardinality(owned) + 1 /\ Cardinality(owned) \in Nat
    BY <1>1, <1>3, <2>2, FS_AddElement, FS_CardinalityType
  <2>4. scenario.slots \in Nat /\ scenario' = scenario
    BY <1>1, ConstantsAssumption DEF IInv, TypeOK, Scenario
  <2> QED
    BY <1>1, <2>3, <2>4 DEF SlotsKept
<1> QED
  BY <1>6, <1>7, <1>8, <1>9, <1>10, <1>11, Together

\* Cleanup gives up a task, cancels its tree, or signals its worker alone.
LEMMA CleanupKeepsIInv ==
  ASSUME IInv, NEW t \in Tasks, Cleanup(t)
  PROVE  IInv'
<1>1. /\ pc = "cleanup" /\ t \in owned /\ rec[t] \in Record /\ pc' = pc /\ todo' = todo \ {t}
      /\ UNCHANGED <<scenario, pending, first, interrupted, unreclaimed, workVars, inbox, outbox, late>>
      /\ first \in Tasks \cup {0} /\ (first # 0 => first <= first) /\ TaskInv(t)
  BY DEF Cleanup, Visiting, IInv, TypeOK, wireVars, Tasks
<1>2. CASE /\ NoChild(rec[t]) \/ (Exited(t) /\ ~GroupAlive(t, rec[t]))
           /\ Reclaim(t) /\ failures' = failures \ {t}
  <2>1. ~LiveTree(t)
    BY <1>1, <1>2
    DEF NoChild, Exited, GroupAlive, TaskInv, RecordTrue, TreeOwned, Unheard, LiveTree, Alive
  <2> QED
    BY <1>1, <1>2, <2>1, ReclaimKeepsIInv
<1>3. ASSUME rec' = [rec EXCEPT ![t] = Cancelled(t, rec[t])], graceOver' \in [Tasks -> BOOLEAN],
             sigVars' \in [Tasks -> Signals] \X [Tasks -> Signals],
             owned' = owned, failures' \subseteq owned
      PROVE  IInv'
  <2> DEFINE x == Cancelled(t, rec[t])
  <2>1. x \in Record /\ Alike(x, rec[t]) /\ rec'[t] = x
    BY <1>1, <1>3, CancelledAlike DEF IInv, TypeOK
  <2> HIDE DEF x
  <2>2. rec' = [rec EXCEPT ![t] = x]
    BY <1>3 DEF x
  <2>3. TypeOK'
    <3>1. rec' \in [Tasks -> Record] /\ todo' \subseteq owned'
      BY <1>1, <1>3, <2>1, <2>2 DEF IInv, TypeOK
    <3>2. leaderSig' \in [Tasks -> Signals] /\ groupSig' \in [Tasks -> Signals]
      BY <1>3 DEF sigVars
    <3> QED
      BY <1>1, <1>3, <3>1, <3>2 DEF IInv, TypeOK, workVars
  <2>4. LoopPhases'
    BY <1>1, <1>3 DEF IInv, LoopPhases, Broken
  <2>5. Onward /\ \A u \in Tasks \ {t} : Kept(u)
    BY <1>1, <1>3, <2>2 DEF Onward, Kept, workVars, IInv, TypeOK
  <2>6. TreeOwned(t)' /\ ResultKept(t)' /\ RunningSpared(t)'
    BY <1>1, <1>3, <2>1
    DEF TaskInv, TreeOwned, Unheard, LiveTree, ResultKept, RunningSpared, workVars, Blamed,
        Alike, Broken
  <2>7. RecordTrue(t)'
    BY <1>1, <1>3, <2>1 DEF TaskInv, RecordTrue, workVars, Alike
  <2>8. BlameJust'
    <3>1. \A u \in Tasks : rec'[u].run => rec[u].run
      BY <2>1, <2>2 DEF IInv, TypeOK, Alike
    <3> QED
      BY <1>1, <3>1, ParentBlames
  <2>9. SlotsKept'
    BY <1>1, <1>3, FewerOwned
  <2> QED
    BY <2>3, <2>4, <2>5, <2>6, <2>7, <2>8, <2>9, Together DEF TaskInv
<1>4. CASE CancelTree(t, rec[t]) /\ failures' = failures \ {t} /\ UNCHANGED owned
  <2>1. failures' \subseteq owned
    BY <1>4 DEF IInv, TypeOK
  <2> QED
    BY <1>1, <1>3, <1>4, <2>1, CancelTreeSettles DEF IInv
<1>5. CASE /\ rec' = [rec EXCEPT ![t] = Cancelled(t, rec[t])]
           /\ graceOver' = GraceAfter(t, rec[t])
           /\ DirectSignal(t, Cancelled(t, rec[t]))
           /\ failures' = failures \cup {t} /\ UNCHANGED owned
  <2>1. graceOver' \in [Tasks -> BOOLEAN] /\ failures' \subseteq owned
    BY <1>1, <1>5 DEF GraceAfter, IInv, TypeOK
  <2>2. sigVars' \in [Tasks -> Signals] \X [Tasks -> Signals]
    BY <1>5 DEF DirectSignal, SignalLeader, sigVars, Signals, IInv, TypeOK
  <2> QED
    BY <1>3, <1>5, <2>1, <2>2
<1> QED
  BY <1>2, <1>4, <1>5 DEF Cleanup

-----------------------------------------------------------------------------
(***************************************************************************)
(* Steps that are about no task, and those of workers and surroundings.    *)
(***************************************************************************)
LEMMA NobodyTouched ==
  ASSUME IInv, TypeOK', LoopPhases', Onward, \A u \in Tasks : Kept(u),
         UNCHANGED <<first, owned, scenario>>
  PROVE  IInv'
<1>1. ASSUME NEW u \in Tasks PROVE TaskInv(u)'
  BY KeptKeeps DEF IInv, TypeOK
<1>2. BlameJust'
  BY DEF IInv, BlameJust, FailsFor, Kept, TypeOK
<1>3. SlotsKept'
  BY FewerOwned
<1> QED
  BY <1>1, <1>2, <1>3 DEF IInv

LEMMA StagesKeepIInv ==
  ASSUME IInv, NextStage \/ NextRound \/ EndRun
  PROVE  IInv'
<1>1. /\ UNCHANGED <<owned, rec, loopVars, sigVars, workVars, wireVars, clockVars>>
      /\ pc \notin Broken
  BY DEF NextStage, NextRound, EndRun, LoopStages, Broken
<1>2. first \in Tasks \cup {0} /\ (first # 0 => first <= first)
  BY DEF IInv, TypeOK, Tasks
<1>3. /\ pc' \in LoopStages \cup Ended \cup {"spawn", "stopped", "finish", "cleanup"}
      /\ todo' \subseteq owned
  <2>1. CASE NextStage
    BY <2>1 DEF NextStage, Successor, LoopStages, IInv, TypeOK
  <2>2. CASE NextRound
    BY <2>2 DEF NextRound, LoopStages
  <2>3. CASE EndRun
    BY <2>3 DEF EndRun, Verdict, Ended, IInv, TypeOK
  <2> QED
    BY <2>1, <2>2, <2>3
<1>4. TypeOK'
  BY <1>1, <1>3
  DEF IInv, TypeOK, loopVars, sigVars, workVars, wireVars, clockVars
<1>5. LoopPhases'
  <2>1. CASE NextStage
    BY <1>1, <2>1 DEF NextStage, Successor, LoopStages, IInv, LoopPhases, loopVars, Broken
  <2>2. CASE NextRound
    BY <1>1, <2>2 DEF NextRound, IInv, LoopPhases, loopVars, Broken
  <2>3. CASE EndRun
    BY <1>1, <2>3 DEF EndRun, Verdict, IInv, LoopPhases, loopVars, Broken
  <2> QED
    BY <2>1, <2>2, <2>3
<1>6. Onward /\ \A u \in Tasks : Kept(u)
  BY <1>1, <1>2 DEF Onward, Kept, loopVars, workVars, wireVars, Broken
<1> QED
  BY <1>1, <1>4, <1>5, <1>6, NobodyTouched DEF loopVars

\* The end of a round of the cleanup: what cannot be verified is handed over.
LEMMA EndCleanupRoundKeepsIInv ==
  ASSUME IInv, EndCleanupRound
  PROVE  IInv'
<1>1. /\ UNCHANGED <<scenario, owned, pending, first, interrupted, failures, sigVars, workVars,
                     wireVars, clockVars>>
      /\ pc = "cleanup" /\ first \in Tasks \cup {0} /\ (first # 0 => first <= first)
      /\ unreclaimed = {}
  BY DEF EndCleanupRound, IInv, TypeOK, Tasks, LoopPhases
<1>2. /\ pc' \in {"cleanup", "unverified"} /\ todo' \subseteq owned /\ unreclaimed' \subseteq owned
      /\ pc' = "unverified" => owned \subseteq unreclaimed'
      /\ pc' # "unverified" => unreclaimed' = {} /\ rec' = rec
  BY <1>1 DEF EndCleanupRound
<1>3. \/ rec' = rec
      \/ pc' = "unverified"
         /\ rec' = [t \in Tasks |-> IF t \in owned THEN [rec[t] EXCEPT !.channel = "closed"]
                                                    ELSE rec[t]]
  BY DEF EndCleanupRound
<1>4. \A u \in Tasks : /\ rec'[u] \in Record /\ rec'[u].cleanup = rec[u].cleanup
                       /\ rec'[u].state = rec[u].state /\ rec'[u].run = rec[u].run
                       /\ rec'[u].pgid = rec[u].pgid /\ rec'[u].terminal = rec[u].terminal
                       /\ rec'[u].cancelled = rec[u].cancelled
                       /\ rec'[u].started = rec[u].started
                       /\ \/ rec'[u] = rec[u]
                          \/ u \in owned /\ pc' = "unverified" /\ rec'[u].channel = "closed"
  <2>1. \A u \in Tasks : rec[u] \in Record
    BY DEF IInv, TypeOK
  <2> QED
    BY <1>3, <2>1 DEF Record
<1>5. TypeOK'
  <2>1. rec' \in [Tasks -> Record]
    BY <1>3, <1>4 DEF IInv, TypeOK
  <2> QED
    BY <1>1, <1>2, <2>1 DEF IInv, TypeOK, Ended, sigVars, workVars, wireVars, clockVars
<1>6. LoopPhases'
  BY <1>1, <1>2 DEF IInv, LoopPhases, Broken
<1>7. ASSUME NEW u \in Tasks PROVE TaskInv(u)'
  <2>1. CASE rec'[u] = rec[u]
    <3>1. Onward /\ Kept(u)
      BY <1>1, <1>2, <2>1 DEF Onward, Kept, workVars, wireVars, Broken
    <3> QED
      BY <1>1, <3>1, KeptKeeps DEF IInv
  <2>2. CASE u \in owned /\ pc' = "unverified" /\ rec'[u].channel = "closed"
    <3>1. TaskInv(u)
      BY DEF IInv
    <3>2. TreeOwned(u)' /\ ResultKept(u)' /\ RunningSpared(u)'
      BY <1>1, <1>4, <2>2, <3>1
      DEF TaskInv, TreeOwned, Unheard, LiveTree, ResultKept, RunningSpared, workVars, wireVars,
          Broken
    <3>3. RecordTrue(u)'
      BY <1>1, <1>4, <2>2, <3>1 DEF TaskInv, RecordTrue, workVars, wireVars
    <3> QED
      BY <3>2, <3>3 DEF TaskInv
  <2> QED
    BY <1>4, <2>1, <2>2
<1>8. BlameJust'
  BY <1>1, <1>4 DEF IInv, BlameJust, FailsFor, workVars
<1>9. SlotsKept'
  BY <1>1, FewerOwned
<1> QED
  BY <1>5, <1>6, <1>7, <1>8, <1>9 DEF IInv

LEMMA EnvironmentKeepsIInv ==
  ASSUME IInv, Environment
  PROVE  IInv'
<1>1. /\ UNCHANGED <<scenario, todo, owned, rec, pending, first, failures, unreclaimed, sigVars,
                     workVars, wireVars>>
      /\ first \in Tasks \cup {0} /\ (first # 0 => first <= first)
      /\ pc \notin Ended
  BY DEF Environment, OnSignal, ParentKilled, StartupTimeout, GraceEnds, ClockFrame, ParentGone,
     IInv, TypeOK, Tasks
<1>2. /\ interrupted' = interrupted
         \/ (interrupted = "none" /\ interrupted' \in {"int", "term"} /\ pc' = pc)
      /\ pc' = pc \/ pc' = "killed"
  <2>1. scenario.interrupts \subseteq {"int", "term"}
    BY ConstantsAssumption DEF IInv, TypeOK, Scenario
  <2> QED
    BY <2>1 DEF Environment, OnSignal, ParentKilled, StartupTimeout, GraceEnds, ClockFrame
<1>3. late' \in [Tasks -> BOOLEAN] /\ graceOver' \in [Tasks -> BOOLEAN]
  BY DEF Environment, OnSignal, ParentKilled, StartupTimeout, GraceEnds, ClockFrame, clockVars,
     IInv, TypeOK
<1>4. TypeOK'
  BY <1>1, <1>2, <1>3 DEF IInv, TypeOK, Ended, sigVars, workVars, wireVars
<1>5. LoopPhases'
  BY <1>1, <1>2 DEF IInv, LoopPhases, Broken, Ended
<1>6. Onward /\ \A u \in Tasks : Kept(u)
  BY <1>1, <1>2 DEF Onward, Kept, workVars, wireVars, Broken, Ended
<1> QED
  BY <1>1, <1>4, <1>5, <1>6, NobodyTouched

\* A worker touches its own process, its group and its end of the channel.
LEMMA WorkerStep ==
  ASSUME IInv, NEW t \in Tasks, WorkerFrame, TypeOK', TaskInv(t)',
         \A u \in Tasks \ {t} : Kept(u), FailsFor(t) => FailsFor(t)'
  PROVE  IInv'
<1>1. /\ UNCHANGED <<pc, todo, owned, rec, loopVars, clockVars>>
      /\ first \in Tasks \cup {0} /\ (first # 0 => first <= first)
  BY DEF WorkerFrame, IInv, TypeOK, Tasks
<1>2. LoopPhases' /\ Onward
  BY <1>1 DEF IInv, LoopPhases, Onward, loopVars
<1>3. BlameJust'
  BY <1>1 DEF IInv, BlameJust, FailsFor, Kept, loopVars, TypeOK
<1>4. SlotsKept'
  BY <1>1, FewerOwned DEF loopVars
<1> QED
  BY <1>2, <1>3, <1>4, Together

LEMMA WorkerKeepsIInv ==
  ASSUME IInv, SignalsLive, NEW t \in Tasks, Worker(t)
  PROVE  IInv'
<1>w. WorkerFrame
  BY DEF Worker, Hello, TakeRun, SeeEof, GiveUp, Finish, Exit, Crash, Deliver, Fork, KidsExit,
     KidsKilled, KidsGone, Die
<1>f. UNCHANGED <<pc, todo, owned, rec, loopVars, clockVars>>
  BY <1>w DEF WorkerFrame
<1>t. TaskInv(t) /\ TypeOK /\ LoopPhases
  BY DEF IInv
<1>1. CASE Hello(t)
  <2>0. /\ w[t] = "forked" /\ UNCHANGED <<code, kids, result, inbox, leaderSig, groupSig>>
        /\ \/ w' = [w EXCEPT ![t] = "waiting"] /\ outbox' = [outbox EXCEPT ![t] = "READY"]
           \/ w' = [w EXCEPT ![t] = "closing"] /\ outbox' = outbox
    BY <1>1, <1>f, <1>t DEF Hello, TypeOK, sigVars, workVars, wireVars, loopVars
  <2>1. TypeOK'
    BY <1>f, <1>t, <2>0 DEF TypeOK, loopVars, clockVars, Alive, Signals
  <2>2. \A u \in Tasks \ {t} : Kept(u)
    BY <1>f, <1>t, <2>0 DEF Kept, TypeOK, loopVars
  <2>3. TreeOwned(t)'
    BY <1>f, <1>t, <2>0
    DEF TaskInv, TreeOwned, Unheard, RecordTrue, TypeOK, LiveTree, Alive, Over, loopVars
  <2>4. RecordTrue(t)'
    BY <1>f, <1>t, <2>0
    DEF TaskInv, TreeOwned, Unheard, RecordTrue, TypeOK, LiveTree, Alive, Over, loopVars
  <2>5. ResultKept(t)'
    BY <1>f, <1>t, <2>0
    DEF TaskInv, TreeOwned, Unheard, RecordTrue, ResultKept, TypeOK, LiveTree, Alive, Over,
        Blamed, loopVars
  <2>6. RunningSpared(t)'
    BY <1>f, <1>t, <2>0
    DEF TaskInv, TreeOwned, Unheard, RunningSpared, LiveTree, Alive, Over, TypeOK, loopVars
  <2>7. FailsFor(t) => FailsFor(t)'
    BY <1>f, <1>t, <2>0
    DEF TaskInv, TreeOwned, Unheard, RecordTrue, FailsFor, TypeOK, LiveTree, Alive, Over
  <2> QED
    BY <2>1, <2>2, <2>3, <2>4, <2>5, <2>6, <2>7, <1>w, WorkerStep DEF TaskInv
<1>2. CASE TakeRun(t)
  <2>0. /\ w[t] = "waiting" /\ inbox[t] /\ UNCHANGED <<code, kids, outbox, leaderSig, groupSig>>
        /\ w' = [w EXCEPT ![t] = "running"] /\ inbox' = [inbox EXCEPT ![t] = FALSE]
        /\ result' = [result EXCEPT ![t] = "started"]
    BY <1>2, <1>f, <1>t DEF TakeRun, TypeOK, sigVars, workVars, wireVars, loopVars
  <2>1. TypeOK'
    BY <1>f, <1>t, <2>0 DEF TypeOK, loopVars, clockVars, Alive, Signals
  <2>2. \A u \in Tasks \ {t} : Kept(u)
    BY <1>f, <1>t, <2>0 DEF Kept, TypeOK, loopVars
  <2>3. TreeOwned(t)'
    BY <1>f, <1>t, <2>0
    DEF TaskInv, TreeOwned, Unheard, RecordTrue, TypeOK, LiveTree, Alive, Over, loopVars
  <2>4. RecordTrue(t)'
    BY <1>f, <1>t, <2>0
    DEF TaskInv, TreeOwned, Unheard, RecordTrue, TypeOK, LiveTree, Alive, Over, loopVars
  <2>5. ResultKept(t)'
    BY <1>f, <1>t, <2>0
    DEF TaskInv, TreeOwned, Unheard, RecordTrue, ResultKept, TypeOK, LiveTree, Alive, Over,
        Blamed, loopVars
  <2>6. RunningSpared(t)'
    BY <1>f, <1>t, <2>0
    DEF TaskInv, TreeOwned, Unheard, RunningSpared, LiveTree, Alive, Over, TypeOK, loopVars
  <2>7. FailsFor(t) => FailsFor(t)'
    BY <1>f, <1>t, <2>0
    DEF TaskInv, TreeOwned, Unheard, RecordTrue, FailsFor, TypeOK, LiveTree, Alive, Over
  <2> QED
    BY <2>1, <2>2, <2>3, <2>4, <2>5, <2>6, <2>7, <1>w, WorkerStep DEF TaskInv
<1>3. CASE SeeEof(t) \/ GiveUp(t)
  <2>0. /\ w[t] = "waiting" /\ ~inbox[t]
        /\ UNCHANGED <<code, kids, result, inbox, outbox, leaderSig, groupSig>>
        /\ w' = [w EXCEPT ![t] = "closing"]
    BY <1>3, <1>f, <1>t DEF SeeEof, GiveUp, TypeOK, sigVars, workVars, wireVars, loopVars
  <2>1. TypeOK'
    BY <1>f, <1>t, <2>0 DEF TypeOK, loopVars, clockVars, Alive, Signals
  <2>2. \A u \in Tasks \ {t} : Kept(u)
    BY <1>f, <1>t, <2>0 DEF Kept, TypeOK, loopVars
  <2>3. TreeOwned(t)'
    BY <1>f, <1>t, <2>0
    DEF TaskInv, TreeOwned, Unheard, RecordTrue, TypeOK, LiveTree, Alive, Over, loopVars
  <2>4. RecordTrue(t)'
    BY <1>f, <1>t, <2>0
    DEF TaskInv, TreeOwned, Unheard, RecordTrue, TypeOK, LiveTree, Alive, Over, loopVars
  <2>5. ResultKept(t)'
    BY <1>f, <1>t, <2>0
    DEF TaskInv, TreeOwned, Unheard, RecordTrue, ResultKept, TypeOK, LiveTree, Alive, Over,
        Blamed, loopVars
  <2>6. RunningSpared(t)'
    BY <1>f, <1>t, <2>0
    DEF TaskInv, TreeOwned, Unheard, RunningSpared, LiveTree, Alive, Over, TypeOK, loopVars
  <2>7. FailsFor(t) => FailsFor(t)'
    BY <1>f, <1>t, <2>0
    DEF TaskInv, TreeOwned, Unheard, RecordTrue, FailsFor, TypeOK, LiveTree, Alive, Over
  <2> QED
    BY <2>1, <2>2, <2>3, <2>4, <2>5, <2>6, <2>7, <1>w, WorkerStep DEF TaskInv
<1>4. CASE Fork(t) \/ KidsExit(t) \/ KidsKilled(t)
  <2>0. /\ UNCHANGED <<w, code, result, inbox, outbox, leaderSig>>
        /\ groupSig' \in {groupSig, [groupSig EXCEPT ![t] = "none"]}
        /\ \/ w[t] = "running" /\ kids' = [kids EXCEPT ![t] = TRUE]
           \/ kids' = [kids EXCEPT ![t] = FALSE]
    BY <1>4, <1>f, <1>t
    DEF Fork, KidsExit, KidsKilled, KidsGone, TypeOK, sigVars, workVars, wireVars, loopVars
  <2>1. TypeOK'
    BY <1>f, <1>t, <2>0 DEF TypeOK, loopVars, clockVars, Alive, Signals
  <2>2. \A u \in Tasks \ {t} : Kept(u)
    BY <1>f, <1>t, <2>0 DEF Kept, TypeOK, loopVars
  <2>3. TreeOwned(t)'
    BY <1>f, <1>t, <2>0
    DEF TaskInv, TreeOwned, Unheard, RecordTrue, TypeOK, LiveTree, Alive, Over, loopVars
  <2>4. RecordTrue(t)'
    BY <1>f, <1>t, <2>0
    DEF TaskInv, TreeOwned, Unheard, RecordTrue, TypeOK, LiveTree, Alive, Over, loopVars
  <2>5. ResultKept(t)'
    BY <1>f, <1>t, <2>0
    DEF TaskInv, TreeOwned, Unheard, RecordTrue, ResultKept, TypeOK, LiveTree, Alive, Over,
        Blamed, loopVars
  <2>6. RunningSpared(t)'
    BY <1>f, <1>t, <2>0
    DEF TaskInv, TreeOwned, Unheard, RunningSpared, LiveTree, Alive, Over, TypeOK, loopVars
  <2>7. FailsFor(t) => FailsFor(t)'
    BY <1>f, <1>t, <2>0
    DEF TaskInv, TreeOwned, Unheard, RecordTrue, FailsFor, TypeOK, LiveTree, Alive, Over
  <2> QED
    BY <2>1, <2>2, <2>3, <2>4, <2>5, <2>6, <2>7, <1>w, WorkerStep DEF TaskInv
<1>5. CASE /\ w[t] = "running" /\ \E res \in {"ok", "raised"} : Report(t, res)
           /\ UNCHANGED <<code, kids, inbox, groupSig>>
           /\ leaderSig' \in {leaderSig, [leaderSig EXCEPT ![t] = "none"]}
  <2>a. t \in owned /\ rec[t].run
    BY <1>5, <1>t DEF TaskInv, TreeOwned, Unheard, RecordTrue, LiveTree, Alive
  <2>b. pc \in Broken \/ ParentEndOpen(t)
    BY <1>t, <2>a DEF ParentEndOpen, ParentGone, Ended, Broken, LoopPhases, TaskInv, RecordTrue
  <2>0. PICK res \in {"ok", "raised"} :
          /\ w[t] = "running" /\ t \in owned /\ rec[t].run
          /\ w' = [w EXCEPT ![t] = "closing"] /\ result' = [result EXCEPT ![t] = res]
          /\ UNCHANGED <<code, kids, inbox>>
          /\ \/ outbox' = [outbox EXCEPT ![t] = IF res = "ok" THEN "RETURNED" ELSE "RAISED"]
             \/ outbox' = outbox /\ pc \in Broken
    <3>1. PICK res \in {"ok", "raised"} : Report(t, res)
      BY <1>5
    <3>2. outbox' = [outbox EXCEPT ![t] = IF ~ParentEndOpen(t) THEN @
                                         ELSE IF res = "ok" THEN "RETURNED" ELSE "RAISED"]
      BY <3>1 DEF Report
    <3>3. ~ParentEndOpen(t) => outbox' = outbox
      BY <3>2, <1>t DEF TypeOK
    <3>4. ParentEndOpen(t) =>
            outbox' = [outbox EXCEPT ![t] = IF res = "ok" THEN "RETURNED" ELSE "RAISED"]
      BY <3>2
    <3>5. w' = [w EXCEPT ![t] = "closing"] /\ result' = [result EXCEPT ![t] = res]
      BY <3>1 DEF Report
    <3> QED
      BY <1>5, <2>a, <2>b, <3>3, <3>4, <3>5
  <2>1. TypeOK'
    BY <1>5, <1>f, <1>t, <2>0
    DEF IInv, TypeOK, loopVars, clockVars, sigVars, workVars, wireVars, Alive, Signals
  <2>2. \A u \in Tasks \ {t} : Kept(u)
    BY <1>f, <1>t, <2>0 DEF Kept, TypeOK, loopVars
  <2>3. TreeOwned(t)'
    BY <1>f, <1>t, <2>0
    DEF TaskInv, TreeOwned, Unheard, RecordTrue, TypeOK, LiveTree, Alive, Over, loopVars
  <2>4. RecordTrue(t)'
    BY <1>f, <1>t, <2>0
    DEF TaskInv, TreeOwned, Unheard, RecordTrue, TypeOK, LiveTree, Alive, Over, loopVars
  <2>5. ResultKept(t)'
    BY <1>f, <1>t, <2>0
    DEF TaskInv, TreeOwned, Unheard, RecordTrue, ResultKept, TypeOK, LiveTree, Alive, Over,
        Blamed,
       loopVars
  <2>6. RunningSpared(t)'
    BY <1>f, <1>t, <2>0 DEF TaskInv, RunningSpared, Over, TypeOK, loopVars
  <2>7. FailsFor(t) => FailsFor(t)'
    BY <1>f, <1>t, <2>0
    DEF TaskInv, TreeOwned, Unheard, RecordTrue, FailsFor, TypeOK, LiveTree, Alive, Over
  <2> QED
    BY <2>1, <2>2, <2>3, <2>4, <2>5, <2>6, <2>7, <1>w, WorkerStep DEF TaskInv
<1>6. CASE /\ w[t] \in Alive /\ \E c \in {"ok", "bad"} : Die(t, c)
  <2>0. PICK c \in {"ok", "bad"} :
          /\ w[t] \in Alive /\ w' = [w EXCEPT ![t] = "gone"] /\ code' = [code EXCEPT ![t] = c]
          /\ leaderSig' = [leaderSig EXCEPT ![t] = "none"] /\ UNCHANGED <<kids, result, wireVars, groupSig>>
          /\ inbox' = inbox /\ outbox' = outbox
    BY <1>6 DEF Die, wireVars
  <2>1. TypeOK'
    BY <1>6, <1>f, <1>t, <2>0
    DEF IInv, TypeOK, loopVars, clockVars, sigVars, workVars, wireVars, Alive, Signals
  <2>2. \A u \in Tasks \ {t} : Kept(u)
    BY <1>f, <1>t, <2>0 DEF Kept, TypeOK, loopVars
  <2>3. TreeOwned(t)'
    BY <1>f, <1>t, <2>0
    DEF TaskInv, TreeOwned, Unheard, RecordTrue, TypeOK, LiveTree, Alive, Over, loopVars
  <2>4. RecordTrue(t)'
    BY <1>f, <1>t, <2>0
    DEF TaskInv, TreeOwned, Unheard, RecordTrue, TypeOK, LiveTree, Alive, Over, loopVars
  <2>5. ResultKept(t)'
    BY <1>f, <1>t, <2>0
    DEF TaskInv, TreeOwned, Unheard, RecordTrue, ResultKept, TypeOK, LiveTree, Alive, Over,
        Blamed,
       loopVars
  <2>6. RunningSpared(t)'
    BY <1>f, <1>t, <2>0 DEF TaskInv, RunningSpared, Over, TypeOK, loopVars
  <2>7. FailsFor(t) => FailsFor(t)'
    BY <1>f, <1>t, <2>0
    DEF TaskInv, TreeOwned, Unheard, RecordTrue, FailsFor, TypeOK, LiveTree, Alive, Over
  <2> QED
    BY <2>1, <2>2, <2>3, <2>4, <2>5, <2>6, <2>7, <1>w, WorkerStep DEF TaskInv
<1>7. CASE /\ leaderSig' = [leaderSig EXCEPT ![t] = "none"]
           /\ UNCHANGED <<workVars, wireVars, groupSig>>
  <2>0. UNCHANGED <<w, code, kids, result, inbox, outbox, groupSig>>
    BY <1>7 DEF workVars, wireVars
  <2>1. TypeOK'
    BY <1>7, <1>f, <1>t, <2>0
    DEF IInv, TypeOK, loopVars, clockVars, sigVars, workVars, wireVars, Alive, Signals
  <2>2. \A u \in Tasks \ {t} : Kept(u)
    BY <1>f, <1>t, <2>0 DEF Kept, TypeOK, loopVars
  <2>3. TreeOwned(t)'
    BY <1>f, <1>t, <2>0
    DEF TaskInv, TreeOwned, Unheard, RecordTrue, TypeOK, LiveTree, Alive, Over, loopVars
  <2>4. RecordTrue(t)'
    BY <1>f, <1>t, <2>0
    DEF TaskInv, TreeOwned, Unheard, RecordTrue, TypeOK, LiveTree, Alive, Over, loopVars
  <2>5. ResultKept(t)'
    BY <1>f, <1>t, <2>0
    DEF TaskInv, TreeOwned, Unheard, RecordTrue, ResultKept, TypeOK, LiveTree, Alive, Over,
        Blamed,
       loopVars
  <2>6. RunningSpared(t)'
    BY <1>f, <1>t, <2>0 DEF TaskInv, RunningSpared, Over, TypeOK, loopVars
  <2>7. FailsFor(t) => FailsFor(t)'
    BY <1>f, <1>t, <2>0
    DEF TaskInv, TreeOwned, Unheard, RecordTrue, FailsFor, TypeOK, LiveTree, Alive, Over
  <2> QED
    BY <2>1, <2>2, <2>3, <2>4, <2>5, <2>6, <2>7, <1>w, WorkerStep DEF TaskInv
<1>8. CASE Deliver(t)
  <2>1. w[t] \in Alive
    BY <1>8 DEF SignalsLive, Deliver
  <2> QED
    BY <1>5, <1>6, <1>7, <1>8, <2>1 DEF Deliver
<1>9. CASE Finish(t)
  BY <1>5, <1>9 DEF Finish, sigVars
<1>10. CASE Exit(t) \/ Crash(t)
  BY <1>6, <1>10 DEF Exit, Crash, Alive
<1> QED
  BY <1>1, <1>2, <1>3, <1>4, <1>8, <1>9, <1>10 DEF Worker

LEMMA NextKeepsIInv ==
  ASSUME FullInv, [Next]_vars
  PROVE  IInv'
<1>0. IInv /\ SignalsLive
  BY DEF FullInv
<1>1. CASE Parent
  <2>1. CASE NextStage \/ NextRound \/ EndRun
    BY <1>0, <2>1, StagesKeepIInv
  <2>2. CASE EndCleanupRound
    BY <1>0, <2>2, EndCleanupRoundKeepsIInv
  <2>3. ASSUME NEW t \in Tasks,
               \/ Pump(t) \/ Reap(t) \/ CheckDeadline(t) \/ Interrupt(t)
               \/ CancelBootstrap(t) \/ Dispatch(t) \/ Spawn(t) \/ Cleanup(t)
        PROVE  IInv'
    BY <1>0, <2>3, PumpKeepsIInv, ReapKeepsIInv, CheckDeadlineKeepsIInv, InterruptKeepsIInv,
       CancelBootstrapKeepsIInv, DispatchKeepsIInv, SpawnKeepsIInv, CleanupKeepsIInv
  <2> QED
    BY <1>1, <2>1, <2>2, <2>3 DEF Parent
<1>2. CASE \E t \in Tasks : Worker(t)
  BY <1>0, <1>2, WorkerKeepsIInv
<1>3. CASE Environment
  BY <1>0, <1>3, EnvironmentKeepsIInv
<1>4. CASE UNCHANGED vars
  BY <1>0, <1>4
  DEF vars, loopVars, sigVars, workVars, wireVars, clockVars, IInv, TypeOK, LoopPhases, BlameJust,
      FailsFor, SlotsKept, TaskInv, TreeOwned, RecordTrue, ResultKept, RunningSpared, Blamed, LiveTree
<1> QED
  BY <1>1, <1>2, <1>3, <1>4 DEF Next

-----------------------------------------------------------------------------
(***************************************************************************)
(* Signals.                                                                *)
(***************************************************************************)
\* A visit of the parent signals the worker of the task it is about, if anybody.
LEMMA VisitSignals ==
  ASSUME NEW t \in Tasks,
         \/ Pump(t) \/ Reap(t) \/ CheckDeadline(t) \/ Interrupt(t)
         \/ CancelBootstrap(t) \/ Dispatch(t) \/ Cleanup(t)
  PROVE  w' = w /\ (leaderSig' = leaderSig \/ \E s : SignalLeader(t, s))
<1> DEFINE Quiet == leaderSig' = leaderSig \/ \E s : SignalLeader(t, s)
<1>1. ASSUME NEW r, CancelTree(t, r) \/ CancelFaults(t, r) PROVE Quiet
  BY <1>1 DEF CancelTree, CancelFaults, SignalTree, sigVars
<1>2. ASSUME NEW r, NEW cancel, Settle(t, r, cancel) PROVE Quiet
  BY <1>1, <1>2 DEF Settle, KeepRecord, sigVars
<1>3. ASSUME Reclaim(t) PROVE Quiet
  BY <1>3 DEF Reclaim, sigVars
<1> HIDE DEF Quiet
<1>4. CASE Pump(t)
  BY <1>2, <1>4 DEF Pump, workVars, Quiet
<1>5. CASE Reap(t)
  <2>1. w' = w
    BY <1>5 DEF Reap, workVars
  <2>2. ASSUME NEW r, KeepRecord(t, r) PROVE Quiet
    BY <2>2 DEF KeepRecord, sigVars, Quiet
  <2> QED
    BY <1>1, <1>2, <1>3, <1>5, <2>1, <2>2 DEF Reap, Quiet
<1>6. CASE CheckDeadline(t) \/ Interrupt(t)
  BY <1>2, <1>6 DEF CheckDeadline, Interrupt, workVars, Quiet
<1>7. CASE CancelBootstrap(t)
  BY <1>2, <1>7 DEF CancelBootstrap, workVars, sigVars, Quiet
<1>8. CASE Dispatch(t)
  BY <1>2, <1>8 DEF Dispatch, workVars, sigVars, Quiet
<1>9. CASE Cleanup(t)
  BY <1>1, <1>3, <1>9 DEF Cleanup, DirectSignal, workVars, Quiet
<1> QED
  BY <1>4, <1>5, <1>6, <1>7, <1>8, <1>9 DEF Quiet

LEMMA SignalsKept ==
  ASSUME FullInv, [Next]_vars
  PROVE  SignalsLive'
<1>0. TypeOK /\ SignalsLive
  BY DEF FullInv, IInv
<1>1. CASE UNCHANGED <<w, leaderSig>>
  BY <1>0, <1>1 DEF SignalsLive
<1>2. CASE Parent
  <2>1. CASE NextStage \/ NextRound \/ EndRun \/ EndCleanupRound
    BY <1>1, <2>1 DEF NextStage, NextRound, EndRun, EndCleanupRound, workVars, sigVars
  <2>2. ASSUME NEW t \in Tasks,
               \/ Pump(t) \/ Reap(t) \/ CheckDeadline(t) \/ Interrupt(t)
               \/ CancelBootstrap(t) \/ Dispatch(t) \/ Cleanup(t)
        PROVE  SignalsLive'
    <3>1. w' = w /\ (leaderSig' = leaderSig \/ \E s : SignalLeader(t, s))
      BY <2>2, VisitSignals
    <3> QED
      BY <1>0, <3>1 DEF SignalLeader, SignalsLive, TypeOK
  <2>3. ASSUME NEW t \in Tasks, Spawn(t) PROVE SignalsLive'
    <3>1. leaderSig' = leaderSig /\ (w' = [w EXCEPT ![t] = "forked"] \/ w' = w)
      BY <2>3 DEF Spawn, sigVars
    <3> QED
      BY <1>0, <3>1 DEF SignalsLive, TypeOK, Alive
  <2> QED
    BY <1>2, <2>1, <2>2, <2>3 DEF Parent
<1>3. ASSUME NEW t \in Tasks, Worker(t) PROVE SignalsLive'
  <2>1. ASSUME NEW c, Die(t, c) PROVE SignalsLive'
    <3>1. w' = [w EXCEPT ![t] = "gone"] /\ leaderSig' = [leaderSig EXCEPT ![t] = "none"]
      BY <2>1 DEF Die
    <3> QED
      BY <1>0, <3>1 DEF SignalsLive, TypeOK
  <2>2. ASSUME NEW v \in Alive, w' = [w EXCEPT ![t] = v],
               leaderSig' \in {leaderSig, [leaderSig EXCEPT ![t] = "none"]}
        PROVE  SignalsLive'
    BY <1>0, <2>2 DEF SignalsLive, TypeOK
  <2>3. CASE Hello(t) \/ TakeRun(t) \/ SeeEof(t) \/ GiveUp(t) \/ Finish(t)
    BY <2>2, <2>3 DEF Hello, TakeRun, SeeEof, GiveUp, Finish, Report, Alive, sigVars
  <2>4. CASE Fork(t) \/ KidsExit(t) \/ KidsKilled(t)
    BY <1>1, <2>4 DEF Fork, KidsExit, KidsKilled, KidsGone, sigVars
  <2>5. CASE Exit(t) \/ Crash(t)
    BY <2>1, <2>5 DEF Exit, Crash
  <2>6. CASE Deliver(t)
    <3>1. CASE w' = w /\ leaderSig' = [leaderSig EXCEPT ![t] = "none"]
      BY <1>0, <3>1 DEF SignalsLive, TypeOK
    <3>2. CASE \E c : Die(t, c)
      BY <2>1, <3>2
    <3>3. CASE Report(t, "raised") /\ leaderSig' = [leaderSig EXCEPT ![t] = "none"]
      BY <2>2, <3>3 DEF Report, Alive
    <3> QED
      BY <2>6, <3>1, <3>2, <3>3 DEF Deliver, workVars
  <2> QED
    BY <1>3, <2>3, <2>4, <2>5, <2>6 DEF Worker
<1>4. CASE Environment
  BY <1>1, <1>4 DEF Environment, OnSignal, ParentKilled, StartupTimeout, GraceEnds, ClockFrame,
     sigVars, workVars
<1>5. CASE UNCHANGED vars
  BY <1>1, <1>5 DEF vars, sigVars, workVars
<1> QED
  BY <1>2, <1>3, <1>4, <1>5 DEF Next

-----------------------------------------------------------------------------
(***************************************************************************)
(* What holds of every run.                                                *)
(***************************************************************************)
LEMMA InitSignalsLive == Init => SignalsLive
BY DEF Init, SignalsLive

LEMMA NextKeeps ==
  ASSUME FullInv, [Next]_vars
  PROVE  FullInv'
BY NextKeepsIInv, SignalsKept DEF FullInv

\* The inductive invariant holds: at every moment the records of the parent are
\* true of the workers, what lives is owned, and no result has been lost
\* (run_prof_tasks and run_prof_task).
THEOREM Invariance == Spec => []FullInv
<1>1. Init => FullInv
  BY InitIInv, InitSignalsLive DEF FullInv
<1>2. FullInv /\ [Next]_vars => FullInv'
  BY NextKeeps
<1> QED
  BY <1>1, <1>2, PTL DEF Spec

\* Every variable keeps its type, and the lists of the loop name owned tasks only.
THEOREM TypeCorrect == Spec => []TypeOK
<1>1. FullInv => TypeOK
  BY DEF FullInv, IInv
<1> QED
  BY <1>1, Invariance, PTL

\* No more process trees live than the plan has slots: a slot is given up only
\* when the tree of its task is gone (_reclaim and the reservation in _reap_exited).
THEOREM Slots == Spec => []SlotsBoundTrees
<1>1. ASSUME FullInv PROVE SlotsBoundTrees
  <2> DEFINE Live == {t \in Tasks : LiveTree(t)}
  <2>1. Live \subseteq owned
    BY <1>1 DEF FullInv, IInv, TaskInv, TreeOwned
  <2>2. IsFiniteSet(owned)
    <3>1. IsFiniteSet(Tasks)
      BY FS_Interval, ConstantsAssumption DEF Tasks
    <3> QED
      BY <1>1, <3>1, FS_Subset DEF FullInv, IInv, TypeOK
  <2>3. /\ Cardinality(Live) <= Cardinality(owned)
        /\ Cardinality(Live) \in Nat /\ Cardinality(owned) \in Nat
    BY <2>1, <2>2, FS_Subset, FS_CardinalityType
  <2>4. Cardinality(owned) <= scenario.slots /\ scenario.slots \in Nat
    BY <1>1, ConstantsAssumption DEF FullInv, IInv, SlotsKept, TypeOK, Scenario
  <2> QED
    BY <2>3, <2>4 DEF SlotsBoundTrees
<1> QED
  BY <1>1, Invariance, PTL

\* A run that ends by itself leaves no process of a task behind, except of tasks it
\* hands over as unverifiable (_cancel_all_owned).
THEOREM NothingLeft == Spec => []NothingLeftBehind
<1>1. ASSUME FullInv PROVE NothingLeftBehind
  <2> SUFFICES ASSUME pc \in Ended \ {"killed"}, NEW t \in Tasks \ unreclaimed
               PROVE  ~LiveTree(t)
    BY DEF NothingLeftBehind
  <2>1. t \notin owned
    BY <1>1 DEF FullInv, IInv, LoopPhases, Ended
  <2> QED
    BY <1>1, <2>1 DEF FullInv, IInv, TaskInv, TreeOwned
<1> QED
  BY <1>1, Invariance, PTL

\* A run returns only when every task has: a crash, a lost message or a timeout is
\* never taken for success (_run_parallel raises first_exception).
THEOREM Success == Spec => []SuccessMeansAllReturned
<1>1. ASSUME FullInv PROVE SuccessMeansAllReturned
  <2> SUFFICES ASSUME pc = "returned", NEW t \in Tasks
               PROVE  result[t] = "ok" /\ ~LiveTree(t)
    BY DEF SuccessMeansAllReturned
  <2>1. first = 0 /\ interrupted = "none" /\ owned = {} /\ pending = {} /\ pc \notin Broken
    BY <1>1 DEF FullInv, IInv, LoopPhases, Broken
  <2> QED
    BY <1>1, <2>1 DEF FullInv, IInv, TaskInv, TreeOwned, ResultKept
<1> QED
  BY <1>1, Invariance, PTL

\* The exception raised is of a task that failed, and no exception of a task with a
\* smaller task_id was sent and passed over (_record_failure).
THEOREM FirstFailure == Spec => []FirstFailureReported
<1>1. ASSUME FullInv PROVE FirstFailureReported
  <2> SUFFICES ASSUME pc = "raised"
               PROVE  /\ first # 0 /\ (result[first] = "ok" => code[first] = "bad")
                      /\ \A t \in Tasks : result[t] = "raised" => first <= t
    BY DEF FirstFailureReported
  <2>1. first # 0 /\ owned = {} /\ pc \notin Broken
    BY <1>1 DEF FullInv, IInv, LoopPhases, Broken
  <2>2. result[first] = "ok" => code[first] = "bad"
    BY <1>1, <2>1 DEF FullInv, IInv, BlameJust, FailsFor
  <2>3. ASSUME NEW t \in Tasks, result[t] = "raised" PROVE first <= t
    <3>1. t \notin pending
      BY <1>1, <2>3 DEF FullInv, IInv, TaskInv, TreeOwned, Unheard
    <3> QED
      BY <1>1, <2>1, <2>3, <3>1 DEF FullInv, IInv, TaskInv, ResultKept, Blamed
  <2> QED
    BY <2>1, <2>2, <2>3
<1> QED
  BY <1>1, Invariance, PTL

-----------------------------------------------------------------------------
(***************************************************************************)
(* One failure does not spread.                                            *)
(***************************************************************************)
\* Keeping a record without cancelling its tree signals nobody.
LEMMA KeptUnsignalled ==
  ASSUME NEW t, NEW r, Settle(t, r, FALSE)
  PROVE  leaderSig' = leaderSig
BY DEF Settle, KeepRecord, sigVars

\* Without an interrupt or a broken probe, no visit signals a running worker.
LEMMA RunningUnsignalled ==
  ASSUME FullInv, NEW t \in Tasks,
         \/ Pump(t) \/ Reap(t) \/ CheckDeadline(t) \/ Interrupt(t)
         \/ CancelBootstrap(t) \/ Dispatch(t) \/ Cleanup(t),
         w[t] = "running", interrupted = "none", pc # "cleanup"
  PROVE  leaderSig' = leaderSig
<1>1. /\ t \in owned /\ rec[t] \in Record /\ rec[t].run /\ rec[t].pgid /\ rec[t].channel # "eof"
      /\ rec[t].started /\ outbox[t] # "RAISED"
      /\ ~WorkerClosed(t) /\ ~Exited(t)
  <2>1. IInv /\ TaskInv(t) /\ TypeOK
    BY DEF FullInv, IInv
  <2>2. t \in owned
    BY <2>1 DEF TaskInv, TreeOwned, LiveTree, Alive
  <2> QED
    BY <2>1, <2>2 DEF TaskInv, RecordTrue, ResultKept, Over, WorkerClosed, Exited, TypeOK
<1>2. CASE Pump(t)
  <2>1. CASE ~Open(t)
    BY <1>2, <2>1, KeptUnsignalled DEF Pump
  <2>2. CASE Open(t)
    <3> DEFINE r == NoteEof(t, Handled(rec[t], outbox[t]))
               failed == outbox[t] = "RAISED" \/ LostBeforeTerminal(r)
    <3>1. Settle(t, r, failed)
      BY <1>2, <2>2 DEF Pump
    <3>2. r.channel = rec[t].channel
      <4>1. outbox[t] \in {"none", "READY", "RETURNED", "RAISED"}
        BY DEF FullInv, IInv, TypeOK
      <4>2. /\ Handled(rec[t], outbox[t]) \in Record
            /\ Handled(rec[t], outbox[t]).channel = rec[t].channel
        BY <1>1, <4>1, HandledFacts
      <4> QED
        BY <1>1, <4>2, NoteEofFacts
    <3>3. failed = FALSE
      BY <1>1, <3>2 DEF LostBeforeTerminal
    <3> QED
      BY <3>1, <3>3, KeptUnsignalled
  <2> QED
    BY <2>1, <2>2
<1>3. CASE Reap(t)
  <2>1. Settle(t, rec[t], FALSE)
    BY <1>1, <1>3 DEF Reap, NoChild
  <2> QED
    BY <2>1, KeptUnsignalled
<1>4. CASE CheckDeadline(t)
  <2>1. rec[t].cleanup = "no" /\ ~TooLate(t)
    <3>1. TaskInv(t) /\ pc \notin Broken
      BY <1>4 DEF CheckDeadline, Visiting, FullInv, IInv, Broken
    <3> QED
      BY <1>1, <3>1 DEF TaskInv, RunningSpared, TooLate, Over
  <2>2. (rec[t].cleanup # "no" \/ TooLate(t)) = FALSE
    BY <2>1
  <2>3. Settle(t, rec[t], rec[t].cleanup # "no" \/ TooLate(t))
    BY <1>4 DEF CheckDeadline
  <2> QED
    BY <2>2, <2>3, KeptUnsignalled
<1>5. ~Interrupt(t) /\ ~Cleanup(t)
  BY DEF Interrupt, Cleanup, Visiting, FullInv, IInv, LoopPhases
<1>6. CASE CancelBootstrap(t)
  <2>1. Settle(t, rec[t], ~Spared(t) /\ Overdue(t))
    BY <1>1, <1>6 DEF CancelBootstrap, Spared
  <2>2. (~Spared(t) /\ Overdue(t)) = FALSE
    BY <1>1 DEF Spared
  <2> QED
    BY <2>1, <2>2, KeptUnsignalled
<1>7. CASE Dispatch(t)
  <2>1. Settle(t, rec[t], FALSE)
    BY <1>1, <1>7 DEF Dispatch
  <2> QED
    BY <2>1, KeptUnsignalled
<1> QED
  BY <1>2, <1>3, <1>4, <1>5, <1>6, <1>7

\* Who is blamed has not been cancelled, or was late before that.
LEMMA BlamedWithCause ==
  ASSUME FullInv, NEW t \in Tasks,
         \/ Pump(t) \/ Reap(t) \/ CheckDeadline(t) \/ Dispatch(t) \/ Spawn(t),
         first' # first
  PROVE  first' = t /\ (~rec[t].cancelled \/ late[t])
<1>1. /\ TaskInv(t) /\ TypeOK /\ LoopPhases /\ rec[t] \in Record
      /\ outbox[t] \in {"none", "READY", "RETURNED", "RAISED"}
  BY DEF FullInv, IInv, TypeOK
<1>2. ASSUME t \in owned, Open(t) PROVE ~rec[t].cancelled
  BY <1>1, <1>2 DEF TaskInv, RecordTrue, Open
<1>3. ASSUME NEW failed \in BOOLEAN, first' = Blame(failed, t) PROVE failed /\ first' = t
  BY <1>3 DEF Blame
<1>4. CASE Pump(t)
  <2>1. Open(t) /\ t \in owned
    BY <1>1, <1>4 DEF Pump, Visiting, TypeOK
  <2>2. first' = t
    BY <1>4, <2>1 DEF Pump, Blame
  <2> QED
    BY <1>2, <2>1, <2>2
<1>5. CASE Reap(t)
  <2>1. t \in owned
    BY <1>1, <1>5 DEF Reap, Visiting, TypeOK
  <2> DEFINE m == IF Open(t) THEN outbox[t] ELSE "none"
             r == IF m = "READY" THEN rec[t] ELSE Handled(rec[t], m)
             failed == m \in {"READY", "RAISED"} \/ Abnormal(t, r)
  <2>2. first' = Blame(failed, t)
    BY <1>5 DEF Reap
  <2>3. failed /\ first' = t
    BY <1>3, <2>2 DEF Abnormal
  <2>4. r.cancelled = rec[t].cancelled
    BY <1>1, HandledFacts
  <2> HIDE DEF r
  <2>5. CASE m \in {"READY", "RAISED"}
    BY <1>2, <2>1, <2>3, <2>5
  <2>6. CASE Abnormal(t, r)
    BY <2>3, <2>4, <2>6 DEF Abnormal
  <2> QED
    BY <2>3, <2>5, <2>6
<1>6. CASE CheckDeadline(t)
  BY <1>3, <1>6 DEF CheckDeadline, TooLate
<1>7. CASE Dispatch(t)
  <2>1. first' = t /\ first = 0 /\ t \in owned
    BY <1>1, <1>7 DEF Dispatch, Stopping, Blame, Visiting, TypeOK
  <2> QED
    BY <1>1, <2>1 DEF TaskInv, RecordTrue
<1>8. CASE Spawn(t)
  <2>1. first' = t /\ t \in pending
    BY <1>1, <1>8 DEF Spawn, Blame
  <2> QED
    BY <1>1, <2>1 DEF TaskInv, TreeOwned, NoRecord
<1> QED
  BY <1>4, <1>5, <1>6, <1>7, <1>8

\* One failure does not spread: what runs is signalled only for an interrupt or a
\* broken probe (_cancel_bootstrap_tasks spares it), and what was cancelled is blamed
\* only when it was late anyway (_reap_exited).
THEOREM NoSpread == Spec => FailureDoesNotSpread
<1> DEFINE Spares ==
      /\ \A t \in Tasks : w[t] = "running" /\ leaderSig[t] = "none" /\ leaderSig'[t] # "none"
                            => interrupted # "none" \/ pc = "cleanup"
      /\ first' # first => ~rec[first'].cancelled \/ late[first']
<1>1. ASSUME FullInv, [Next]_vars PROVE [Spares]_vars
  <2>0. TypeOK
    BY <1>1 DEF FullInv, IInv
  <2>1. CASE UNCHANGED <<leaderSig, first>>
    BY <2>1
  <2>2. CASE Parent
    <3>1. CASE NextStage \/ NextRound \/ EndRun \/ EndCleanupRound
      BY <2>1, <3>1 DEF NextStage, NextRound, EndRun, EndCleanupRound, loopVars, sigVars
    <3>2. ASSUME NEW t \in Tasks, Spawn(t) PROVE Spares
      BY <1>1, <3>2, BlamedWithCause DEF Spawn, sigVars
    <3>3. ASSUME NEW t \in Tasks,
                 \/ Pump(t) \/ Reap(t) \/ CheckDeadline(t) \/ Interrupt(t)
                 \/ CancelBootstrap(t) \/ Dispatch(t) \/ Cleanup(t)
          PROVE  Spares
      <4>1. leaderSig' = leaderSig \/ \E s : SignalLeader(t, s)
        BY <3>3, VisitSignals
      <4>2. \A u \in Tasks \ {t} : leaderSig'[u] = leaderSig[u]
        BY <2>0, <4>1 DEF SignalLeader, TypeOK
      <4>3. ASSUME w[t] = "running", interrupted = "none", pc # "cleanup"
            PROVE  leaderSig' = leaderSig
        BY <1>1, <3>3, <4>3, RunningUnsignalled
      <4>4. ASSUME first' # first PROVE ~rec[first'].cancelled \/ late[first']
        <5>1. Pump(t) \/ Reap(t) \/ CheckDeadline(t) \/ Dispatch(t)
          BY <3>3, <4>4 DEF Interrupt, CancelBootstrap, Cleanup, loopVars
        <5> QED
          BY <1>1, <4>4, <5>1, BlamedWithCause
      <4>5. ASSUME NEW u \in Tasks, w[u] = "running", leaderSig[u] = "none", leaderSig'[u] # "none"
            PROVE  interrupted # "none" \/ pc = "cleanup"
        BY <4>2, <4>3, <4>5
      <4> QED
        BY <4>4, <4>5
    <3> QED
      BY <2>2, <3>1, <3>2, <3>3 DEF Parent
  <2>3. ASSUME NEW t \in Tasks, Worker(t) PROVE Spares
    <3>1. first' = first
      BY <2>3 DEF Worker, Hello, TakeRun, SeeEof, GiveUp, Finish, Exit, Crash, Deliver, Fork,
         KidsExit, KidsKilled, KidsGone, Die, WorkerFrame, loopVars
    <3>2. leaderSig' \in {leaderSig, [leaderSig EXCEPT ![t] = "none"]}
      BY <2>3 DEF Worker, Hello, TakeRun, SeeEof, GiveUp, Finish, Exit, Crash, Deliver, Fork,
         KidsExit, KidsKilled, KidsGone, Die, sigVars
    <3>3. ASSUME NEW u \in Tasks, leaderSig[u] = "none" PROVE leaderSig'[u] = "none"
      BY <2>0, <3>2, <3>3 DEF TypeOK
    <3> QED
      BY <3>1, <3>3
  <2>4. CASE Environment
    BY <2>1, <2>4 DEF Environment, OnSignal, ParentKilled, StartupTimeout, GraceEnds, ClockFrame,
       sigVars
  <2>5. CASE UNCHANGED vars
    BY <2>1, <2>5 DEF vars, loopVars, sigVars
  <2> QED
    BY <1>1, <2>2, <2>3, <2>4, <2>5 DEF Next
<1>2. Spec => [][Spares]_vars
  BY <1>1, Invariance, PTL DEF Spec
<1> QED
  BY <1>2 DEF FailureDoesNotSpread
=============================================================================
