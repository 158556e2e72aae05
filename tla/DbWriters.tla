------------------------------- MODULE DbWriters -------------------------------
(***************************************************************************)
(* The database writers of DeliverableConsumer                             *)
(* (analysis/csrc/application/deliverable_consumer.cpp and .h, the end of  *)
(* a run in pipeline/unified_pipeline.cpp).  Savers run at the same time   *)
(* and hand their inserts to RunDb, which finds or starts the thread that  *)
(* writes one database and waits for its answer; CloseAllDb stops and      *)
(* joins the threads.                                                      *)
(*                                                                         *)
(* A saver has one call under way, so that a job is named by its saver.    *)
(* dbMu is held over several steps by CloseAllDb alone: it is held while   *)
(* main # "out".  A row stands for one batch of DB_INSERT_BATCH rows.      *)
(***************************************************************************)
EXTENDS Naturals, SequencesExt

CONSTANTS
  Savers,
  Paths,     \* database files
  Calls,     \* the calls of each saver: a sequence of [db, batches]; an index has none
  Modes      \* [overlap, faults]: whether CloseAllDb may run while savers are in
             \* their calls, and what may go wrong, of FaultKinds

FaultKinds == {"thread", "job", "commit"}

ASSUME ConstantsAssumption ==
  /\ Calls \in [Savers -> Seq([db: Paths, batches: Nat])]
  /\ Modes \subseteq [overlap: BOOLEAN, faults: SUBSET FaultKinds]

Finishes == 2   \* DeliverableScope::Finish by ExecuteTopoGraph and by its destructor
Answers == {"saved", "failed", "refused", "threw"}

VARIABLES
  mode,     \* chosen in Init
  dbs,      \* impl_->dbs: the writer of a path, 0 for none
  writers,  \* every DbState ever made, with its thread
  pc,       \* where a saver is in RunDb
  to,       \* the writer it has got from EnsureDb
  promise,  \* what its future holds
  answers,  \* what its calls have returned
  db,       \* the rows of a database
  lost,     \* rows of transactions whose COMMIT failed
  ok,       \* impl_->ok
  main,     \* where CloseAllDb is
  toJoin,   \* states it has still to join, and the one it is at
  joining,
  closes    \* calls of CloseAllDb that have returned

saverVars == <<pc, to, promise, answers>>
mainVars == <<main, toJoin, joining, closes>>
dataVars == <<db, lost, ok>>
vars == <<mode, dbs, writers, saverVars, dataVars, mainVars>>

Turn(s) == Len(answers[s]) + 1
Call(s) == Calls[s][Turn(s)]
AllSaved == \A s \in Savers : pc[s] = "out" /\ Turn(s) > Len(Calls[s])
\* Mutant: CloseAllDb gives dbMu up before it joins.
DbMuNeverHeld == TRUE
DbMuFree == main = "out"

NewWriter(p) ==
  [db |-> p, jobs |-> << >>, stop |-> FALSE, at |-> "check",
   job |-> << >>, batch |-> 0, done |-> FALSE]

Init ==
  /\ mode \in Modes
  /\ dbs = [p \in Paths |-> 0] /\ writers = << >>
  /\ pc = [s \in Savers |-> "out"] /\ to = [s \in Savers |-> 0]
  /\ promise = [s \in Savers |-> "none"] /\ answers = [s \in Savers |-> << >>]
  /\ db = [p \in Paths |-> << >>] /\ lost = {} /\ ok = TRUE
  /\ main = "out" /\ toJoin = {} /\ joining = 0 /\ closes = 0

------------------------------------------------------------------------------
(* RunDb, on the threads of the savers. *)

\* The future and the state it has fetched go with the call.
Answer(s, a) ==
  /\ answers' = [answers EXCEPT ![s] = Append(@, a)]
  /\ pc' = [pc EXCEPT ![s] = "out"]
  /\ to' = [to EXCEPT ![s] = 0]
  /\ promise' = [promise EXCEPT ![s] = "none"]

\* A run of the pipeline ends its processes before it finishes the consumer.
MayCall(s) == pc[s] = "out" /\ Turn(s) <= Len(Calls[s]) /\ (mode.overlap \/ closes = 0)

EnsureDb(s) ==
  /\ MayCall(s) /\ DbMuFree
  /\ LET p == Call(s).db
         new == Len(writers) + 1
     IN  \/ /\ dbs[p] # 0
            /\ to' = [to EXCEPT ![s] = dbs[p]]
            /\ pc' = [pc EXCEPT ![s] = "push"]
            /\ UNCHANGED <<dbs, writers, promise, answers>>
         \/ /\ dbs[p] = 0
            /\ writers' = Append(writers, NewWriter(p))
            /\ dbs' = [dbs EXCEPT ![p] = new]
            /\ to' = [to EXCEPT ![s] = new]
            /\ pc' = [pc EXCEPT ![s] = "push"]
            /\ UNCHANGED <<promise, answers>>
         \/ /\ dbs[p] = 0 /\ "thread" \in mode.faults
            /\ Answer(s, "threw")
            /\ UNCHANGED <<dbs, writers>>
  /\ UNCHANGED <<mode, dataVars, mainVars>>

\* Mutant: RunDb does not look at stop.
PushAlways(s) ==
  /\ pc[s] = "push"
  /\ writers' = [writers EXCEPT ![to[s]].jobs = Append(@, s)]
  /\ pc' = [pc EXCEPT ![s] = "notify"]
  /\ UNCHANGED <<mode, dbs, to, promise, answers, dataVars, mainVars>>

Push(s) ==
  /\ pc[s] = "push"
  /\ \/ /\ writers[to[s]].stop
        /\ Answer(s, "refused")
        /\ UNCHANGED writers
     \/ /\ ~writers[to[s]].stop
        /\ writers' = [writers EXCEPT ![to[s]].jobs = Append(@, s)]
        /\ pc' = [pc EXCEPT ![s] = "notify"]
        /\ UNCHANGED <<to, promise, answers>>
  /\ UNCHANGED <<mode, dbs, dataVars, mainVars>>

Woken(i) == [writers EXCEPT ![i].at = IF @ = "sleep" THEN "check" ELSE @]

NotifyOne(s) ==
  /\ pc[s] = "notify"
  /\ writers' = Woken(to[s])
  /\ pc' = [pc EXCEPT ![s] = "get"]
  /\ UNCHANGED <<mode, dbs, to, promise, answers, dataVars, mainVars>>

Get(s) ==
  /\ pc[s] = "get" /\ promise[s] # "none"
  /\ Answer(s, promise[s])
  /\ UNCHANGED <<mode, dbs, writers, dataVars, mainVars>>

RunDb(s) == EnsureDb(s) \/ Push(s) \/ NotifyOne(s) \/ Get(s)

------------------------------------------------------------------------------
(* DbLoop, on the thread of a writer; at tells where it is. *)

\* Mutant: a stopped writer leaves although it has jobs.
FetchUnlessStopped(i) ==
  /\ writers[i].at = "check"
  /\ LET w == writers[i]
     IN  writers' = [writers EXCEPT ![i] =
           IF w.stop \/ w.jobs = << >>
           THEN [w EXCEPT !.at = IF w.stop THEN "gone" ELSE "sleep"]
           ELSE [w EXCEPT !.at = "run", !.jobs = Tail(w.jobs), !.job = <<Head(w.jobs)>>]]
  /\ UNCHANGED <<mode, dbs, saverVars, dataVars, mainVars>>

\* The lock section: take a job, leave, or sleep on the condition variable.
Fetch(i) ==
  /\ writers[i].at = "check"
  /\ LET w == writers[i]
     IN  writers' = [writers EXCEPT ![i] =
           IF w.jobs # << >>
           THEN [w EXCEPT !.at = "run", !.jobs = Tail(w.jobs), !.job = <<Head(w.jobs)>>]
           ELSE [w EXCEPT !.at = IF w.stop THEN "gone" ELSE "sleep"]]
  /\ UNCHANGED <<mode, dbs, saverVars, dataVars, mainVars>>

Job(i) == writers[i].job[1]
\* Mutant: the function returns after a batch.
OneBatchOnly(i) == writers[i].batch < Call(Job(i)).batches /\ writers[i].batch = 0
MoreBatches(i) == writers[i].batch < Call(Job(i)).batches

\* InsertRows inserts batch by batch, each in a transaction of its own; the
\* result of its COMMIT is not looked at.
InsertBatch(i) ==
  /\ writers[i].at = "run" /\ MoreBatches(i)
  /\ LET row == [saver |-> Job(i), call |-> Turn(Job(i)), batch |-> writers[i].batch + 1]
     IN  \/ /\ db' = [db EXCEPT ![writers[i].db] = Append(@, row)]
            /\ UNCHANGED lost
         \/ /\ "commit" \in mode.faults
            /\ lost' = lost \cup {row}
            /\ UNCHANGED db
  /\ writers' = [writers EXCEPT ![i].batch = @ + 1]
  /\ UNCHANGED <<mode, dbs, saverVars, ok, mainVars>>

\* Mutant: a failed job does not clear ok.
EndJobQuietly(i) ==
  /\ writers[i].at = "run"
  /\ \E success \in BOOLEAN :
       /\ IF success THEN ~MoreBatches(i) ELSE "job" \in mode.faults
       /\ writers' = [writers EXCEPT ![i].at = "answer", ![i].done = success]
  /\ UNCHANGED <<mode, dbs, saverVars, dataVars, mainVars>>

\* The job is through, or its table, index or a batch fails, or it throws.
EndJob(i) ==
  /\ writers[i].at = "run"
  /\ \E success \in BOOLEAN :
       /\ IF success THEN ~MoreBatches(i) ELSE "job" \in mode.faults
       /\ ok' = (ok /\ success)
       /\ writers' = [writers EXCEPT ![i].at = "answer", ![i].done = success]
  /\ UNCHANGED <<mode, dbs, saverVars, db, lost, mainVars>>

SetValue(i) ==
  /\ writers[i].at = "answer"
  /\ promise' = [promise EXCEPT ![Job(i)] = IF writers[i].done THEN "saved" ELSE "failed"]
  /\ writers' = [writers EXCEPT ![i].at = "check", ![i].job = << >>,
                                  ![i].batch = 0, ![i].done = FALSE]
  /\ UNCHANGED <<mode, dbs, pc, to, answers, dataVars, mainVars>>

DbLoop(i) == Fetch(i) \/ InsertBatch(i) \/ EndJob(i) \/ SetValue(i)

------------------------------------------------------------------------------
(* CloseAllDb, by the main thread. *)

MayClose == closes < Finishes /\ (mode.overlap \/ AllSaved)

CloseAllDb ==
  /\ main = "out" /\ MayClose
  /\ toJoin' = {dbs[p] : p \in Paths} \ {0}
  /\ dbs' = [p \in Paths |-> 0]
  /\ main' = "next"
  /\ UNCHANGED <<mode, writers, saverVars, dataVars, joining, closes>>

Stop ==
  /\ main = "next"
  /\ \E i \in toJoin :
       /\ writers' = [writers EXCEPT ![i].stop = TRUE]
       /\ joining' = i
  /\ main' = "notify"
  /\ UNCHANGED <<mode, dbs, saverVars, dataVars, toJoin, closes>>

NotifyAll ==
  /\ main = "notify"
  /\ writers' = Woken(joining)
  /\ main' = "join"
  /\ UNCHANGED <<mode, dbs, saverVars, dataVars, toJoin, joining, closes>>

Join ==
  /\ main = "join" /\ writers[joining].at = "gone"
  /\ toJoin' = toJoin \ {joining} /\ joining' = 0
  /\ main' = "next"
  /\ UNCHANGED <<mode, dbs, writers, saverVars, dataVars, closes>>

Closed ==
  /\ main = "next" /\ toJoin = {}
  /\ main' = "out" /\ closes' = closes + 1
  /\ UNCHANGED <<mode, dbs, writers, saverVars, dataVars, toJoin, joining>>

Finish == Stop \/ NotifyAll \/ Join \/ Closed

------------------------------------------------------------------------------
Done == AllSaved /\ closes = Finishes /\ UNCHANGED vars

Next ==
  \/ \E s \in Savers : RunDb(s)
  \/ \E i \in DOMAIN writers : DbLoop(i)
  \/ CloseAllDb \/ Finish \/ Done

\* The threads run, savers make their calls and DeliverableScope its own, and an
\* insert ends.  Each does finitely many steps, so that fairness of a disjunction
\* is fairness of every part.
Fairness ==
  /\ \A s \in Savers : WF_vars(RunDb(s))
  /\ WF_vars(\E i \in DOMAIN writers : DbLoop(i))
  /\ WF_vars(CloseAllDb \/ Finish)

Spec == Init /\ [][Next]_vars
FairSpec == Spec /\ Fairness

------------------------------------------------------------------------------
(* Properties. *)

WriterType ==
  [db: Paths, jobs: Seq(Savers), stop: BOOLEAN,
   at: {"check", "sleep", "run", "answer", "gone"},
   job: Seq(Savers), batch: Nat, done: BOOLEAN]
Row == [saver: Savers, call: Nat, batch: Nat]

\* Every variable has its type.
Types ==
  /\ mode \in Modes /\ ok \in BOOLEAN
  /\ writers \in Seq(WriterType)
  /\ dbs \in [Paths -> 0..Len(writers)]
  /\ pc \in [Savers -> {"out", "push", "notify", "get"}]
  /\ to \in [Savers -> 0..Len(writers)]
  /\ promise \in [Savers -> {"none", "saved", "failed"}]
  /\ answers \in [Savers -> Seq(Answers)]
  /\ db \in [Paths -> Seq(Row)] /\ lost \subseteq Row
  /\ main \in {"out", "next", "notify", "join"}
  /\ toJoin \subseteq 1..Len(writers) /\ joining \in 0..Len(writers)
  /\ closes \in Nat

\* A database has one writer thread at a time, also while CloseAllDb joins the
\* old one and savers come for a new one (the comment in CloseAllDb).
Live(i) == writers[i].at # "gone"
OneWriter ==
  \A i, j \in DOMAIN writers :
    Live(i) /\ Live(j) /\ writers[i].db = writers[j].db => i = j

\* A job that RunDb has accepted is carried out, however late the stop came: no
\* thread leaves a job behind, and a saver that waits for one has its answer or
\* will have it.
NoneDropped ==
  \A i \in DOMAIN writers :
    ~Live(i) => /\ writers[i].jobs = << >>
                /\ \A s \in Savers : pc[s] \in {"notify", "get"} /\ to[s] = i
                                       => promise[s] # "none"

\* Rows of one call stand together in the database, in order, and a call that
\* returned true has all of them there, those apart whose COMMIT failed.
Stands(s, k) ==
  LET p == Calls[s][k].db
      mine == {n \in DOMAIN db[p] : db[p][n].saver = s /\ db[p][n].call = k}
  IN  /\ \A m, n \in mine : m < n => /\ m..n \subseteq mine
                                     /\ db[p][m].batch < db[p][n].batch
      /\ k \in DOMAIN answers[s] /\ answers[s][k] = "saved" =>
           \A b \in 1..Calls[s][k].batches :
             LET row == [saver |-> s, call |-> k, batch |-> b]
             IN  row \in lost \/ \E n \in mine : db[p][n] = row
RowsStand == \A s \in Savers : \A k \in DOMAIN Calls[s] : Stands(s, k)

\* What a saver learns of a failed job, the verdict of the run knows already:
\* the saver may go on to the end of the run before anything else happens.
FailureInVerdict ==
  \A s \in Savers : ("failed" \in ToSet(answers[s])
                     \/ (pc[s] = "get" /\ promise[s] = "failed")) => ~ok

\* No saver waits forever for its answer and no close for a thread, not even
\* when they overlap.
Termination == <>(AllSaved /\ closes = Finishes)
=============================================================================
