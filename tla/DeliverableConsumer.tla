------------------------- MODULE DeliverableConsumer -------------------------
(***************************************************************************)
(* Delivery of timelines (JSON) and tables (CSV)                           *)
(* (analysis/csrc/application/deliverable_consumer.cpp, json_event_sink.h, *)
(* json_assembler.cpp, summary_assembler.h).  Assemblers run at the same   *)
(* time; several may feed one JSON file, each CSV file has one.  They only *)
(* queue operations on a stream; a drain, a task of the writer pool,       *)
(* carries them out.                                                       *)
(*                                                                         *)
(* A file is the sequence of the tokens in it, a token being <<what, n>>.  *)
(* A write counts one against the cap of a queue, whatever its size.       *)
(***************************************************************************)
EXTENDS Integers, FiniteSets, SequencesExt

CONSTANTS
  Sinks,      \* JSON assemblers
  JsonFiles,
  Targets,    \* the files of each sink (prefixes_), a sequence
  Batches,    \* event batches of a sink, the last of them the rest at Flush
  Tables,     \* CSV assemblers, each with its base path
  Jobs,       \* [rows, hint] a table may have, hint being totalHint
  Casts,      \* [who, jobs, faults]: the assemblers a run may have, the jobs of its
              \* tables, and what may go wrong, of FaultKinds
  Limit,      \* CSV_LIMIT
  FlushAt,    \* kCsvFlushBytes, in tokens
  Cap,        \* kIoQueueCap
  Threads     \* threads of the writer pool

FaultKinds ==
  {"spill", "replay", "write", "throw", "rename", "add", "assemble", "start", "threads"}

ASSUME ConstantsAssumption ==
  /\ Targets \in [Sinks -> Seq(JsonFiles)]
  /\ \A a \in Sinks : IsInjective(Targets[a])
  /\ \A j \in Jobs : {j.rows, j.hint} \subseteq Nat
  /\ \E most \in {j.rows : j \in Jobs} \cup {0} : \A j \in Jobs : j.rows <= most
  /\ \A c \in Casts : c.who \subseteq Sinks \cup Tables /\ c.jobs \subseteq Jobs
                    /\ c.faults \subseteq FaultKinds
  /\ {Batches, Limit, FlushAt, Cap} \subseteq Nat \ {0}

Assemblers == Sinks \cup Tables
Main == "main"
Actors == Assemblers \cup {Main}
Streams == JsonFiles \cup Tables
Drainers == Threads \cup Actors
NoStream == "none"

Marks == {"stale", "header", "[", ",", "]"}  \* tokens that are no event and no row

\* Names that stand for different things are different.
ASSUME NamesApart ==
  /\ NoStream \notin Streams /\ Threads \cap Actors = {} /\ Main \notin Assemblers
  /\ Sinks \cap Tables = {} /\ JsonFiles \cap Tables = {} /\ Marks \cap Assemblers = {}
  /\ JsonFiles \cap {"wait", "done"} = {}

MaxSlice == 1 + (CHOOSE m \in {j.rows : j \in Jobs} \cup {0} :
                   \A j \in Jobs : j.rows <= m) \div Limit
Whole(s) == <<s, -1>>                        \* the path of a file not cut in slices
Slice(t, i) == <<t, i>>
Names == {Whole(s) : s \in Streams} \cup (Tables \X (0..MaxSlice))
Stale == << <<"stale", 0>> >>                \* left by an earlier export

VARIABLES
  faults,    \* what may go wrong in the run; never changes
  pool,      \* impl_->pool is set
  alive,     \* its threads
  alone,     \* EnsurePool has returned no pool to the actor, which drains itself
  pc,        \* where an actor is
  out,       \* operations the actor has still to queue
  posting,   \* stream the actor has marked scheduled and must hand to the pool
  made,      \* batches a sink has assembled
  spilled,   \* bodies in the spill file of a sink
  disabled,  \* spillDisabled_
  synced,    \* files of a sink that SyncJson has waited for
  csv,       \* the CsvStream of a table, its io apart
  verdict,   \* what an assembler or the run returned
  queue, scheduled, opened,                  \* the ByteStream of a stream
  tasks,     \* the queue of the writer pool
  at,        \* stream a thread (or actor, without a pool) drains
  hand,      \* the operation it has popped, a sequence of at most one
  files,
  ok,        \* impl_->ok
  left       \* JSON files FinishTimeline has still to finish

sinkVars == <<made, spilled, disabled, synced>>
actorVars == <<pc, out, posting, csv, verdict, left, sinkVars>>
streamVars == <<queue, scheduled, opened>>
drainVars == <<faults, pool, alive, alone, tasks, at, hand>>
vars == <<actorVars, streamVars, drainVars, files, ok>>

NewCsv(j) ==
  [job |-> j, next |-> 1, started |-> FALSE, sliceMode |-> FALSE, sliceIndex |-> 0,
   rowsInSlice |-> 0, buffer |-> << >>, path |-> Whole(NoStream)]

\* The first k threads: they are made one after the other.
FirstOf(k) == CHOOSE T \in SUBSET Threads : Cardinality(T) = k
SomeThreads == {T \in SUBSET Threads : T # Threads /\ T = FirstOf(Cardinality(T))}

\* The consumer outlives a run: the pool may be there, as an earlier run or
\* BeginTimeline has left it.
PoolAtStart ==
  \/ pool = FALSE /\ alive = {}
  \/ pool = TRUE /\ alive = Threads
  \/ "threads" \in faults /\ pool = TRUE /\ alive \in SomeThreads

Init ==
  /\ \E c \in Casts :
       /\ pc = [p \in Actors |-> IF p = Main THEN "wait"
                                ELSE IF p \in c.who THEN "assemble" ELSE "done"]
       /\ faults = c.faults
       /\ \E js \in [Tables -> c.jobs] : csv = [t \in Tables |-> NewCsv(js[t])]
  /\ out = [p \in Actors |-> << >>] /\ posting = [p \in Actors |-> NoStream]
  /\ made = [a \in Sinks |-> 0] /\ spilled = [a \in Sinks |-> << >>]
  /\ disabled = [a \in Sinks |-> FALSE] /\ synced = [a \in Sinks |-> 0]
  /\ verdict = [p \in Actors |-> "none"]
  /\ queue = [s \in Streams |-> << >>] /\ scheduled = [s \in Streams |-> FALSE]
  /\ opened = [s \in Streams |-> FALSE]
  /\ PoolAtStart /\ alone = [p \in Actors |-> FALSE]
  /\ tasks = << >> /\ at = [d \in Drainers |-> NoStream] /\ hand = [d \in Drainers |-> << >>]
  /\ files = [n \in Names |-> Stale]
  /\ ok = TRUE /\ left = JsonFiles

-----------------------------------------------------------------------------
\* Streams.

Write(file, data) == [kind |-> "write", file |-> file, to |-> file, data |-> data]
Rename(from, to) == [kind |-> "rename", file |-> from, to |-> to, data |-> << >>]
\* What an actor has to queue: an operation for a stream, with its JSON prefix
\* still to be chosen or not, from a spill file or not.
Entry(s, op, prefix, replayed) ==
  [stream |-> s, op |-> op, prefix |-> prefix, replayed |-> replayed]

QueuedBytes(s) == Cardinality({k \in DOMAIN queue[s] : queue[s][k].kind = "write"})
AnyRoom(s) == TRUE                           \* mutant: no back-pressure
HasRoom(s) == QueuedBytes(s) < Cap
AlwaysSchedule(s) == TRUE                    \* mutant: a second drain of the stream
MustSchedule(s) == ~scheduled[s]
QueueEmpty(s) == queue[s] = << >>            \* mutant: the last operation under way
Drained(s) == queue[s] = << >> /\ ~scheduled[s]
Free(p) == posting[p] = NoStream /\ at[p] = NoStream

\* The stream is given up: nothing is queued any more, and the run has failed.
Dropped(s) ==
  /\ queue' = [queue EXCEPT ![s] = << >>]
  /\ scheduled' = [scheduled EXCEPT ![s] = FALSE]
KeepsSchedule(s) ==                          \* mutant: Wait never returns
  /\ ok' = FALSE
  /\ queue' = [queue EXCEPT ![s] = << >>] /\ UNCHANGED scheduled
KeepsQueue(s) ==                             \* mutant: operations nobody carries out
  /\ ok' = FALSE
  /\ scheduled' = [scheduled EXCEPT ![s] = FALSE] /\ UNCHANGED queue
KeepsOk(s) == Dropped(s) /\ UNCHANGED ok     \* mutant: a lost write goes unseen
FailStream(s) == Dropped(s) /\ ok' = FALSE

\* EnsurePool, the first thing Enqueue and AppendJsonBody do: make a pool unless
\* there is one.  If its Start returns false the caller gets none, and the next
\* caller tries again.
EnsurePool(p) ==
  /\ Free(p) /\ out[p] # << >> /\ ~pool /\ ~alone[p]
  /\ \/ pool' = TRUE /\ alive' = Threads /\ UNCHANGED alone
     \/ "start" \in faults /\ alone' = [alone EXCEPT ![p] = TRUE] /\ UNCHANGED <<pool, alive>>
  /\ UNCHANGED <<actorVars, streamVars, faults, tasks, at, hand, files, ok>>

\* The same when a thread cannot be made: Start throws with the pool already set,
\* which keeps the threads it has.  The exception ends the assembler, whose process
\* has failed; that of ExecuteTopoGraph ends in its handler, after which
\* ~DeliverableScope runs FinishTimeline from the beginning.
StartThrows(p) ==
  /\ Free(p) /\ out[p] # << >> /\ ~pool /\ ~alone[p] /\ "threads" \in faults
  /\ pool' = TRUE
  /\ alive' \in SomeThreads
  /\ out' = [out EXCEPT ![p] = << >>]
  /\ pc' = [pc EXCEPT ![p] = IF p = Main THEN "wait" ELSE "done"]
  /\ verdict' = [verdict EXCEPT ![p] = "failed"]
  /\ left' = IF p = Main THEN JsonFiles ELSE left
  /\ LET e == Head(out[p])
     IN  files' = IF e.prefix /\ ~opened[e.stream]
                  THEN [files EXCEPT ![Whole(e.stream)] = << >>] ELSE files
  /\ UNCHANGED <<posting, csv, sinkVars, streamVars, faults, alone, tasks, at, hand, ok>>

\* Enqueue and AppendJsonBody, with a pool or without: the first use of a JSON stream deletes the file of
\* an earlier export and opens the array.
Enqueue(p) ==
  /\ Free(p) /\ out[p] # << >> /\ (pool \/ alone[p])
  /\ LET e == Head(out[p])
         s == e.stream
         first == e.prefix /\ ~opened[s]
         op == IF e.prefix
               THEN [e.op EXCEPT !.data = << <<IF first THEN "[" ELSE ",", 0>> >> \o @]
               ELSE e.op
     IN  /\ HasRoom(s)
         /\ queue' = [queue EXCEPT ![s] = Append(@, op)]
         /\ opened' = [opened EXCEPT ![s] = @ \/ e.prefix]
         /\ files' = IF first THEN [files EXCEPT ![Whole(s)] = << >>] ELSE files
         /\ scheduled' = [scheduled EXCEPT ![s] = TRUE]
         /\ posting' = [posting EXCEPT ![p] = IF MustSchedule(s) THEN s ELSE @]
         /\ alone' = [alone EXCEPT ![p] = @ /\ MustSchedule(s)]
  /\ out' = [out EXCEPT ![p] = Tail(@)]
  /\ UNCHANGED <<pc, csv, verdict, left, sinkVars, faults, pool, alive, tasks, at, hand, ok>>

\* The drain goes to the pool or, without one, is run by the caller.  AddTask may
\* throw.
Schedule(p) ==
  /\ posting[p] # NoStream
  /\ posting' = [posting EXCEPT ![p] = NoStream] /\ alone' = [alone EXCEPT ![p] = FALSE]
  /\ \/ /\ ~alone[p]
        /\ tasks' = Append(tasks, posting[p])
        /\ UNCHANGED <<at, queue, scheduled, ok>>
     \/ /\ alone[p]
        /\ at' = [at EXCEPT ![p] = posting[p]]
        /\ UNCHANGED <<tasks, queue, scheduled, ok>>
     \/ /\ "add" \in faults /\ ~alone[p]
        /\ FailStream(posting[p])
        /\ UNCHANGED <<tasks, at>>
  /\ UNCHANGED <<pc, out, csv, verdict, left, sinkVars, opened, faults, pool, alive, hand, files>>

\* A thread of the pool takes up the drain of a stream.
Fetch(d) ==
  /\ d \in Threads \cap alive /\ at[d] = NoStream /\ tasks # << >>
  /\ at' = [at EXCEPT ![d] = Head(tasks)]
  /\ tasks' = Tail(tasks)
  /\ UNCHANGED <<actorVars, streamVars, faults, pool, alive, alone, hand, files, ok>>

\* Drain: pop the next operation, or end when there is none.
Pop(d) ==
  /\ at[d] # NoStream /\ hand[d] = << >>
  /\ LET s == at[d]
     IN  \/ /\ queue[s] = << >>
            /\ scheduled' = [scheduled EXCEPT ![s] = FALSE]
            /\ at' = [at EXCEPT ![d] = NoStream]
            /\ UNCHANGED <<queue, hand>>
         \/ /\ queue[s] # << >>
            /\ hand' = [hand EXCEPT ![d] = <<Head(queue[s])>>]
            /\ queue' = [queue EXCEPT ![s] = Tail(@)]
            /\ UNCHANGED <<scheduled, at>>
  /\ UNCHANGED <<actorVars, opened, faults, pool, alive, alone, tasks, files, ok>>

\* Drain: carry it out.  A failure is noted and the drain goes on; an exception
\* gives up the stream.
Perform(d) ==
  /\ hand[d] # << >>
  /\ hand' = [hand EXCEPT ![d] = << >>]
  /\ LET op == Head(hand[d])
     IN  \/ /\ op.kind = "write"
            /\ files' = [files EXCEPT ![op.file] = @ \o op.data]
            /\ UNCHANGED <<queue, scheduled, at, ok>>
         \/ /\ op.kind = "rename"
            /\ files' = [files EXCEPT ![op.to] = files[op.file], ![op.file] = << >>]
            /\ UNCHANGED <<queue, scheduled, at, ok>>
         \/ /\ op.kind \in faults
            /\ ok' = FALSE
            /\ UNCHANGED <<queue, scheduled, at, files>>
         \/ /\ op.kind = "write" /\ "throw" \in faults
            /\ FailStream(at[d])
            /\ at' = [at EXCEPT ![d] = NoStream]
            /\ UNCHANGED files
  /\ UNCHANGED <<actorVars, opened, faults, pool, alive, alone, tasks>>

Drain(d) == Fetch(d) \/ Pop(d) \/ Perform(d)

-----------------------------------------------------------------------------
\* Timelines: JsonEventSink and JsonAssembler.

Body(a, i) == << <<a, i>> >>
ToAll(a, body, replayed) ==
  [k \in 1..Len(Targets[a]) |->
     Entry(Targets[a][k], Write(Whole(Targets[a][k]), body), TRUE, replayed)]
Replay(a, bodies) == FlattenSeq([k \in 1..Len(bodies) |-> ToAll(a, bodies[k], TRUE)])
Rest(a, i) == ToAll(a, Body(a, i), FALSE)
RestFirst(a, i) == Rest(a, i) \o Replay(a, spilled[a])   \* mutant: the spill comes last
ReplayThenRest(a, i) == Replay(a, spilled[a]) \o Rest(a, i)
Idle(p) == Free(p) /\ out[p] = << >>

\* push_back has a full batch: spill it, or publish what is spilled and the batch.
PushBatch(a) ==
  /\ pc[a] = "assemble" /\ Idle(a) /\ made[a] + 1 < Batches
  /\ made' = [made EXCEPT ![a] = @ + 1]
  /\ \/ /\ ~disabled[a]
        /\ spilled' = [spilled EXCEPT ![a] = Append(@, Body(a, made'[a]))]
        /\ UNCHANGED <<out, disabled>>
     \/ /\ disabled[a] \/ "spill" \in faults
        /\ disabled' = [disabled EXCEPT ![a] = TRUE]
        /\ out' = [out EXCEPT ![a] = ReplayThenRest(a, made'[a])]
        /\ spilled' = [spilled EXCEPT ![a] = << >>]
  /\ UNCHANGED <<pc, posting, synced, csv, verdict, left, streamVars, drainVars, files, ok>>

\* The next record of the spill file cannot be read back: the rest of it is lost.
ReplayBreaks(a) ==
  /\ "replay" \in faults /\ Free(a) /\ ~alone[a] /\ out[a] # << >> /\ Head(out[a]).replayed
  /\ Head(out[a]).stream = Targets[a][1]
  /\ \E n \in 1..Len(out[a]) :
       /\ \A k \in 1..n : out[a][k].replayed
       /\ n < Len(out[a]) => ~out[a][n + 1].replayed
       /\ out' = [out EXCEPT ![a] = SubSeq(@, n + 1, Len(@))]
  /\ ok' = FALSE
  /\ UNCHANGED <<pc, posting, csv, verdict, left, sinkVars, streamVars, drainVars, files>>

\* AssembleData succeeds: Flush.  The rest joins what is spilled, or is published
\* after it; there may be none.  AssembleData fails or has no data: Discard.
Flush(a) ==
  /\ pc[a] = "assemble" /\ Idle(a)
  /\ \/ /\ spilled[a] = << >> \/ "spill" \in faults
        /\ made' = [made EXCEPT ![a] = @ + 1]
        /\ out' = [out EXCEPT ![a] = ReplayThenRest(a, made'[a])]
     \/ /\ spilled[a] # << >>
        /\ made' = [made EXCEPT ![a] = @ + 1]
        /\ out' = [out EXCEPT ![a] = Replay(a, Append(spilled[a], Body(a, made'[a])))]
     \/ /\ out' = [out EXCEPT ![a] = Replay(a, spilled[a])]
        /\ UNCHANGED made
  /\ spilled' = [spilled EXCEPT ![a] = << >>]
  /\ pc' = [pc EXCEPT ![a] = "sync"]
  /\ UNCHANGED <<posting, synced, csv, verdict, left, disabled, streamVars, drainVars,
                 files, ok>>
Discard(a) ==
  /\ "assemble" \in faults /\ pc[a] = "assemble" /\ Idle(a)
  /\ spilled' = [spilled EXCEPT ![a] = << >>]
  /\ pc' = [pc EXCEPT ![a] = "done"]
  /\ verdict' = [verdict EXCEPT ![a] = "discarded"]
  /\ UNCHANGED <<out, posting, made, synced, csv, left, disabled, streamVars, drainVars,
                 files, ok>>

\* Sync waits for the sink's files one after the other; then the assembler reports
\* how delivery stands.
Sync(a) ==
  /\ pc[a] = "sync" /\ Idle(a) /\ synced[a] < Len(Targets[a])
  /\ Drained(Targets[a][synced[a] + 1])
  /\ synced' = [synced EXCEPT ![a] = @ + 1]
  /\ UNCHANGED <<pc, out, posting, csv, verdict, left, made, spilled, disabled, streamVars,
                 drainVars, files, ok>>
Report(a) ==
  /\ pc[a] = "sync" /\ Idle(a) /\ synced[a] = Len(Targets[a])
  /\ pc' = [pc EXCEPT ![a] = "done"]
  /\ verdict' = [verdict EXCEPT ![a] = IF ok THEN "ok" ELSE "failed"]
  /\ UNCHANGED <<out, posting, csv, left, sinkVars, streamVars, drainVars, files, ok>>

Sink(a) == PushBatch(a) \/ ReplayBreaks(a) \/ Flush(a) \/ Discard(a) \/ Sync(a) \/ Report(a)

-----------------------------------------------------------------------------
\* Tables: StartCsv, AppendCsv row by row, FinishCsv.

Header == << <<"header", 0>> >>
Row(t, i) == << <<t, i>> >>
CsvEntry(t, op) == Entry(t, op, FALSE, FALSE)
FlushBuffer(t, c) ==
  IF c.buffer = << >> THEN << >> ELSE <<CsvEntry(t, Write(c.path, c.buffer))>>

StartCsv(t) ==
  /\ pc[t] = "assemble" /\ Drained(t)
  /\ files' = [n \in Names |-> IF n[1] = t THEN << >> ELSE files[n]]
  /\ pc' = [pc EXCEPT ![t] = "rows"]
  /\ UNCHANGED <<out, posting, csv, verdict, left, sinkVars, streamVars, drainVars, ok>>

\* The stream before the next row: a first slice, or one more when the last one
\* is full.  The first file turns out to be a slice when a second is needed.
FullAfter(c) == c.rowsInSlice > Limit        \* mutant: one row too many
Full(c) == c.rowsInSlice = Limit
Opening(t, c) ==
  LET sliced == c.job.hint > Limit
  IN  [c EXCEPT !.sliceMode = sliced, !.buffer = Header, !.started = TRUE,
                !.path = IF sliced THEN Slice(t, 0) ELSE Whole(t)]
NextSlice(t, c) ==
  LET i == IF c.sliceMode THEN c.sliceIndex + 1 ELSE 1
  IN  [c EXCEPT !.sliceMode = TRUE, !.sliceIndex = i, !.path = Slice(t, i),
                !.buffer = Header, !.rowsInSlice = 0]
RenameFirst(t, c) ==                         \* mutant: renamed before it is complete
  (IF c.sliceMode THEN << >> ELSE <<CsvEntry(t, Rename(c.path, Slice(t, 0)))>>)
  \o FlushBuffer(t, c)
Completing(t, c) ==
  FlushBuffer(t, c)
  \o (IF c.sliceMode THEN << >> ELSE <<CsvEntry(t, Rename(c.path, Slice(t, 0)))>>)

AppendRow(t) ==
  /\ pc[t] = "rows" /\ Idle(t) /\ csv[t].next <= csv[t].job.rows
  /\ LET c == csv[t]
         before == IF ~c.started THEN Opening(t, c)
                   ELSE IF Full(c) THEN NextSlice(t, c) ELSE c
         after == [before EXCEPT !.buffer = @ \o Row(t, c.next), !.next = @ + 1,
                                 !.rowsInSlice = @ + 1]
         full == Len(after.buffer) >= FlushAt
     IN  /\ csv' = [csv EXCEPT ![t] = IF full THEN [after EXCEPT !.buffer = << >>] ELSE after]
         /\ out' = [out EXCEPT ![t] =
                      (IF c.started /\ Full(c) THEN Completing(t, c) ELSE << >>)
                      \o (IF full THEN FlushBuffer(t, after) ELSE << >>)]
  /\ UNCHANGED <<pc, posting, verdict, left, sinkVars, streamVars, drainVars, files, ok>>

\* FinishCsv, and what SummaryAssembler::Run reports.
FinishCsv(t) ==
  /\ pc[t] = "rows" /\ Idle(t) /\ csv[t].next > csv[t].job.rows
  /\ out' = [out EXCEPT ![t] = FlushBuffer(t, csv[t])]
  /\ csv' = [csv EXCEPT ![t].buffer = << >>]
  /\ pc' = [pc EXCEPT ![t] = "sync"]
  /\ UNCHANGED <<posting, verdict, left, sinkVars, streamVars, drainVars, files, ok>>
EndCsv(t) ==
  /\ pc[t] = "sync" /\ Idle(t) /\ Drained(t)
  /\ pc' = [pc EXCEPT ![t] = "done"]
  /\ verdict' = [verdict EXCEPT ![t] = IF ok THEN "ok" ELSE "failed"]
  /\ UNCHANGED <<out, posting, csv, left, sinkVars, streamVars, drainVars, files, ok>>

\* AssembleData ends by an exception in between: FinishCsv is never called.
Abandon(t) ==
  /\ "assemble" \in faults /\ pc[t] = "rows" /\ Idle(t)
  /\ pc' = [pc EXCEPT ![t] = "done"]
  /\ verdict' = [verdict EXCEPT ![t] = "failed"]
  /\ UNCHANGED <<out, posting, csv, left, sinkVars, streamVars, drainVars, files, ok>>

Table(t) == StartCsv(t) \/ AppendRow(t) \/ FinishCsv(t) \/ EndCsv(t) \/ Abandon(t)

-----------------------------------------------------------------------------
\* ExecuteTopoGraph, once the assemblers are through: FinishTimeline.

FinishStream(f) ==
  /\ pc[Main] = "wait" /\ \A a \in Assemblers : pc[a] = "done"
  /\ f \in left
  /\ pc' = [pc EXCEPT ![Main] = f]
  /\ out' = [out EXCEPT ![Main] =
               IF opened[f] THEN <<Entry(f, Write(Whole(f), << <<"]", 0>> >>), FALSE, FALSE)>>
               ELSE << >>]
  /\ UNCHANGED <<posting, csv, verdict, left, sinkVars, streamVars, drainVars, files, ok>>
StreamFinished(f) ==
  /\ pc[Main] = f /\ Idle(Main) /\ Drained(f)
  /\ pc' = [pc EXCEPT ![Main] = "wait"]
  /\ left' = left \ {f}
  /\ UNCHANGED <<out, posting, csv, verdict, sinkVars, streamVars, drainVars, files, ok>>
Return ==
  /\ pc[Main] = "wait" /\ left = {} /\ \A a \in Assemblers : pc[a] = "done"
  /\ pc' = [pc EXCEPT ![Main] = "done"]
  /\ verdict' = [verdict EXCEPT ![Main] = IF ok /\ @ = "none" THEN "ok" ELSE "failed"]
  /\ UNCHANGED <<out, posting, csv, left, sinkVars, streamVars, drainVars, files, ok>>

Finisher == Return \/ \E f \in JsonFiles : FinishStream(f) \/ StreamFinished(f)

\* What any thread that queues operations does on the way.
Caller(p) == EnsurePool(p) \/ StartThrows(p) \/ Enqueue(p) \/ Schedule(p) \/ Drain(p)
Next ==
  \/ \E p \in Actors : Caller(p)
  \/ \E d \in Threads : Drain(d)
  \/ \E a \in Sinks : Sink(a)
  \/ \E t \in Tables : Table(t)
  \/ Finisher

\* Nothing repeats for ever, so that all a run needs is that the program does not
\* stop while one of its threads can move.
Spec == Init /\ [][Next]_vars
FairSpec == Spec /\ WF_vars(Next)

-----------------------------------------------------------------------------
Tokens == Assemblers \cup Marks
FileType == Seq(Tokens \X Nat)
OpType == [kind : {"write", "rename"}, file : Names, to : Names, data : FileType]
EntryType == [stream : Streams, op : OpType, prefix : BOOLEAN, replayed : BOOLEAN]
CsvType ==
  [job : Jobs, next : Nat, started : BOOLEAN, sliceMode : BOOLEAN, sliceIndex : 0..MaxSlice,
   rowsInSlice : Nat, buffer : FileType, path : Names \cup {Whole(NoStream)}]

\* The values every variable may take; no operation waits in a queue that nobody
\* is going to drain, and no queue is over its cap (kIoQueueCap), however many
\* assemblers feed it.
TypeOK ==
  /\ pc \in [Actors -> {"assemble", "rows", "sync", "done", "wait"} \cup JsonFiles]
  /\ out \in [Actors -> Seq(EntryType)] /\ csv \in [Tables -> CsvType]
  /\ posting \in [Actors -> Streams \cup {NoStream}]
  /\ made \in [Sinks -> 0..Batches] /\ disabled \in [Sinks -> BOOLEAN]
  /\ spilled \in [Sinks -> Seq(FileType)] /\ synced \in [Sinks -> Nat]
  /\ verdict \in [Actors -> {"none", "ok", "failed", "discarded"}]
  /\ queue \in [Streams -> Seq(OpType)]
  /\ scheduled \in [Streams -> BOOLEAN] /\ opened \in [Streams -> BOOLEAN]
  /\ \A s \in Streams : (queue[s] # << >> => scheduled[s]) /\ QueuedBytes(s) <= Cap
  /\ faults \subseteq FaultKinds /\ pool \in BOOLEAN /\ alive \subseteq Threads /\ alone \in [Actors -> BOOLEAN]
  /\ tasks \in Seq(Streams) /\ at \in [Drainers -> Streams \cup {NoStream}]
  /\ hand \in [Drainers -> Seq(OpType)]
  /\ files \in [Names -> FileType] /\ ok \in BOOLEAN /\ left \subseteq JsonFiles

\* The numbers of the tokens of one kind in a file, which are in ascending order.
Of(what, file) == {file[k][2] : k \in {i \in DOMAIN file : file[i][1] = what}}
Ascending(what, file) ==
  \A i, j \in DOMAIN file : i < j /\ file[i][1] = what /\ file[j][1] = what
                               => file[i][2] < file[j][2]

\* Every drain of a stream that is under way or has been asked for.
DrainsOf(s) == Cardinality({d \in Drainers : at[d] = s})
             + Cardinality({k \in 1..Len(tasks) : tasks[k] = s})
             + Cardinality({p \in Actors : posting[p] = s})

\* A stream has one drain at a time, also after a stream was given up: two would
\* write one file in any order (ioScheduled).
OneDrain == \A s \in Streams : DrainsOf(s) <= 1

\* Whatever fails, the events of an assembler are in its files in their order and
\* at most once, those spilled first before those published directly
\* (PublishDirect).
EventsInOrder == \A a \in Sinks : \A f \in JsonFiles : Ascending(a, files[Whole(f)])

\* An assembler that reports success has everything it made on disk, although
\* writers, other assemblers of the file and failures of others go on around it
\* (JsonAssembler::Run after Sync).
SuccessMeansWritten ==
  \A a \in Sinks : verdict[a] = "ok" =>
    \A f \in Range(Targets[a]) : Of(a, files[Whole(f)]) = 1..made[a]

\* A JSON file is one array with its events separated.
WellFormed(f) ==
  LET x == files[Whole(f)]
  IN  /\ Len(x) % 2 = 1 /\ x[1][1] = "[" /\ x[Len(x)][1] = "]"
      /\ \A k \in 2..(Len(x) - 1) : IF k % 2 = 1 THEN x[k][1] = "," ELSE x[k][1] \in Sinks

\* When the run reports success every timeline written is one well-formed array,
\* and an assembler that discarded its events is absent from it unless its spill
\* had failed (Discard).
TimelinesWhenOk ==
  verdict[Main] = "ok" =>
    \A f \in JsonFiles :
      /\ opened[f] => WellFormed(f)
      /\ \A a \in Sinks : verdict[a] = "discarded" /\ ~disabled[a]
                            => Of(a, files[Whole(f)]) = {}

\* A slice of a table that has `rows` rows: the header and at most CSV_LIMIT rows.
Part(t, i, rows) ==
  Header \o [k \in 1..(IF rows < (i + 1) * Limit THEN rows - i * Limit ELSE Limit)
               |-> <<t, i * Limit + k>>]

\* A table that was delivered (SummaryAssembler::Run after FinishCsv) is on disk
\* with every row once and in order, as one file or, if its rows or what was announced
\* exceed CSV_LIMIT, as slices 0, 1, ..., each with the header and none empty, nothing
\* of it is left from an earlier export, and there is no file at all without rows.
TablesWhenOk ==
  \A t \in Tables : verdict[t] = "ok" =>
    LET rows == csv[t].job.rows
        whole == rows <= Limit /\ csv[t].job.hint <= Limit
    IN  \A n \in Names : n[1] = t =>
          files[n] = IF n = Whole(t) THEN IF whole /\ rows > 0 THEN Part(t, 0, rows) ELSE << >>
                     ELSE IF ~whole /\ n[2] * Limit < rows THEN Part(t, n[2], rows) ELSE << >>

\* The run returns, whatever fails: no waiter is left behind by a stream that was
\* given up (Drain and Enqueue call FailStream for it), nor by a pool that could not
\* start or has but some of its threads.  Only a pool that was left without any
\* thread (EnsurePool keeps it when Start throws at the first) holds it up for ever.
Termination == <>(pc[Main] = "done" \/ (pool /\ alive = {}))

\* Every file write is carried out before the run returns, "including when
\* execution or diagnostics throw" (the comment on DeliverableScope).
DrainedOnReturn == pc[Main] = "done" => \A s \in Streams : Drained(s)
=============================================================================
