---------------------------- MODULE DbWritersProofs ----------------------------
(***************************************************************************)
(* Theorems about DbWriters, for every number of savers, databases and     *)
(* calls, with closes that overlap with calls or not.                      *)
(***************************************************************************)
EXTENDS DbWriters, SequenceTheorems, TLAPS

Places == {"check", "sleep", "run", "answer", "gone"}

-----------------------------------------------------------------------------
(***************************************************************************)
(* The inductive invariant.                                                *)
(***************************************************************************)
\* The map names a writer that has not been told to stop; a writer that still
\* lives is in the map or about to be joined, and while some are, the map is empty.
Registered ==
  /\ \A p \in Paths : dbs[p] # 0 =>
       writers[dbs[p]].db = p /\ Live(dbs[p]) /\ ~writers[dbs[p]].stop
  /\ \A i \in 1..Len(writers) : Live(i) => dbs[writers[i].db] = i \/ i \in toJoin
  /\ \A i, j \in toJoin : writers[i].db = writers[j].db => i = j
  /\ IF main = "out" THEN toJoin = {} ELSE \A p \in Paths : dbs[p] = 0
  /\ main \in {"notify", "join"} => joining \in toJoin

\* A writer holds a job exactly while it runs or answers it, and leaves only when
\* told to stop and with nothing to do.
Holding ==
  \A i \in 1..Len(writers) :
    LET w == writers[i]
    IN  /\ IF w.at \in {"run", "answer"} THEN Len(w.job) = 1 ELSE w.job = << >>
        /\ w.at = "gone" => w.stop /\ w.jobs = << >>

\* A saver that waits has its answer, or its job is queued or under way.
Pending(s, i) ==
  (\E n \in 1..Len(writers[i].jobs) : writers[i].jobs[n] = s) \/ writers[i].job = <<s>>
Awaited ==
  \A s \in Savers :
    /\ pc[s] # "out" => to[s] \in 1..Len(writers)
    /\ pc[s] \in {"notify", "get"} /\ promise[s] = "none" => Pending(s, to[s])

\* A failure is in the verdict before it is in an answer.
Sticky ==
  /\ \A i \in 1..Len(writers) : writers[i].at = "answer" /\ ~writers[i].done => ~ok
  /\ \A s \in Savers : promise[s] = "failed" => ~ok
  /\ \A s \in Savers : \A n \in 1..Len(answers[s]) : answers[s][n] = "failed" => ~ok

IInv == Types /\ Registered /\ Holding /\ Awaited /\ Sticky

-----------------------------------------------------------------------------
\* Replacing an element of a sequence.
LEMMA Replaced ==
  ASSUME NEW T, NEW s \in Seq(T), NEW i \in 1..Len(s), NEW e \in T
  PROVE  /\ [s EXCEPT ![i] = e] \in Seq(T)
         /\ Len([s EXCEPT ![i] = e]) = Len(s)
  BY ExceptSeq

\* What one step may make of the writer it is about: the other writers stay.
Becomes(i, w) ==
  /\ writers' \in Seq(WriterType) /\ Len(writers') = Len(writers)
  /\ writers'[i] = w
  /\ \A j \in 1..Len(writers) : j # i => writers'[j] = writers[j]

LEMMA Change ==
  ASSUME Types, NEW i \in 1..Len(writers), NEW w \in WriterType,
         writers' = [writers EXCEPT ![i] = w]
  PROVE  Becomes(i, w)
  BY Replaced DEF Becomes, Types

LEMMA InitIInv == Init => IInv
<1> SUFFICES ASSUME Init PROVE IInv
  OBVIOUS
<1> USE DEF Init
<1>1. Len(writers) = 0 /\ writers \in Seq(WriterType)
  OBVIOUS
<1>2. Types
  <2>1. /\ dbs \in [Paths -> 0..Len(writers)] /\ to \in [Savers -> 0..Len(writers)]
        /\ pc \in [Savers -> {"out", "push", "notify", "get"}]
        /\ promise \in [Savers -> {"none", "saved", "failed"}]
    BY <1>1
  <2>2. answers \in [Savers -> Seq(Answers)] /\ db \in [Paths -> Seq(Row)]
    OBVIOUS
  <2> QED
    BY <1>1, <2>1, <2>2 DEF Types
<1>3. Registered /\ Holding /\ Awaited /\ Sticky
  BY <1>1 DEF Registered, Holding, Awaited, Sticky
<1> QED
  BY <1>2, <1>3 DEF IInv

-----------------------------------------------------------------------------
(***************************************************************************)
(* The steps of a saver.                                                   *)
(***************************************************************************)
LEMMA CallTyped ==
  ASSUME Types, NEW s \in Savers, MayCall(s)
  PROVE  Call(s).db \in Paths
<1>1. Turn(s) \in 1..Len(Calls[s])
  BY DEF MayCall, Turn, Types
<1>2. Calls[s] \in Seq([db: Paths, batches: Nat])
  BY ConstantsAssumption
<1>3. Call(s) \in [db: Paths, batches: Nat]
  BY <1>1, <1>2, ElementOfSeq DEF Call
<1> QED
  BY <1>3

\* A call returns.
LEMMA AnswerKeepsIInv ==
  ASSUME IInv, NEW s \in Savers, NEW a \in Answers, a = "failed" => ~ok, Answer(s, a),
         UNCHANGED <<mode, dbs, writers, dataVars, mainVars>>
  PROVE  IInv'
<1> USE DEF Answer, dataVars, mainVars
<1>1. /\ Types' /\ Len(answers'[s]) = Len(answers[s]) + 1
      /\ \A n \in 1..Len(answers[s]) : answers'[s][n] = answers[s][n]
      /\ answers'[s][Len(answers[s]) + 1] = a
  <2>1. /\ Append(answers[s], a) \in Seq(Answers) /\ answers[s] \in Seq(Answers)
        /\ Len(Append(answers[s], a)) = Len(answers[s]) + 1
        /\ \A n \in 1..Len(answers[s]) : Append(answers[s], a)[n] = answers[s][n]
        /\ Append(answers[s], a)[Len(answers[s]) + 1] = a
    BY AppendProperties DEF IInv, Types
  <2>2. answers' \in [Savers -> Seq(Answers)] /\ answers'[s] = Append(answers[s], a)
    BY <2>1 DEF IInv, Types
  <2>3. /\ pc' \in [Savers -> {"out", "push", "notify", "get"}]
        /\ to' \in [Savers -> 0..Len(writers)]
        /\ promise' \in [Savers -> {"none", "saved", "failed"}]
    BY DEF IInv, Types
  <2> QED
    BY <2>1, <2>2, <2>3 DEF IInv, Types
<1>2. Registered' /\ Holding'
  BY DEF IInv, Registered, Holding, Live
<1>3. Awaited'
  <2>1. pc'[s] = "out"
    BY DEF IInv, Types
  <2>2. ASSUME NEW t \in Savers, t # s
        PROVE  pc'[t] = pc[t] /\ promise'[t] = promise[t] /\ to'[t] = to[t]
    BY <2>2 DEF IInv, Types
  <2> QED
    BY <2>1, <2>2 DEF IInv, Awaited, Pending
<1>4. Sticky'
  <2>1. \A t \in Savers : promise'[t] = "failed" => ~ok'
    BY DEF IInv, Sticky, Types
  <2>2. ASSUME NEW t \in Savers, NEW n \in 1..Len(answers'[t]), answers'[t][n] = "failed"
        PROVE  ~ok'
    <3>1. CASE t # s
      BY <2>2, <3>1 DEF IInv, Sticky, Types
    <3>2. CASE t = s
      <4>1. Len(answers[s]) \in Nat
        BY DEF IInv, Types
      <4>2. n \in 1..Len(answers[s]) \/ n = Len(answers[s]) + 1
        BY <1>1, <2>2, <3>2, <4>1
      <4> QED
        BY <1>1, <2>2, <3>2, <4>2 DEF IInv, Sticky
    <3> QED
      BY <3>1, <3>2
  <2> QED
    BY <2>1, <2>2 DEF IInv, Sticky
<1> QED
  BY <1>1, <1>2, <1>3, <1>4 DEF IInv

LEMMA EnsureDbKeepsIInv ==
  ASSUME IInv, NEW s \in Savers, EnsureDb(s)
  PROVE  IInv'
<1> DEFINE p == Call(s).db
           new == Len(writers) + 1
<1>t. Types /\ Len(writers) \in Nat /\ p \in Paths /\ main = "out" /\ pc[s] = "out"
  BY CallTyped DEF IInv, Types, EnsureDb, DbMuFree, MayCall
<1>u. UNCHANGED <<mode, dataVars, mainVars>>
  BY DEF EnsureDb
<1>1. CASE /\ dbs[p] # 0 /\ to' = [to EXCEPT ![s] = dbs[p]]
           /\ pc' = [pc EXCEPT ![s] = "push"] /\ UNCHANGED <<dbs, writers, promise, answers>>
  <2>1. Types'
    BY <1>1, <1>t, <1>u DEF Types, dataVars, mainVars
  <2>2. Registered' /\ Holding' /\ Sticky'
    BY <1>1, <1>u DEF IInv, Registered, Holding, Sticky, Live, dataVars, mainVars
  <2>3. Awaited'
    <3>1. pc'[s] = "push" /\ to'[s] \in 1..Len(writers)
      BY <1>1, <1>t DEF Types
    <3>2. ASSUME NEW t \in Savers, t # s
          PROVE  pc'[t] = pc[t] /\ promise'[t] = promise[t] /\ to'[t] = to[t]
      BY <1>1, <3>2 DEF IInv, Types
    <3> QED
      BY <1>1, <3>1, <3>2 DEF IInv, Awaited, Pending
  <2> QED
    BY <2>1, <2>2, <2>3 DEF IInv
<1>2. CASE /\ dbs[p] = 0 /\ writers' = Append(writers, NewWriter(p))
           /\ dbs' = [dbs EXCEPT ![p] = new] /\ to' = [to EXCEPT ![s] = new]
           /\ pc' = [pc EXCEPT ![s] = "push"] /\ UNCHANGED <<promise, answers>>
  <2>1. NewWriter(p) \in WriterType
    BY <1>t DEF NewWriter, WriterType
  <2>2. /\ writers' \in Seq(WriterType) /\ Len(writers') = new
        /\ \A i \in 1..Len(writers) : writers'[i] = writers[i]
        /\ writers'[new] = NewWriter(p)
    BY <1>2, <1>t, <2>1, AppendProperties DEF Types
  <2>3. Types'
    <3>1. /\ dbs' \in [Paths -> 0..Len(writers')] /\ to' \in [Savers -> 0..Len(writers')]
          /\ pc' \in [Savers -> {"out", "push", "notify", "get"}]
      BY <1>2, <1>t, <2>2 DEF Types
    <3>2. toJoin' \subseteq 1..Len(writers') /\ joining' \in 0..Len(writers')
      BY <1>t, <1>u, <2>2 DEF Types, mainVars
    <3> QED
      BY <1>2, <1>t, <1>u, <2>2, <3>1, <3>2 DEF Types, dataVars, mainVars
  <2>4. Registered'
    <3>1. toJoin = {} /\ toJoin' = {} /\ main' = "out"
      BY <1>t, <1>u DEF IInv, Registered, mainVars
    <3>2. ASSUME NEW q \in Paths, dbs'[q] # 0
          PROVE  /\ writers'[dbs'[q]].db = q /\ ~writers'[dbs'[q]].stop
                 /\ writers'[dbs'[q]].at # "gone"
      <4>1. CASE q = p
        <5>1. dbs'[q] = new
          BY <1>2, <1>t, <4>1 DEF Types
        <5> QED
          BY <2>2, <4>1, <5>1 DEF NewWriter
      <4>2. CASE q # p
        <5>1. dbs'[q] = dbs[q] /\ dbs[q] \in 1..Len(writers)
          BY <1>2, <1>t, <3>2, <4>2 DEF Types
        <5> QED
          BY <2>2, <3>2, <5>1 DEF IInv, Registered, Live
      <4> QED
        BY <4>1, <4>2
    <3>3. ASSUME NEW i \in 1..Len(writers'), Live(i)'
          PROVE  dbs'[writers'[i].db] = i
      <4>1. CASE i = new
        BY <1>2, <1>t, <2>2, <4>1 DEF Types, NewWriter
      <4>2. CASE i \in 1..Len(writers)
        <5>1. writers[i] \in WriterType
          BY <1>t, <4>2, ElementOfSeq DEF Types
        <5>2. writers'[i] = writers[i] /\ writers[i].db \in Paths /\ writers[i].at # "gone"
          BY <2>2, <3>3, <4>2, <5>1 DEF WriterType, Live
        <5>3. dbs[writers[i].db] = i
          BY <3>1, <4>2, <5>2 DEF IInv, Registered, Live
        <5>4. writers[i].db # p
          BY <1>2, <4>2, <5>3
        <5> QED
          BY <1>2, <1>t, <5>2, <5>3, <5>4 DEF Types
      <4> QED
        BY <1>t, <2>2, <4>1, <4>2
    <3> QED
      BY <3>1, <3>2, <3>3 DEF Registered, Live
  <2>5. Holding'
    <3>1. ASSUME NEW i \in 1..Len(writers')
          PROVE  LET w == writers'[i]
                 IN  /\ IF w.at \in {"run", "answer"} THEN Len(w.job) = 1 ELSE w.job = << >>
                     /\ w.at = "gone" => w.stop /\ w.jobs = << >>
      <4>1. CASE i = new
        BY <2>2, <4>1 DEF NewWriter
      <4>2. CASE i \in 1..Len(writers)
        BY <2>2, <4>2 DEF IInv, Holding
      <4> QED
        BY <1>t, <2>2, <4>1, <4>2
    <3> QED
      BY <3>1 DEF Holding
  <2>6. Awaited'
    <3>1. ASSUME NEW t \in Savers, t # s, pc[t] # "out"
          PROVE  to'[t] = to[t] /\ writers'[to[t]] = writers[to[t]] /\ to[t] \in 1..Len(writers')
      BY <1>2, <1>t, <2>2, <3>1 DEF IInv, Awaited, Types
    <3>2. to'[s] \in 1..Len(writers') /\ pc'[s] = "push"
      BY <1>2, <1>t, <2>2 DEF Types
    <3>3. ASSUME NEW t \in Savers, t # s
          PROVE  pc'[t] = pc[t] /\ promise'[t] = promise[t]
      BY <1>2, <1>t, <3>3 DEF Types
    <3> QED
      BY <3>1, <3>2, <3>3 DEF IInv, Awaited, Pending
  <2>7. Sticky'
    <3>1. ~(writers'[new].at = "answer")
      BY <2>2 DEF NewWriter
    <3> QED
      BY <1>2, <1>t, <1>u, <2>2, <3>1 DEF IInv, Sticky, dataVars
  <2> QED
    BY <2>3, <2>4, <2>5, <2>6, <2>7 DEF IInv
<1>3. CASE Answer(s, "threw") /\ UNCHANGED <<dbs, writers>>
  BY <1>3, <1>u, AnswerKeepsIInv DEF Answers
<1> QED
  BY <1>1, <1>2, <1>3 DEF EnsureDb

\* A step that changes neither the database of a writer nor stop leaves the map
\* true, if the writer leaves only after it was told to.
LEMMA RegisteredKept ==
  ASSUME Types, Registered, NEW i \in 1..Len(writers), NEW w \in WriterType, Becomes(i, w),
         w.db = writers[i].db, w.stop = writers[i].stop,
         writers[i].at = "gone" => w.at = "gone", w.at = "gone" => w.stop,
         UNCHANGED <<dbs, mainVars>>
  PROVE  Registered'
<1> USE DEF mainVars
<1>0. Len(writers') = Len(writers) /\ dbs' = dbs /\ toJoin' = toJoin /\ main' = main
      /\ joining' = joining /\ toJoin \subseteq 1..Len(writers)
  BY DEF Becomes, Types
<1>1. ASSUME NEW j \in 1..Len(writers)
      PROVE  /\ writers'[j].db = writers[j].db /\ writers'[j].stop = writers[j].stop
             /\ writers[j].at = "gone" => writers'[j].at = "gone"
             /\ writers'[j].at = "gone" => writers[j].at = "gone" \/ writers[j].stop
  BY <1>1 DEF Becomes
<1>2. ASSUME NEW p \in Paths, dbs[p] # 0
      PROVE  /\ writers'[dbs[p]].db = p /\ writers'[dbs[p]].at # "gone"
             /\ ~writers'[dbs[p]].stop
  <2>1. dbs[p] \in 1..Len(writers)
    BY <1>2 DEF Types
  <2> QED
    BY <1>1, <1>2, <2>1 DEF Registered, Live
<1>3. ASSUME NEW j \in 1..Len(writers), writers'[j].at # "gone"
      PROVE  dbs[writers'[j].db] = j \/ j \in toJoin
  BY <1>1, <1>3 DEF Registered, Live
<1>4. ASSUME NEW j \in toJoin, NEW k \in toJoin, writers'[j].db = writers'[k].db
      PROVE  j = k
  BY <1>0, <1>1, <1>4 DEF Registered
<1> QED
  BY <1>0, <1>2, <1>3, <1>4 DEF Registered, Live

LEMMA PushKeepsIInv ==
  ASSUME IInv, NEW s \in Savers, Push(s)
  PROVE  IInv'
<1>u. UNCHANGED <<mode, dbs, dataVars, mainVars>>
  BY DEF Push
<1>1. CASE Answer(s, "refused") /\ UNCHANGED writers
  BY <1>1, <1>u, AnswerKeepsIInv DEF Answers
<1>2. CASE /\ ~writers[to[s]].stop
           /\ writers' = [writers EXCEPT ![to[s]].jobs = Append(@, s)]
           /\ pc' = [pc EXCEPT ![s] = "notify"] /\ UNCHANGED <<to, promise, answers>>
  <2> DEFINE i == to[s]
             jobs == Append(writers[i].jobs, s)
             w == [writers[i] EXCEPT !.jobs = jobs]
  <2>1. i \in 1..Len(writers) /\ Types
    BY DEF IInv, Awaited, Push
  <2>2. writers[i] \in WriterType
    BY <2>1, ElementOfSeq DEF Types
  <2>3. /\ jobs \in Seq(Savers) /\ Len(jobs) = Len(writers[i].jobs) + 1
        /\ Len(writers[i].jobs) \in Nat /\ jobs[Len(jobs)] = s
        /\ \A n \in 1..Len(writers[i].jobs) : jobs[n] = writers[i].jobs[n]
    BY <2>2, AppendProperties DEF WriterType
  <2>4. /\ w \in WriterType /\ w.jobs = jobs /\ w.job = writers[i].job /\ w.at = writers[i].at
        /\ w.stop = writers[i].stop /\ w.db = writers[i].db /\ w.done = writers[i].done
    BY <2>2, <2>3 DEF WriterType
  <2>5. Becomes(i, w)
    BY <1>2, <2>1, <2>4, Change
  <2>6. writers[i].at # "gone"
    BY <1>2, <2>1 DEF IInv, Holding
  <2>7. Types'
    BY <1>2, <1>u, <2>1, <2>5 DEF Types, Becomes, dataVars, mainVars
  <2>8. Registered'
    BY <1>u, <2>1, <2>4, <2>5, <2>6, RegisteredKept DEF IInv
  <2>9. Holding'
    <3>1. ASSUME NEW j \in 1..Len(writers)
          PROVE  /\ IF writers'[j].at \in {"run", "answer"} THEN Len(writers'[j].job) = 1
                                                            ELSE writers'[j].job = << >>
                 /\ writers'[j].at = "gone" => writers'[j].stop /\ writers'[j].jobs = << >>
      <4>1. CASE j = i
        <5>1. /\ IF writers[i].at \in {"run", "answer"} THEN Len(writers[i].job) = 1
                                                       ELSE writers[i].job = << >>
              /\ writers'[i] = w
          BY <2>1, <2>5 DEF IInv, Holding, Becomes
        <5> HIDE DEF w, i
        <5> QED
          BY <2>4, <2>6, <4>1, <5>1
      <4>2. CASE j # i
        BY <2>5, <4>2 DEF IInv, Holding, Becomes
      <4> QED
        BY <4>1, <4>2
    <3> QED
      BY <2>5, <3>1 DEF Holding, Becomes
  <2>10. Awaited'
    <3>1. ASSUME NEW t \in Savers, pc'[t] # "out"
          PROVE  to'[t] \in 1..Len(writers')
      <4>1. pc[t] # "out" \/ t = s
        BY <1>2, <3>1 DEF IInv, Types
      <4> QED
        BY <1>2, <2>1, <2>5, <4>1 DEF IInv, Awaited, Becomes
    <3>2. ASSUME NEW t \in Savers, pc'[t] \in {"notify", "get"}, promise'[t] = "none"
          PROVE  \/ \E n \in 1..Len(writers'[to'[t]].jobs) : writers'[to'[t]].jobs[n] = t
                 \/ writers'[to'[t]].job = <<t>>
      <4>1. CASE t = s
        BY <1>2, <2>3, <2>4, <2>5, <4>1 DEF Becomes
      <4>2. CASE t # s
        <5>1. to[t] \in 1..Len(writers) /\ Pending(t, to[t]) /\ to'[t] = to[t]
          BY <1>2, <3>2, <4>2 DEF IInv, Awaited, Types
        <5>2. CASE to[t] # i
          BY <2>5, <5>1, <5>2 DEF Becomes, Pending
        <5>3. CASE to[t] = i
          <6>1. writers'[i].jobs = jobs /\ writers'[i].job = writers[i].job
            BY <2>4, <2>5 DEF Becomes
          <6> HIDE DEF w, i, jobs
          <6>2. CASE writers[i].job = <<t>>
            BY <5>1, <5>3, <6>1, <6>2
          <6>3. CASE \E n \in 1..Len(writers[i].jobs) : writers[i].jobs[n] = t
            <7>1. PICK n \in 1..Len(writers[i].jobs) : writers[i].jobs[n] = t
              BY <6>3
            <7>2. n \in 1..Len(jobs) /\ jobs[n] = t
              BY <2>3, <7>1
            <7> QED
              BY <5>1, <5>3, <6>1, <7>2
          <6> QED
            BY <5>1, <5>3, <6>2, <6>3 DEF Pending
        <5> QED
          BY <5>2, <5>3
      <4> QED
        BY <4>1, <4>2
    <3> QED
      BY <3>1, <3>2 DEF Awaited, Pending
  <2>11. Sticky'
    BY <1>2, <1>u, <2>1, <2>4, <2>5 DEF IInv, Sticky, Becomes, dataVars
  <2> QED
    BY <2>7, <2>8, <2>9, <2>10, <2>11 DEF IInv
<1> QED
  BY <1>1, <1>2 DEF Push

\* Waking a writer moves it only from sleep to check.
LEMMA WakingKeepsIInv ==
  ASSUME IInv, NEW i \in 1..Len(writers), writers' = Woken(i),
         UNCHANGED <<mode, dbs, to, promise, answers, dataVars>>,
         pc' \in [Savers -> {"out", "push", "notify", "get"}],
         \A t \in Savers : pc'[t] = pc[t] \/ (pc[t] = "notify" /\ pc'[t] = "get"),
         UNCHANGED <<toJoin, joining, closes>>,
         main' = main \/ (main = "notify" /\ main' = "join")
  PROVE  IInv'
<1> DEFINE w == [writers[i] EXCEPT !.at = IF @ = "sleep" THEN "check" ELSE @]
<1>1. writers[i] \in WriterType /\ Types
  BY ElementOfSeq DEF IInv, Types
<1>2. /\ w \in WriterType /\ w.jobs = writers[i].jobs /\ w.job = writers[i].job
      /\ w.stop = writers[i].stop /\ w.db = writers[i].db /\ w.done = writers[i].done
      /\ w.at = IF writers[i].at = "sleep" THEN "check" ELSE writers[i].at
  BY <1>1 DEF WriterType
<1>3. Becomes(i, w)
  BY <1>1, <1>2, Change DEF Woken
<1>4. ASSUME NEW j \in 1..Len(writers)
      PROVE  /\ writers'[j].jobs = writers[j].jobs /\ writers'[j].job = writers[j].job
             /\ writers'[j].stop = writers[j].stop /\ writers'[j].db = writers[j].db
             /\ writers'[j].done = writers[j].done
             /\ \/ writers'[j].at = writers[j].at
                \/ writers[j].at = "sleep" /\ writers'[j].at = "check"
  BY <1>2, <1>3, <1>4 DEF Becomes
<1>5. Len(writers') = Len(writers) /\ writers' \in Seq(WriterType)
  BY <1>3 DEF Becomes
<1>6. Types'
  BY <1>1, <1>5 DEF Types, dataVars
<1>7. Registered'
  <2>1. ASSUME NEW p \in Paths, dbs[p] # 0
        PROVE  dbs[p] \in 1..Len(writers)
    BY <1>1, <2>1 DEF Types
  <2>2. toJoin \subseteq 1..Len(writers)
    BY <1>1 DEF Types
  <2>3. \A p \in Paths : dbs[p] # 0 =>
          writers'[dbs[p]].db = p /\ writers'[dbs[p]].at # "gone" /\ ~writers'[dbs[p]].stop
    BY <1>4, <2>1 DEF IInv, Registered, Live
  <2>4. \A j \in 1..Len(writers) : writers'[j].at # "gone" =>
          dbs[writers'[j].db] = j \/ j \in toJoin
    BY <1>4 DEF IInv, Registered, Live
  <2>5. \A j, k \in toJoin : writers'[j].db = writers'[k].db => j = k
    BY <1>4, <2>2 DEF IInv, Registered
  <2> QED
    BY <1>5, <2>3, <2>4, <2>5 DEF IInv, Registered, Live
<1>8. Holding'
  BY <1>4, <1>5 DEF IInv, Holding
<1>9. Awaited'
  <2>1. \A t \in Savers : pc[t] # "out" => to[t] \in 1..Len(writers)
    BY DEF IInv, Awaited
  <2>2. ASSUME NEW t \in Savers, pc'[t] \in {"notify", "get"}, promise[t] = "none"
        PROVE  \/ \E n \in 1..Len(writers'[to[t]].jobs) : writers'[to[t]].jobs[n] = t
               \/ writers'[to[t]].job = <<t>>
    <3>1. pc[t] \in {"notify", "get"}
      BY <2>2
    <3>2. to[t] \in 1..Len(writers) /\ Pending(t, to[t])
      BY <2>2, <3>1 DEF IInv, Awaited
    <3> QED
      BY <1>4, <3>2 DEF Pending
  <2> QED
    BY <1>5, <2>1, <2>2 DEF Awaited, Pending
<1>10. Sticky'
  BY <1>4, <1>5 DEF IInv, Sticky, dataVars
<1> QED
  BY <1>6, <1>7, <1>8, <1>9, <1>10 DEF IInv

LEMMA NotifyOneKeepsIInv ==
  ASSUME IInv, NEW s \in Savers, NotifyOne(s)
  PROVE  IInv'
<1>1. to[s] \in 1..Len(writers)
  BY DEF IInv, Awaited, NotifyOne
<1>2. /\ pc' \in [Savers -> {"out", "push", "notify", "get"}]
      /\ \A t \in Savers : pc'[t] = pc[t] \/ (pc[t] = "notify" /\ pc'[t] = "get")
  BY DEF IInv, Types, NotifyOne
<1> QED
  BY <1>1, <1>2, WakingKeepsIInv DEF NotifyOne, mainVars

LEMMA GetKeepsIInv ==
  ASSUME IInv, NEW s \in Savers, Get(s)
  PROVE  IInv'
<1>1. promise[s] \in Answers /\ (promise[s] = "failed" => ~ok)
  BY DEF IInv, Types, Sticky, Get, Answers
<1> QED
  BY <1>1, AnswerKeepsIInv DEF Get

-----------------------------------------------------------------------------
(***************************************************************************)
(* The steps of a writer.                                                  *)
(***************************************************************************)
LEMMA JobTyped ==
  ASSUME IInv, NEW i \in 1..Len(writers), writers[i].at \in {"run", "answer"}
  PROVE  Job(i) \in Savers /\ writers[i].job = <<Job(i)>>
<1>1. writers[i].job \in Seq(Savers) /\ Len(writers[i].job) = 1
  <2>1. writers[i] \in WriterType
    BY ElementOfSeq DEF IInv, Types
  <2> QED
    BY <2>1 DEF IInv, Holding, WriterType
<1>2. writers[i].job[1] \in Savers
  BY <1>1, ElementOfSeq
<1> QED
  BY <1>1, <1>2 DEF Job

\* Where only one writer changes, Holding is a matter of that one.
LEMMA HoldingKept ==
  ASSUME IInv, NEW i \in 1..Len(writers), NEW w, Becomes(i, w),
         IF w.at \in {"run", "answer"} THEN Len(w.job) = 1 ELSE w.job = << >>,
         w.at = "gone" => w.stop /\ w.jobs = << >>
  PROVE  Holding'
<1>1. ASSUME NEW j \in 1..Len(writers)
      PROVE  /\ IF writers'[j].at \in {"run", "answer"} THEN Len(writers'[j].job) = 1
                                                        ELSE writers'[j].job = << >>
             /\ writers'[j].at = "gone" => writers'[j].stop /\ writers'[j].jobs = << >>
  <2>1. CASE j = i
    BY <2>1 DEF Becomes
  <2>2. CASE j # i
    BY <2>2 DEF IInv, Holding, Becomes
  <2> QED
    BY <2>1, <2>2
<1> QED
  BY <1>1 DEF Holding, Becomes

\* And a saver waits for something else, or for what this one has kept.
LEMMA AwaitedByOthers ==
  ASSUME IInv, NEW i \in 1..Len(writers), NEW w, Becomes(i, w), UNCHANGED <<pc, to>>,
         ASSUME NEW t \in Savers, promise'[t] = "none"
         PROVE  /\ promise[t] = "none"
                /\ Pending(t, i) => (\E n \in 1..Len(w.jobs) : w.jobs[n] = t) \/ w.job = <<t>>
  PROVE  Awaited'
<1>1. \A t \in Savers : pc[t] # "out" => to[t] \in 1..Len(writers')
  BY DEF IInv, Awaited, Becomes
<1>2. ASSUME NEW t \in Savers, pc[t] \in {"notify", "get"}, promise'[t] = "none"
      PROVE  \/ \E n \in 1..Len(writers'[to[t]].jobs) : writers'[to[t]].jobs[n] = t
             \/ writers'[to[t]].job = <<t>>
  <2>1. /\ to[t] \in 1..Len(writers) /\ Pending(t, to[t])
        /\ Pending(t, i) => (\E n \in 1..Len(w.jobs) : w.jobs[n] = t) \/ w.job = <<t>>
    BY <1>2 DEF IInv, Awaited
  <2>2. CASE to[t] # i
    BY <2>1, <2>2 DEF Becomes, Pending
  <2>3. CASE to[t] = i
    BY <2>1, <2>3 DEF Becomes
  <2> QED
    BY <2>2, <2>3
<1> QED
  BY <1>1, <1>2 DEF Awaited, Pending

LEMMA FetchKeepsIInv ==
  ASSUME IInv, NEW i \in 1..Len(writers), Fetch(i)
  PROVE  IInv'
<1> DEFINE v == writers[i]
           w == IF v.jobs # << >>
                THEN [v EXCEPT !.at = "run", !.jobs = Tail(v.jobs), !.job = <<Head(v.jobs)>>]
                ELSE [v EXCEPT !.at = IF v.stop THEN "gone" ELSE "sleep"]
<1>1. v \in WriterType /\ Types /\ v.at = "check"
  BY ElementOfSeq DEF IInv, Types, Fetch
<1>2. v.jobs \in Seq(Savers) /\ v.job = << >>
  BY <1>1 DEF WriterType, IInv, Holding
<1>3. v.jobs # << >> =>
        /\ Head(v.jobs) \in Savers /\ Tail(v.jobs) \in Seq(Savers)
        /\ Len(Tail(v.jobs)) = Len(v.jobs) - 1 /\ Len(v.jobs) \in Nat
        /\ v.jobs[1] = Head(v.jobs)
        /\ \A n \in 1..Len(Tail(v.jobs)) : Tail(v.jobs)[n] = v.jobs[n + 1]
  BY <1>2, HeadTailProperties
<1>4. /\ w \in WriterType /\ w.stop = v.stop /\ w.db = v.db /\ w.done = v.done
      /\ v.jobs # << >> => /\ w.at = "run" /\ w.jobs = Tail(v.jobs)
                           /\ w.job = <<Head(v.jobs)>>
      /\ v.jobs = << >> => /\ w.at = (IF v.stop THEN "gone" ELSE "sleep")
                           /\ w.jobs = << >> /\ w.job = << >>
  <2>1. CASE v.jobs # << >>
    <3>1. w = [v EXCEPT !.at = "run", !.jobs = Tail(v.jobs), !.job = <<Head(v.jobs)>>]
      BY <2>1
    <3>2. <<Head(v.jobs)>> \in Seq(Savers)
      BY <1>3, <2>1
    <3> HIDE DEF w
    <3> QED
      BY <1>1, <1>2, <1>3, <2>1, <3>1, <3>2 DEF WriterType
  <2>2. CASE v.jobs = << >>
    <3>1. w = [v EXCEPT !.at = IF v.stop THEN "gone" ELSE "sleep"]
      BY <2>2
    <3> HIDE DEF w
    <3> QED
      BY <1>1, <1>2, <2>2, <3>1 DEF WriterType
  <2> QED
    BY <2>1, <2>2
<1>5. writers' = [writers EXCEPT ![i] = w]
      /\ UNCHANGED <<mode, dbs, saverVars, dataVars, mainVars>>
  BY DEF Fetch
<1> HIDE DEF w
<1>6. Becomes(i, w)
  BY <1>1, <1>4, <1>5, Change
<1>7. Types'
  BY <1>1, <1>5, <1>6 DEF Types, Becomes, saverVars, dataVars, mainVars
<1>8. Registered'
  <2>1. /\ v.at = "gone" => w.at = "gone"
        /\ w.at = "gone" => w.stop
    BY <1>1, <1>4
  <2> QED
    BY <1>1, <1>4, <1>5, <1>6, <2>1, RegisteredKept DEF IInv
<1>9. Holding'
  <2>1. /\ IF w.at \in {"run", "answer"} THEN Len(w.job) = 1 ELSE w.job = << >>
        /\ w.at = "gone" => w.stop /\ w.jobs = << >>
    BY <1>4
  <2> QED
    BY <1>6, <2>1, HoldingKept
<1>10. Awaited'
  <2>1. ASSUME NEW t \in Savers, Pending(t, i)
        PROVE  (\E n \in 1..Len(w.jobs) : w.jobs[n] = t) \/ w.job = <<t>>
    <3>1. PICK n \in 1..Len(v.jobs) : v.jobs[n] = t
      BY <1>2, <2>1 DEF Pending
    <3>2. v.jobs # << >>
      BY <3>1
    <3>3. CASE n = 1
      BY <1>3, <1>4, <3>1, <3>2, <3>3
    <3>4. CASE n # 1
      <4>0. n - 1 \in 1..Len(w.jobs) /\ (n - 1) + 1 = n /\ w.jobs = Tail(v.jobs)
        <5>1. w.jobs = Tail(v.jobs)
          BY <1>4, <3>2
        <5>2. Len(v.jobs) \in Nat /\ Len(Tail(v.jobs)) = Len(v.jobs) - 1
          BY <1>3, <3>2
        <5> HIDE DEF v
        <5>3. n \in 2..Len(v.jobs)
          BY <3>1, <3>4, <5>2
        <5> QED
          BY <5>1, <5>2, <5>3
      <4>1. w.jobs[n - 1] = v.jobs[n]
        <5> HIDE DEF v
        <5>1. n - 1 \in 1..Len(Tail(v.jobs))
          BY <4>0
        <5>2. Tail(v.jobs)[n - 1] = v.jobs[(n - 1) + 1]
          BY <1>3, <3>2, <5>1
        <5> QED
          BY <4>0, <5>2
      <4> QED
        BY <3>1, <4>0, <4>1
    <3> QED
      BY <3>3, <3>4
  <2> QED
    BY <1>5, <1>6, <2>1, AwaitedByOthers DEF saverVars
<1>11. Sticky'
  BY <1>4, <1>5, <1>6 DEF IInv, Sticky, Becomes, saverVars, dataVars
<1> QED
  BY <1>7, <1>8, <1>9, <1>10, <1>11 DEF IInv

LEMMA InsertBatchKeepsIInv ==
  ASSUME IInv, NEW i \in 1..Len(writers), InsertBatch(i)
  PROVE  IInv'
<1> DEFINE v == writers[i]
           w == [v EXCEPT !.batch = @ + 1]
           row == [saver |-> Job(i), call |-> Turn(Job(i)), batch |-> v.batch + 1]
<1>1. v \in WriterType /\ Types /\ v.at = "run" /\ Job(i) \in Savers
  BY ElementOfSeq, JobTyped DEF IInv, Types, InsertBatch
<1>2. /\ w \in WriterType /\ w.stop = v.stop /\ w.db = v.db /\ w.done = v.done
      /\ w.at = v.at /\ w.jobs = v.jobs /\ w.job = v.job
  BY <1>1 DEF WriterType
<1>3. row \in Row /\ v.db \in Paths
  <2>1. answers[Job(i)] \in Seq(Answers)
    BY <1>1 DEF Types
  <2>2. Turn(Job(i)) \in Nat /\ v.batch + 1 \in Nat /\ v.db \in Paths
    BY <1>1, <2>1 DEF Turn, WriterType
  <2> QED
    BY <1>1, <2>2 DEF Row
<1>4. writers' = [writers EXCEPT ![i] = w] /\ UNCHANGED <<mode, dbs, saverVars, ok, mainVars>>
  BY DEF InsertBatch
<1>5. db' \in [Paths -> Seq(Row)] /\ lost' \subseteq Row
  <2>1. \/ db' = [db EXCEPT ![v.db] = Append(@, row)] /\ lost' = lost
        \/ db' = db /\ lost' = lost \cup {row}
    BY DEF InsertBatch
  <2> HIDE DEF row
  <2>2. Append(db[v.db], row) \in Seq(Row)
    BY <1>1, <1>3, AppendProperties DEF Types
  <2> QED
    BY <1>1, <1>3, <2>1, <2>2 DEF Types
<1> HIDE DEF w
<1>6. Becomes(i, w)
  BY <1>1, <1>2, <1>4, Change
<1>7. Types'
  BY <1>1, <1>4, <1>5, <1>6 DEF Types, Becomes, saverVars, mainVars
<1>8. Registered'
  BY <1>1, <1>2, <1>4, <1>6, RegisteredKept DEF IInv
<1>9. Holding'
  BY <1>1, <1>2, <1>6, HoldingKept DEF IInv, Holding
<1>10. Awaited'
  <2>1. ASSUME NEW t \in Savers, promise'[t] = "none"
        PROVE  /\ promise[t] = "none"
               /\ Pending(t, i) => (\E n \in 1..Len(w.jobs) : w.jobs[n] = t) \/ w.job = <<t>>
    BY <1>2, <1>4, <2>1 DEF Pending, saverVars
  <2> QED
    BY <1>4, <1>6, <2>1, AwaitedByOthers DEF saverVars
<1>11. Sticky'
  BY <1>2, <1>4, <1>6 DEF IInv, Sticky, Becomes, saverVars
<1> QED
  BY <1>7, <1>8, <1>9, <1>10, <1>11 DEF IInv

LEMMA EndJobKeepsIInv ==
  ASSUME IInv, NEW i \in 1..Len(writers), EndJob(i)
  PROVE  IInv'
<1>1. PICK success \in BOOLEAN :
        /\ ok' = (ok /\ success)
        /\ writers' = [writers EXCEPT ![i].at = "answer", ![i].done = success]
  BY DEF EndJob
<1> DEFINE v == writers[i]
           w == [v EXCEPT !.at = "answer", !.done = success]
<1>2. v \in WriterType /\ Types /\ v.at = "run"
  BY ElementOfSeq DEF IInv, Types, EndJob
<1>3. /\ w \in WriterType /\ w.stop = v.stop /\ w.db = v.db /\ w.done = success
      /\ w.at = "answer" /\ w.jobs = v.jobs /\ w.job = v.job
  BY <1>2 DEF WriterType
<1>4. writers' = [writers EXCEPT ![i] = w]
      /\ UNCHANGED <<mode, dbs, saverVars, db, lost, mainVars>>
  BY <1>1, <1>2 DEF EndJob, Types
<1> HIDE DEF w
<1>6. Becomes(i, w)
  BY <1>2, <1>3, <1>4, Change
<1>7. Types'
  <2>1. ok' \in BOOLEAN
    BY <1>1
  <2> QED
    BY <1>2, <1>4, <1>6, <2>1 DEF Types, Becomes, saverVars, mainVars
<1>8. Registered'
  BY <1>2, <1>3, <1>4, <1>6, RegisteredKept DEF IInv
<1>9. Holding'
  BY <1>2, <1>3, <1>6, HoldingKept DEF IInv, Holding
<1>10. Awaited'
  <2>1. ASSUME NEW t \in Savers, promise'[t] = "none"
        PROVE  /\ promise[t] = "none"
               /\ Pending(t, i) => (\E n \in 1..Len(w.jobs) : w.jobs[n] = t) \/ w.job = <<t>>
    BY <1>3, <1>4, <2>1 DEF Pending, saverVars
  <2> QED
    BY <1>4, <1>6, <2>1, AwaitedByOthers DEF saverVars
<1>11. Sticky'
  <2>1. ~ok => ~ok'
    BY <1>1
  <2>2. ~success => ~ok'
    BY <1>1
  <2>3. ASSUME NEW j \in 1..Len(writers), writers'[j].at = "answer", ~writers'[j].done
        PROVE  ~ok'
    <3>1. CASE j = i
      BY <1>3, <1>6, <2>2, <2>3, <3>1 DEF Becomes
    <3>2. CASE j # i
      BY <1>6, <2>1, <2>3, <3>2 DEF Becomes, IInv, Sticky
    <3> QED
      BY <3>1, <3>2
  <2> QED
    BY <1>4, <1>6, <2>1, <2>3 DEF IInv, Sticky, Becomes, saverVars
<1> QED
  BY <1>7, <1>8, <1>9, <1>10, <1>11 DEF IInv

LEMMA SetValueKeepsIInv ==
  ASSUME IInv, NEW i \in 1..Len(writers), SetValue(i)
  PROVE  IInv'
<1> DEFINE v == writers[i]
           w == [v EXCEPT !.at = "check", !.job = << >>, !.batch = 0, !.done = FALSE]
           value == IF v.done THEN "saved" ELSE "failed"
<1>1. v \in WriterType /\ Types /\ v.at = "answer" /\ Job(i) \in Savers /\ v.job = <<Job(i)>>
  BY ElementOfSeq, JobTyped DEF IInv, Types, SetValue
<1>2. /\ w \in WriterType /\ w.stop = v.stop /\ w.db = v.db
      /\ w.at = "check" /\ w.jobs = v.jobs /\ w.job = << >>
  <2>1. << >> \in Seq(Savers)
    OBVIOUS
  <2> QED
    BY <1>1, <2>1 DEF WriterType
<1>3. /\ writers' = [writers EXCEPT ![i] = w]
      /\ UNCHANGED <<mode, dbs, pc, to, answers, dataVars, mainVars>>
      /\ promise' = [promise EXCEPT ![Job(i)] = value]
  BY <1>1 DEF SetValue, Types
<1>4. /\ promise' \in [Savers -> {"none", "saved", "failed"}]
      /\ promise'[Job(i)] = value
      /\ \A t \in Savers : t # Job(i) => promise'[t] = promise[t]
  BY <1>1, <1>3 DEF Types
<1> HIDE DEF w
<1>6. Becomes(i, w)
  BY <1>1, <1>2, <1>3, Change
<1>7. Types'
  BY <1>1, <1>3, <1>4, <1>6 DEF Types, Becomes, dataVars, mainVars
<1>8. Registered'
  BY <1>1, <1>2, <1>3, <1>6, RegisteredKept DEF IInv
<1>9. Holding'
  BY <1>2, <1>6, HoldingKept
<1>10. Awaited'
  <2>1. ASSUME NEW t \in Savers, promise'[t] = "none"
        PROVE  /\ promise[t] = "none"
               /\ Pending(t, i) => (\E n \in 1..Len(w.jobs) : w.jobs[n] = t) \/ w.job = <<t>>
    <3>1. t # Job(i)
      BY <1>4, <2>1
    <3>2. <<Job(i)>> # <<t>>
      BY <3>1
    <3> QED
      BY <1>1, <1>2, <1>4, <2>1, <3>1, <3>2 DEF Pending
  <2> QED
    BY <1>3, <1>6, <2>1, AwaitedByOthers
<1>11. Sticky'
  <2>1. value = "failed" => ~ok
    BY <1>1 DEF IInv, Sticky
  <2>2. \A t \in Savers : promise'[t] = "failed" => ~ok
    BY <1>4, <2>1 DEF IInv, Sticky
  <2> QED
    BY <1>2, <1>3, <1>6, <2>2 DEF IInv, Sticky, Becomes, dataVars
<1> QED
  BY <1>7, <1>8, <1>9, <1>10, <1>11 DEF IInv

-----------------------------------------------------------------------------
(***************************************************************************)
(* The steps of CloseAllDb.                                                *)
(***************************************************************************)
LEMMA CloseAllDbKeepsIInv ==
  ASSUME IInv, CloseAllDb
  PROVE  IInv'
<1>1. /\ main = "out" /\ main' = "next" /\ toJoin = {}
      /\ toJoin' = {dbs[p] : p \in Paths} \ {0} /\ dbs' = [p \in Paths |-> 0]
      /\ UNCHANGED <<mode, writers, saverVars, dataVars, joining, closes>>
  BY DEF CloseAllDb, IInv, Registered
<1>2. Types'
  <2>1. toJoin' \subseteq 1..Len(writers)
    BY <1>1 DEF IInv, Types
  <2> QED
    BY <1>1, <2>1 DEF IInv, Types, saverVars, dataVars
<1>3. Registered'
  <2>1. ASSUME NEW i \in 1..Len(writers), writers[i].at # "gone"
        PROVE  i \in toJoin'
    <3>1. writers[i].db \in Paths
      <4>1. writers[i] \in WriterType
        BY ElementOfSeq DEF IInv, Types
      <4> QED
        BY <4>1 DEF WriterType
    <3>2. dbs[writers[i].db] = i
      BY <1>1, <2>1 DEF IInv, Registered, Live
    <3> QED
      BY <1>1, <3>1, <3>2
  <2>2. ASSUME NEW i \in toJoin', NEW j \in toJoin', writers[i].db = writers[j].db
        PROVE  i = j
    <3>1. PICK p \in Paths, q \in Paths : i = dbs[p] /\ j = dbs[q] /\ i # 0 /\ j # 0
      BY <1>1
    <3>2. writers[i].db = p /\ writers[j].db = q
      BY <3>1 DEF IInv, Registered
    <3> QED
      BY <2>2, <3>1, <3>2
  <2> QED
    BY <1>1, <2>1, <2>2 DEF Registered, Live
<1>4. Holding' /\ Awaited' /\ Sticky'
  BY <1>1 DEF IInv, Holding, Awaited, Pending, Sticky, saverVars, dataVars
<1> QED
  BY <1>2, <1>3, <1>4 DEF IInv

LEMMA StopKeepsIInv ==
  ASSUME IInv, Stop
  PROVE  IInv'
<1>1. PICK i \in toJoin : writers' = [writers EXCEPT ![i].stop = TRUE] /\ joining' = i
  BY DEF Stop
<1>2. /\ main = "next" /\ main' = "notify" /\ \A p \in Paths : dbs[p] = 0
      /\ UNCHANGED <<mode, dbs, saverVars, dataVars, toJoin, closes>>
      /\ i \in 1..Len(writers) /\ Types
  BY DEF Stop, IInv, Registered, Types
<1> DEFINE v == writers[i]
           w == [v EXCEPT !.stop = TRUE]
<1>3. v \in WriterType
  BY <1>2, ElementOfSeq DEF Types
<1>4. /\ w \in WriterType /\ w.stop = TRUE /\ w.db = v.db /\ w.done = v.done
      /\ w.at = v.at /\ w.jobs = v.jobs /\ w.job = v.job
  BY <1>3 DEF WriterType
<1>5. writers' = [writers EXCEPT ![i] = w]
  BY <1>1
<1> HIDE DEF w
<1>6. Becomes(i, w)
  BY <1>2, <1>4, <1>5, Change
<1>7. Types'
  <2>1. toJoin' \subseteq 1..Len(writers') /\ joining' \in 0..Len(writers')
    BY <1>1, <1>2, <1>6 DEF Types, Becomes
  <2> QED
    BY <1>2, <1>6, <2>1 DEF Types, Becomes, saverVars, dataVars
<1>8. Registered'
  <2>1. ASSUME NEW j \in 1..Len(writers)
        PROVE  writers'[j].at = writers[j].at /\ writers'[j].db = writers[j].db
    BY <1>4, <1>6, <2>1 DEF Becomes
  <2>2. \A j \in 1..Len(writers) : writers'[j].at # "gone" => j \in toJoin
    <3>1. ASSUME NEW j \in 1..Len(writers), writers[j].at # "gone"
          PROVE  j \in toJoin
      <4>1. writers[j] \in WriterType
        BY ElementOfSeq DEF IInv, Types
      <4>2. writers[j].db \in Paths
        BY <4>1 DEF WriterType
      <4> QED
        BY <1>2, <3>1, <4>2 DEF IInv, Registered, Live
    <3> QED
      BY <2>1, <3>1
  <2>3. \A j, k \in toJoin : writers'[j].db = writers'[k].db => j = k
    BY <2>1 DEF IInv, Registered, Types
  <2> QED
    BY <1>1, <1>2, <1>6, <2>2, <2>3 DEF Registered, Live, Becomes
<1>9. Holding'
  BY <1>2, <1>4, <1>6, HoldingKept DEF IInv, Holding
<1>10. Awaited'
  <2>1. ASSUME NEW t \in Savers, promise'[t] = "none"
        PROVE  /\ promise[t] = "none"
               /\ Pending(t, i) => (\E n \in 1..Len(w.jobs) : w.jobs[n] = t) \/ w.job = <<t>>
    BY <1>2, <1>4, <2>1 DEF Pending, saverVars
  <2> QED
    BY <1>2, <1>6, <2>1, AwaitedByOthers DEF saverVars
<1>11. Sticky'
  BY <1>2, <1>4, <1>6 DEF IInv, Sticky, Becomes, saverVars, dataVars
<1> QED
  BY <1>7, <1>8, <1>9, <1>10, <1>11 DEF IInv

LEMMA NotifyAllKeepsIInv ==
  ASSUME IInv, NotifyAll
  PROVE  IInv'
<1>1. joining \in 1..Len(writers)
  BY DEF NotifyAll, IInv, Registered, Types
<1>2. pc' = pc /\ pc' \in [Savers -> {"out", "push", "notify", "get"}]
  BY DEF NotifyAll, saverVars, IInv, Types
<1> QED
  BY <1>1, <1>2, WakingKeepsIInv DEF NotifyAll, saverVars

\* The thread joined has gone, so that the writers that live are still to be joined.
LEMMA JoinKeepsIInv ==
  ASSUME IInv, Join
  PROVE  IInv'
<1>1. /\ writers[joining].at = "gone" /\ toJoin' = toJoin \ {joining} /\ joining' = 0
      /\ main = "join" /\ main' = "next"
      /\ UNCHANGED <<mode, dbs, writers, saverVars, dataVars, closes>>
  BY DEF Join
<1>2. Types'
  BY <1>1 DEF IInv, Types, saverVars, dataVars
<1>3. Registered'
  BY <1>1 DEF IInv, Registered, Live
<1>4. Holding' /\ Awaited' /\ Sticky'
  BY <1>1 DEF IInv, Holding, Awaited, Pending, Sticky, saverVars, dataVars
<1> QED
  BY <1>2, <1>3, <1>4 DEF IInv

LEMMA ClosedKeepsIInv ==
  ASSUME IInv, Closed
  PROVE  IInv'
<1>1. /\ main = "next" /\ toJoin = {} /\ main' = "out" /\ closes' = closes + 1
      /\ UNCHANGED <<mode, dbs, writers, saverVars, dataVars, toJoin, joining>>
  BY DEF Closed
<1>2. Types'
  BY <1>1 DEF IInv, Types, saverVars, dataVars
<1>3. Registered'
  BY <1>1 DEF IInv, Registered, Live
<1>4. Holding' /\ Awaited' /\ Sticky'
  BY <1>1 DEF IInv, Holding, Awaited, Pending, Sticky, saverVars, dataVars
<1> QED
  BY <1>2, <1>3, <1>4 DEF IInv

\* What a writer is made of.
LEMMA TypeOfWriter ==
  ASSUME IInv, NEW i \in 1..Len(writers)
  PROVE  /\ writers[i] \in WriterType /\ writers[i].db \in Paths
         /\ writers[i].jobs \in Seq(Savers) /\ writers[i].job \in Seq(Savers)
         /\ writers[i].batch \in Nat
<1>1. writers[i] \in WriterType
  BY ElementOfSeq DEF IInv, Types
<1> QED
  BY <1>1 DEF WriterType

\* Two threads that have not gone write two databases.
LEMMA OneLives ==
  ASSUME IInv, NEW i \in 1..Len(writers), NEW j \in 1..Len(writers),
         Live(i), Live(j), writers[i].db = writers[j].db
  PROVE  i = j
<1>1. writers[i].db \in Paths
  BY TypeOfWriter
<1>2. dbs[writers[i].db] = i \/ i \in toJoin
  BY DEF IInv, Registered
<1>3. dbs[writers[i].db] = j \/ j \in toJoin
  BY DEF IInv, Registered
<1>4. dbs[writers[i].db] # 0 => toJoin = {}
  BY <1>1 DEF IInv, Registered
<1>5. CASE toJoin = {}
  BY <1>2, <1>3, <1>5
<1>6. CASE i \in toJoin /\ j \in toJoin
  BY <1>6 DEF IInv, Registered
<1> QED
  BY <1>2, <1>3, <1>4, <1>5, <1>6

-----------------------------------------------------------------------------
(***************************************************************************)
(* The theorems.                                                           *)
(***************************************************************************)
LEMMA NextKeepsIInv == IInv /\ [Next]_vars => IInv'
<1> SUFFICES ASSUME IInv, [Next]_vars PROVE IInv'
  OBVIOUS
<1>1. CASE \E s \in Savers : RunDb(s)
  BY <1>1, EnsureDbKeepsIInv, PushKeepsIInv, NotifyOneKeepsIInv, GetKeepsIInv DEF RunDb
<1>2. CASE \E i \in DOMAIN writers : DbLoop(i)
  <2>1. DOMAIN writers = 1..Len(writers)
    BY DEF IInv, Types
  <2> QED
    BY <1>2, <2>1, FetchKeepsIInv, InsertBatchKeepsIInv, EndJobKeepsIInv, SetValueKeepsIInv
    DEF DbLoop
<1>3. CASE CloseAllDb
  BY <1>3, CloseAllDbKeepsIInv
<1>4. CASE Finish
  BY <1>4, StopKeepsIInv, NotifyAllKeepsIInv, JoinKeepsIInv, ClosedKeepsIInv DEF Finish
<1>5. CASE UNCHANGED vars
  <2>1. UNCHANGED <<mode, dbs, writers, pc, to, promise, answers, db, lost, ok,
                     main, toJoin, joining, closes>>
    BY <1>5 DEF vars, saverVars, dataVars, mainVars
  <2> QED
    BY <2>1 DEF IInv, Types, Registered, Holding, Awaited, Pending, Sticky, Live
<1> QED
  BY <1>1, <1>2, <1>3, <1>4, <1>5 DEF Next, Done

\* The inductive invariant holds in every reachable state.
THEOREM Invariance == Spec => []IInv
<1> QED
  BY InitIInv, NextKeepsIInv, PTL DEF Spec

\* A database has one writer thread at a time (deliverable_consumer.cpp, EnsureDb
\* and CloseAllDb), for every number of savers, paths and closes.
THEOREM SingleWriter == Spec => []OneWriter
<1>0. IInv => DOMAIN writers = 1..Len(writers)
  BY DEF IInv, Types
<1>1. IInv => OneWriter
  <2> SUFFICES ASSUME IInv, NEW i \in 1..Len(writers), NEW j \in 1..Len(writers),
                      Live(i), Live(j), writers[i].db = writers[j].db
               PROVE  i = j
    BY <1>0 DEF OneWriter
  <2> QED
    BY OneLives
<1> QED
  BY <1>1, Invariance, PTL

\* Type correctness of savers, writers and CloseAllDb.
THEOREM TypeCorrect == Spec => []Types
<1>1. IInv => Types
  BY DEF IInv
<1> QED
  BY <1>1, Invariance, PTL

\* A thread of DbLoop leaves no job behind, and no saver that waits in RunDb for
\* an answer that will not come.
THEOREM JobsKept == Spec => []NoneDropped
<1>1. IInv => NoneDropped
  <2> SUFFICES ASSUME IInv, NEW i \in 1..Len(writers), ~Live(i)
               PROVE  /\ writers[i].jobs = << >>
                      /\ \A s \in Savers : pc[s] \in {"notify", "get"} /\ to[s] = i
                                             => promise[s] # "none"
    BY DEF NoneDropped, IInv, Types
  <2>1. writers[i].jobs = << >> /\ writers[i].job = << >>
    BY DEF IInv, Holding, Live
  <2>2. ASSUME NEW s \in Savers
        PROVE  ~Pending(s, i)
    <3>1. <<s>> # << >>
      OBVIOUS
    <3> QED
      BY <2>1, <3>1 DEF Pending
  <2> QED
    BY <2>1, <2>2 DEF IInv, Awaited
<1> QED
  BY <1>1, Invariance, PTL

\* A saver never knows of a failed job before the verdict of the run does
\* (DbLoop clears ok before it sets the value of the promise).
THEOREM FailuresCount == Spec => []FailureInVerdict
<1>1. IInv => FailureInVerdict
  <2> SUFFICES ASSUME IInv, NEW s \in Savers, ok
               PROVE  "failed" \notin ToSet(answers[s]) /\ promise[s] # "failed"
    BY DEF FailureInVerdict
  <2>1. DOMAIN answers[s] = 1..Len(answers[s])
    BY DEF IInv, Types
  <2> QED
    BY <2>1 DEF IInv, Sticky, ToSet
<1> QED
  BY <1>1, Invariance, PTL

-----------------------------------------------------------------------------
(***************************************************************************)
(* The rows.  While a job runs, its rows are the last of its database, for *)
(* only one thread writes there; so they stand together when it ends, and  *)
(* all that it counted are there or lost.                                  *)
(***************************************************************************)
\* The savers whose call a writer has, and nothing else, wait for it.
Waits(s, i) == pc[s] \in {"notify", "get"} /\ promise[s] = "none" /\ to[s] = i
Placed ==
  \A i \in 1..Len(writers) :
    LET w == writers[i]
    IN  /\ \A n \in 1..Len(w.jobs) : Waits(w.jobs[n], i) /\ w.job # <<w.jobs[n]>>
        /\ \A m, n \in 1..Len(w.jobs) : w.jobs[m] = w.jobs[n] => m = n
        /\ \A s \in Savers : w.job = <<s>> => Waits(s, i)

\* A call under way is one the saver has, and its writer is that of its database.
UnderWay ==
  \A s \in Savers :
    /\ pc[s] # "out" => Turn(s) \in 1..Len(Calls[s]) /\ writers[to[s]].db = Call(s).db
    /\ promise[s] # "none" => pc[s] \in {"notify", "get"}

\* A batch of a call is in the database or its COMMIT failed.
RowOf(s, k, b) == [saver |-> s, call |-> k, batch |-> b]
Written(s, k, b) ==
  \/ RowOf(s, k, b) \in lost
  \/ \E p \in Paths : \E n \in 1..Len(db[p]) : p = Calls[s][k].db /\ db[p][n] = RowOf(s, k, b)
Saved(s, k) == \A b \in 1..Calls[s][k].batches : Written(s, k, b)

\* The batches that a job has counted are written; it succeeds when all of them are.
Counted ==
  \A i \in 1..Len(writers) :
    LET w == writers[i]
    IN  /\ w.job = << >> => w.batch = 0
        /\ \A s \in Savers : w.job = <<s>> =>
             /\ \A b \in 1..w.batch : Written(s, Turn(s), b)
             /\ w.at = "answer" /\ w.done => w.batch >= Call(s).batches

\* What was answered true is written.
AnswersKept ==
  \A s \in Savers :
    /\ promise[s] = "saved" => Saved(s, Turn(s))
    /\ \A k \in 1..Len(answers[s]) : answers[s][k] = "saved" => Saved(s, k)

\* Every row is of a call that was made; those of a call whose job still runs stand at
\* the end of their database.
SameCall(r, q) == q.saver = r.saver /\ q.call = r.call
RowKnown(p, n, s) ==
  /\ db[p][n].call <= Turn(s)
  /\ db[p][n].call = Turn(s) =>
       /\ pc[s] \in {"notify", "get"} /\ Call(s).db = p
       /\ promise[s] = "none" =>
            /\ writers[to[s]].job = <<s>> /\ db[p][n].batch <= writers[to[s]].batch
            /\ \A m \in n..Len(db[p]) : SameCall(db[p][n], db[p][m])
RowsKnown ==
  \A p \in Paths, s \in Savers : \A n \in 1..Len(db[p]) :
    db[p][n].saver = s => RowKnown(p, n, s)

\* Rows of one call stand together, in order.
Together ==
  \A p \in Paths : \A m, n \in 1..Len(db[p]) :
    m < n /\ SameCall(db[p][m], db[p][n]) =>
      /\ db[p][m].batch < db[p][n].batch
      /\ \A x \in m..n : SameCall(db[p][m], db[p][x])

RowInv == Placed /\ UnderWay /\ Counted /\ AnswersKept /\ RowsKnown /\ Together

LEMMA InitRowInv == Init => RowInv
<1> SUFFICES ASSUME Init PROVE RowInv
  OBVIOUS
<1> USE DEF Init
<1>1. Len(writers) = 0 /\ \A p \in Paths : Len(db[p]) = 0
  OBVIOUS
<1>2. \A s \in Savers : pc[s] = "out" /\ promise[s] = "none" /\ Len(answers[s]) = 0
  OBVIOUS
<1> QED
  BY <1>1, <1>2 DEF RowInv, Placed, UnderWay, Counted, AnswersKept, RowsKnown, Together

LEMMA TypeOfRow ==
  ASSUME IInv, NEW p \in Paths, NEW n \in 1..Len(db[p])
  PROVE  /\ db[p][n] \in Row /\ db[p][n].saver \in Savers
         /\ db[p][n].call \in Nat /\ db[p][n].batch \in Nat
<1>1. db[p] \in Seq(Row)
  BY DEF IInv, Types
<1>2. db[p][n] \in Row
  BY <1>1, ElementOfSeq
<1> QED
  BY <1>2 DEF Row

\* A step that moves no job, writes no row and answers no call.
LEMMA SteadyKeepsRowInv ==
  ASSUME IInv, RowInv, UNCHANGED <<to, promise, answers, db, lost>>,
         \A t \in Savers : pc'[t] = pc[t] \/ (pc[t] = "notify" /\ pc'[t] = "get"),
         Len(writers') = Len(writers),
         \A j \in 1..Len(writers) :
           /\ writers'[j].jobs = writers[j].jobs /\ writers'[j].job = writers[j].job
           /\ writers'[j].db = writers[j].db /\ writers'[j].batch = writers[j].batch
           /\ writers'[j].at = "answer" /\ writers'[j].done =>
                \/ writers[j].at = "answer" /\ writers[j].done
                \/ \A s \in Savers : writers[j].job = <<s>> => writers[j].batch >= Call(s).batches
  PROVE  RowInv'
<1>1. \A t \in Savers : Turn(t)' = Turn(t) /\ Call(t)' = Call(t)
  BY DEF Turn, Call
<1>2. ASSUME NEW t \in Savers
      PROVE  /\ pc'[t] = "out" <=> pc[t] = "out"
             /\ pc'[t] \in {"notify", "get"} <=> pc[t] \in {"notify", "get"}
             /\ pc[t] # "out" => to[t] \in 1..Len(writers)
  BY DEF IInv, Awaited
<1>3. Placed'
  <2>1. ASSUME NEW i \in 1..Len(writers)
        PROVE  writers[i].jobs \in Seq(Savers)
    BY <2>1, TypeOfWriter
  <2>2. ASSUME NEW i \in 1..Len(writers), NEW n \in 1..Len(writers[i].jobs)
        PROVE  writers[i].jobs[n] \in Savers
    BY <2>1, <2>2, ElementOfSeq
  <2>3. ASSUME NEW i \in 1..Len(writers), NEW t \in Savers, Waits(t, i)
        PROVE  Waits(t, i)'
    BY <1>2, <2>3 DEF Waits
  <2>4. ASSUME NEW i \in 1..Len(writers)
        PROVE  /\ \A n \in 1..Len(writers[i].jobs) :
                    Waits(writers[i].jobs[n], i)' /\ writers[i].job # <<writers[i].jobs[n]>>
               /\ \A m, n \in 1..Len(writers[i].jobs) :
                    writers[i].jobs[m] = writers[i].jobs[n] => m = n
               /\ \A s \in Savers : writers[i].job = <<s>> => Waits(s, i)'
    BY <2>2, <2>3 DEF RowInv, Placed
  <2>5. ASSUME NEW i \in 1..Len(writers), NEW t, Waits(t, i)'
        PROVE  pc'[t] \in {"notify", "get"} /\ promise'[t] = "none" /\ to'[t] = i
    BY <2>5 DEF Waits
  <2> QED
    BY <2>4, <2>5 DEF Placed, Waits
<1>4. UnderWay'
  BY <1>1, <1>2 DEF RowInv, UnderWay
<1>5. \A s, k, b : Written(s, k, b)' <=> Written(s, k, b)
  BY DEF Written, RowOf
<1>6. Counted'
  BY <1>1, <1>5 DEF RowInv, Counted
<1>7. AnswersKept'
  BY <1>1, <1>5 DEF RowInv, AnswersKept, Saved
<1>8. RowsKnown'
  <2>1. ASSUME NEW s \in Savers, pc[s] # "out" PROVE to[s] \in 1..Len(writers)
    BY <1>2, <2>1
  <2> QED
    BY <1>1, <1>2, <2>1 DEF RowInv, RowsKnown, RowKnown, SameCall
<1>9. Together'
  BY DEF RowInv, Together, SameCall
<1> QED
  BY <1>3, <1>4, <1>6, <1>7, <1>8, <1>9 DEF RowInv

\* A call that is not waiting for a writer has no job anywhere.
LEMMA NotPlaced ==
  ASSUME IInv, RowInv, NEW s \in Savers, pc[s] \in {"out", "push"} \/ promise[s] # "none",
         NEW i \in 1..Len(writers)
  PROVE  /\ \A n \in 1..Len(writers[i].jobs) : writers[i].jobs[n] # s
         /\ writers[i].job # <<s>>
  BY DEF RowInv, Placed, Waits

\* The next call of a saver begins.
LEMMA AnswerKeepsRowInv ==
  ASSUME IInv, RowInv, NEW s \in Savers, NEW a \in Answers, Answer(s, a),
         UNCHANGED <<dbs, writers, db, lost>>,
         pc[s] \in {"out", "push"} \/ promise[s] # "none",
         a = "saved" => Saved(s, Turn(s))
  PROVE  RowInv'
<1> USE DEF Answer
<1>1. /\ Len(answers[s]) \in Nat /\ Len(answers'[s]) = Len(answers[s]) + 1
      /\ \A n \in 1..Len(answers[s]) : answers'[s][n] = answers[s][n]
      /\ answers'[s][Turn(s)] = a
      /\ pc'[s] = "out" /\ promise'[s] = "none" /\ to'[s] = 0
      /\ Turn(s)' = Turn(s) + 1 /\ Turn(s) \in Nat
  <2>1. /\ answers[s] \in Seq(Answers)
        /\ Len(Append(answers[s], a)) = Len(answers[s]) + 1
        /\ \A n \in 1..Len(answers[s]) : Append(answers[s], a)[n] = answers[s][n]
        /\ Append(answers[s], a)[Len(answers[s]) + 1] = a
    BY AppendProperties DEF IInv, Types
  <2>2. answers'[s] = Append(answers[s], a)
    BY DEF IInv, Types
  <2> QED
    BY <2>1, <2>2 DEF IInv, Types, Turn
<1>2. ASSUME NEW t \in Savers, t # s
      PROVE  /\ pc'[t] = pc[t] /\ promise'[t] = promise[t] /\ to'[t] = to[t]
             /\ answers'[t] = answers[t] /\ Turn(t)' = Turn(t) /\ Call(t)' = Call(t)
  BY <1>2 DEF IInv, Types, Turn, Call
<1>3. ASSUME NEW i \in 1..Len(writers)
      PROVE  /\ \A n \in 1..Len(writers[i].jobs) : writers[i].jobs[n] \in Savers \ {s}
             /\ writers[i].job # <<s>>
  <2>1. writers[i].jobs \in Seq(Savers)
    BY TypeOfWriter
  <2> QED
    BY <2>1, NotPlaced, ElementOfSeq
<1>4. Placed'
  <2>1. ASSUME NEW i \in 1..Len(writers), NEW t \in Savers, t # s, Waits(t, i)
        PROVE  pc'[t] \in {"notify", "get"} /\ promise'[t] = "none" /\ to'[t] = i
    BY <1>2, <2>1 DEF Waits
  <2> QED
    BY <1>3, <2>1 DEF RowInv, Placed, Waits
<1>5. UnderWay'
  <2>1. ASSUME NEW t \in Savers, t # s, pc[t] # "out"
        PROVE  Turn(t) \in 1..Len(Calls[t]) /\ writers[to[t]].db = Call(t).db
    BY <2>1 DEF RowInv, UnderWay
  <2> QED
    BY <1>1, <1>2, <2>1 DEF RowInv, UnderWay
<1>6. \A t, k, b : Written(t, k, b)' <=> Written(t, k, b)
  BY DEF Written, RowOf
<1>7. Counted'
  BY <1>2, <1>3, <1>6 DEF RowInv, Counted
<1>8. AnswersKept'
  <2>1. \A t, k : Saved(t, k)' <=> Saved(t, k)
    BY <1>6 DEF Saved
  <2>2. ASSUME NEW t \in Savers, t # s
        PROVE  /\ promise'[t] = "saved" => Saved(t, Turn(t))
               /\ \A k \in 1..Len(answers'[t]) : answers'[t][k] = "saved" => Saved(t, k)
    BY <1>2, <2>2 DEF RowInv, AnswersKept
  <2>3. ASSUME NEW k \in 1..Len(answers'[s]), answers'[s][k] = "saved"
        PROVE  Saved(s, k)
    <3>1. CASE k = Turn(s)
      BY <1>1, <2>3, <3>1
    <3>2. CASE k \in 1..Len(answers[s])
      BY <1>1, <2>3, <3>2 DEF RowInv, AnswersKept
    <3> QED
      BY <1>1, <3>1, <3>2 DEF Turn
  <2> QED
    BY <1>1, <1>2, <2>1, <2>2, <2>3 DEF AnswersKept
<1>9. RowsKnown'
  <2> SUFFICES ASSUME NEW p \in Paths, NEW t \in Savers, NEW n \in 1..Len(db[p]),
                      db[p][n].saver = t
               PROVE  /\ db[p][n].call <= Turn(t)'
                      /\ db[p][n].call = Turn(t)' =>
                           /\ pc'[t] \in {"notify", "get"} /\ Call(t)'.db = p
                           /\ promise'[t] = "none" =>
                                /\ writers[to'[t]].job = <<t>>
                                /\ db[p][n].batch <= writers[to'[t]].batch
                                /\ \A m \in n..Len(db[p]) : SameCall(db[p][n], db[p][m])
    BY DEF RowsKnown, RowKnown, SameCall
  <2>1. CASE t = s
    <3>1. db[p][n].call <= Turn(s) /\ db[p][n].call \in Nat
      BY <2>1, TypeOfRow DEF RowInv, RowsKnown, RowKnown
    <3> QED
      BY <1>1, <2>1, <3>1
  <2>2. CASE t # s
    BY <1>2, <2>2 DEF RowInv, RowsKnown, RowKnown
  <2> QED
    BY <2>1, <2>2
<1>10. Together'
  BY DEF RowInv, Together, SameCall
<1> QED
  BY <1>4, <1>5, <1>7, <1>8, <1>9, <1>10 DEF RowInv

\* A saver that goes on without a job of its own, while the writers keep theirs.
LEMMA OnwardKeepsRowInv ==
  ASSUME IInv, RowInv, NEW s \in Savers, pc[s] = "out", MayCall(s),
         pc' = [pc EXCEPT ![s] = "push"], NEW i \in 1..Len(writers'), to' = [to EXCEPT ![s] = i],
         UNCHANGED <<promise, answers, db, lost>>,
         Len(writers') \in Nat, Len(writers) <= Len(writers'),
         \A j \in 1..Len(writers) : writers'[j] = writers[j],
         \A j \in 1..Len(writers') : j > Len(writers) =>
           writers'[j].jobs = << >> /\ writers'[j].job = << >> /\ writers'[j].batch = 0,
         writers'[i].db = Call(s).db
  PROVE  RowInv'
<1>0. Len(writers) \in Nat
  BY DEF IInv, Types
<1>1. /\ \A t \in Savers : Turn(t)' = Turn(t) /\ Call(t)' = Call(t)
      /\ Turn(s) \in 1..Len(Calls[s])
  <2>1. Len(answers[s]) \in Nat
    BY DEF IInv, Types
  <2> QED
    BY <2>1 DEF Turn, Call, MayCall
<1>2. ASSUME NEW t \in Savers, t # s
      PROVE  pc'[t] = pc[t] /\ to'[t] = to[t]
  BY <1>2 DEF IInv, Types
<1>3. pc'[s] = "push" /\ to'[s] = i /\ promise[s] = "none"
  BY DEF IInv, Types, RowInv, UnderWay
<1>t. ASSUME NEW t \in Savers, t # s, pc[t] # "out"
      PROVE  to[t] \in 1..Len(writers) /\ writers'[to[t]] = writers[to[t]]
  BY <1>t DEF IInv, Awaited
<1>4. Placed'
  <2> DEFINE WaitsNext(t, j) == pc'[t] \in {"notify", "get"} /\ promise'[t] = "none" /\ to'[t] = j
  <2>0. ASSUME NEW j \in 1..Len(writers), NEW n \in 1..Len(writers[j].jobs)
        PROVE  writers[j].jobs[n] \in Savers
    <3>1. writers[j].jobs \in Seq(Savers)
      BY <2>0, TypeOfWriter
    <3> QED
      BY <2>0, <3>1, ElementOfSeq
  <2>1. ASSUME NEW j \in 1..Len(writers), NEW t \in Savers, Waits(t, j)
        PROVE  WaitsNext(t, j)
    BY <1>2, <2>1 DEF Waits
  <2>2. ASSUME NEW j \in 1..Len(writers'), j > Len(writers), NEW t
        PROVE  <<t>> # writers'[j].job
    <3>1. <<t>> # << >> /\ writers'[j].job = << >>
      BY <2>2
    <3> QED
      BY <3>1
  <2>3. ASSUME NEW j \in 1..Len(writers')
        PROVE  j \in 1..Len(writers) \/ j > Len(writers)
    BY <1>0
  <2>4. ASSUME NEW j \in 1..Len(writers')
        PROVE  /\ \A n \in 1..Len(writers'[j].jobs) :
                    WaitsNext(writers'[j].jobs[n], j) /\ writers'[j].job # <<writers'[j].jobs[n]>>
               /\ \A m, n \in 1..Len(writers'[j].jobs) :
                    writers'[j].jobs[m] = writers'[j].jobs[n] => m = n
               /\ \A t \in Savers : writers'[j].job = <<t>> => WaitsNext(t, j)
    <3>1. CASE j \in 1..Len(writers)
      <4>1. writers'[j] = writers[j]
        BY <3>1
      <4>2. /\ \A n \in 1..Len(writers[j].jobs) :
                  Waits(writers[j].jobs[n], j) /\ writers[j].job # <<writers[j].jobs[n]>>
            /\ \A m, n \in 1..Len(writers[j].jobs) : writers[j].jobs[m] = writers[j].jobs[n] => m = n
            /\ \A t \in Savers : writers[j].job = <<t>> => Waits(t, j)
        BY <3>1 DEF RowInv, Placed
      <4>3. /\ \A n \in 1..Len(writers[j].jobs) : WaitsNext(writers[j].jobs[n], j)
            /\ \A t \in Savers : writers[j].job = <<t>> => WaitsNext(t, j)
        <5> HIDE DEF WaitsNext
        <5> QED
          BY <2>0, <2>1, <3>1, <4>2
      <4> HIDE DEF WaitsNext
      <4> QED
        BY <4>1, <4>2, <4>3
    <3>2. CASE j > Len(writers)
      BY <2>2, <3>2
    <3> QED
      BY <2>3, <3>1, <3>2
  <2> QED
    BY <2>4 DEF Placed, Waits
<1>5. UnderWay'
  <2>1. ASSUME NEW t \in Savers, t # s, pc[t] # "out"
        PROVE  Turn(t) \in 1..Len(Calls[t]) /\ writers'[to[t]].db = Call(t).db
    BY <1>t, <2>1 DEF RowInv, UnderWay
  <2> QED
    BY <1>1, <1>2, <1>3, <2>1 DEF RowInv, UnderWay
<1>6. \A t, k, b : Written(t, k, b)' <=> Written(t, k, b)
  BY DEF Written, RowOf
<1>7. Counted'
  <2>1. ASSUME NEW j \in 1..Len(writers')
        PROVE  j \in 1..Len(writers) \/ j > Len(writers)
    BY <1>0
  <2>2. ASSUME NEW j \in 1..Len(writers'), j > Len(writers), NEW t
        PROVE  <<t>> # writers'[j].job
    <3>1. <<t>> # << >> /\ writers'[j].job = << >>
      BY <2>2
    <3> QED
      BY <3>1
  <2> QED
    BY <1>1, <1>6, <2>1, <2>2 DEF RowInv, Counted
<1>8. AnswersKept'
  BY <1>1, <1>6 DEF RowInv, AnswersKept, Saved
<1>9. RowsKnown'
  <2> SUFFICES ASSUME NEW p \in Paths, NEW t \in Savers, NEW n \in 1..Len(db[p]),
                      db[p][n].saver = t
               PROVE  /\ db[p][n].call <= Turn(t)
                      /\ db[p][n].call = Turn(t) =>
                           /\ pc'[t] \in {"notify", "get"} /\ Call(t).db = p
                           /\ promise[t] = "none" =>
                                /\ writers'[to'[t]].job = <<t>>
                                /\ db[p][n].batch <= writers'[to'[t]].batch
                                /\ \A m \in n..Len(db[p]) : SameCall(db[p][n], db[p][m])
    BY <1>1 DEF RowsKnown, RowKnown, SameCall
  <2>1. CASE t = s
    BY <2>1 DEF RowInv, RowsKnown, RowKnown
  <2>2. CASE t # s
    <3>1. pc[t] \in {"notify", "get"} => writers'[to[t]] = writers[to[t]]
      BY <1>t, <2>2
    <3>2. /\ db[p][n].call <= Turn(t)
          /\ db[p][n].call = Turn(t) =>
               /\ pc[t] \in {"notify", "get"} /\ Call(t).db = p
               /\ promise[t] = "none" =>
                    /\ writers[to[t]].job = <<t>> /\ db[p][n].batch <= writers[to[t]].batch
                    /\ \A m \in n..Len(db[p]) : SameCall(db[p][n], db[p][m])
      BY DEF RowInv, RowsKnown, RowKnown
    <3>3. pc'[t] = pc[t] /\ to'[t] = to[t]
      BY <1>2, <2>2
    <3> QED
      BY <3>1, <3>2, <3>3
  <2> QED
    BY <2>1, <2>2
<1>10. Together'
  BY DEF RowInv, Together, SameCall
<1> QED
  BY <1>4, <1>5, <1>7, <1>8, <1>9, <1>10 DEF RowInv

LEMMA EnsureDbKeepsRowInv ==
  ASSUME IInv, RowInv, NEW s \in Savers, EnsureDb(s)
  PROVE  RowInv'
<1> DEFINE p == Call(s).db
           new == Len(writers) + 1
<1>t. /\ Types /\ Len(writers) \in Nat /\ p \in Paths /\ pc[s] = "out" /\ MayCall(s)
      /\ UNCHANGED <<db, lost>>
  BY CallTyped DEF IInv, Types, EnsureDb, MayCall, dataVars
<1>1. CASE /\ dbs[p] # 0 /\ to' = [to EXCEPT ![s] = dbs[p]]
           /\ pc' = [pc EXCEPT ![s] = "push"] /\ UNCHANGED <<dbs, writers, promise, answers>>
  <2>1. dbs[p] \in 1..Len(writers) /\ writers[dbs[p]].db = p
    BY <1>1, <1>t DEF IInv, Types, Registered
  <2>2. /\ writers' = writers /\ dbs[p] \in 1..Len(writers')
        /\ Len(writers') \in Nat /\ Len(writers) <= Len(writers')
        /\ \A j \in 1..Len(writers) : writers'[j] = writers[j]
        /\ \A j \in 1..Len(writers') : ~(j > Len(writers))
        /\ UNCHANGED <<promise, answers, db, lost>>
    BY <1>1, <1>t, <2>1
  <2> HIDE DEF p
  <2>3. writers'[dbs[p]].db = Call(s).db
    BY <2>1, <2>2 DEF p
  <2> QED
    BY <1>1, <1>t, <2>2, <2>3, OnwardKeepsRowInv
<1>2. CASE /\ dbs[p] = 0 /\ writers' = Append(writers, NewWriter(p))
           /\ dbs' = [dbs EXCEPT ![p] = new] /\ to' = [to EXCEPT ![s] = new]
           /\ pc' = [pc EXCEPT ![s] = "push"] /\ UNCHANGED <<promise, answers>>
  <2>1. NewWriter(p) \in WriterType
    BY <1>t DEF NewWriter, WriterType
  <2>2. /\ Len(writers') = new
        /\ \A j \in 1..Len(writers) : writers'[j] = writers[j]
        /\ writers'[new] = NewWriter(p)
    BY <1>2, <1>t, <2>1, AppendProperties DEF Types
  <2>3. /\ new \in 1..Len(writers') /\ Len(writers') \in Nat /\ Len(writers) <= Len(writers')
        /\ \A j \in 1..Len(writers') : j > Len(writers) => j = new
    BY <1>t, <2>2
  <2>4. /\ writers'[new].jobs = << >> /\ writers'[new].job = << >> /\ writers'[new].batch = 0
        /\ writers'[new].db = Call(s).db
    BY <2>2 DEF NewWriter
  <2>5. UNCHANGED <<promise, answers, db, lost>>
    BY <1>2, <1>t
  <2> HIDE DEF new, p
  <2> QED
    BY <1>2, <1>t, <2>2, <2>3, <2>4, <2>5, OnwardKeepsRowInv
<1>3. CASE Answer(s, "threw") /\ UNCHANGED <<dbs, writers>>
  BY <1>3, <1>t, AnswerKeepsRowInv DEF Answers
<1> QED
  BY <1>1, <1>2, <1>3 DEF EnsureDb

\* A job joins the queue of its writer, which has none of that saver.
LEMMA PushKeepsRowInv ==
  ASSUME IInv, RowInv, NEW s \in Savers, Push(s)
  PROVE  RowInv'
<1>u. pc[s] = "push" /\ UNCHANGED <<mode, dbs, db, lost>>
  BY DEF Push, dataVars
<1>1. CASE Answer(s, "refused") /\ UNCHANGED writers
  BY <1>1, <1>u, AnswerKeepsRowInv DEF Answers
<1>2. CASE /\ ~writers[to[s]].stop
           /\ writers' = [writers EXCEPT ![to[s]].jobs = Append(@, s)]
           /\ pc' = [pc EXCEPT ![s] = "notify"] /\ UNCHANGED <<to, promise, answers>>
  <2> DEFINE i == to[s]
             jobs == Append(writers[i].jobs, s)
  <2>1. i \in 1..Len(writers) /\ Types /\ Len(writers) \in Nat /\ DOMAIN writers = 1..Len(writers)
    BY <1>u DEF IInv, Awaited, Types
  <2>2. writers[i] \in WriterType /\ writers[i].jobs \in Seq(Savers)
    BY <2>1, TypeOfWriter
  <2>3. /\ jobs \in Seq(Savers) /\ Len(jobs) = Len(writers[i].jobs) + 1
        /\ Len(writers[i].jobs) \in Nat /\ jobs[Len(jobs)] = s
        /\ \A n \in 1..Len(writers[i].jobs) : jobs[n] = writers[i].jobs[n]
    BY <2>2, AppendProperties
  <2> DEFINE w == [writers[i] EXCEPT !.jobs = jobs]
  <2>w. /\ w \in WriterType /\ w.jobs = jobs /\ w.job = writers[i].job /\ w.at = writers[i].at
        /\ w.db = writers[i].db /\ w.done = writers[i].done /\ w.batch = writers[i].batch
    BY <2>2, <2>3 DEF WriterType
  <2>4. Len(writers') = Len(writers) /\ Becomes(i, w)
    <3>1. Becomes(i, w)
      BY <1>2, <2>1, <2>w, Change
    <3> QED
      BY <3>1 DEF Becomes
  <2>5. /\ writers'[i].jobs = jobs
        /\ \A j \in 1..Len(writers) :
             /\ writers'[j].job = writers[j].job /\ writers'[j].db = writers[j].db
             /\ writers'[j].batch = writers[j].batch /\ writers'[j].done = writers[j].done
             /\ writers'[j].at = writers[j].at
             /\ j # i => writers'[j].jobs = writers[j].jobs
    <3> HIDE DEF w
    <3> QED
      BY <2>w, <2>4 DEF Becomes
  <2>6. \A t \in Savers : Turn(t)' = Turn(t) /\ Call(t)' = Call(t)
    BY <1>2 DEF Turn, Call
  <2>7. pc'[s] = "notify" /\ promise[s] = "none" /\ \A t \in Savers : t # s => pc'[t] = pc[t]
    BY <1>2, <1>u DEF IInv, Types, RowInv, UnderWay
  <2>8. ASSUME NEW j \in 1..Len(writers), NEW n \in 1..Len(writers[j].jobs)
        PROVE  writers[j].jobs[n] \in Savers \ {s}
    <3>1. writers[j].jobs \in Seq(Savers)
      BY <2>8, TypeOfWriter
    <3>2. writers[j].jobs[n] \in Savers
      BY <2>8, <3>1, ElementOfSeq
    <3> QED
      BY <1>u, <2>8, <3>2, NotPlaced
  <2>9. ASSUME NEW j \in 1..Len(writers)
        PROVE  writers[j].job # <<s>>
    BY <1>u, <2>9, NotPlaced
  <2> HIDE DEF jobs
  <2>10. Placed'
    <3> DEFINE WaitsNext(t, j) == pc'[t] \in {"notify", "get"} /\ promise'[t] = "none" /\ to'[t] = j
    <3>1. ASSUME NEW j \in 1..Len(writers), NEW t \in Savers, Waits(t, j)
          PROVE  WaitsNext(t, j)
      BY <1>2, <2>7, <3>1 DEF Waits
    <3>2. WaitsNext(s, i)
      BY <1>2, <2>7
    <3> HIDE DEF WaitsNext, i
    <3>3. ASSUME NEW j \in 1..Len(writers)
          PROVE  /\ \A n \in 1..Len(writers[j].jobs) :
                      WaitsNext(writers[j].jobs[n], j) /\ writers[j].job # <<writers[j].jobs[n]>>
                 /\ \A m, n \in 1..Len(writers[j].jobs) : writers[j].jobs[m] = writers[j].jobs[n] => m = n
                 /\ \A t \in Savers : writers[j].job = <<t>> => WaitsNext(t, j)
      <4>1. /\ \A n \in 1..Len(writers[j].jobs) :
                 Waits(writers[j].jobs[n], j) /\ writers[j].job # <<writers[j].jobs[n]>>
            /\ \A m, n \in 1..Len(writers[j].jobs) : writers[j].jobs[m] = writers[j].jobs[n] => m = n
            /\ \A t \in Savers : writers[j].job = <<t>> => Waits(t, j)
        BY DEF RowInv, Placed
      <4> QED
        BY <2>8, <3>1, <4>1
    <3>4. ASSUME NEW j \in 1..Len(writers)
          PROVE  /\ \A n \in 1..Len(writers'[j].jobs) :
                      WaitsNext(writers'[j].jobs[n], j) /\ writers'[j].job # <<writers'[j].jobs[n]>>
                 /\ \A m, n \in 1..Len(writers'[j].jobs) :
                      writers'[j].jobs[m] = writers'[j].jobs[n] => m = n
                 /\ \A t \in Savers : writers'[j].job = <<t>> => WaitsNext(t, j)
      <4>1. CASE j # i
        BY <2>5, <3>3, <4>1
      <4>2. CASE j = i
        <5>1. \A n \in 1..Len(jobs) : n \in 1..Len(writers[i].jobs) \/ n = Len(jobs)
          BY <2>3
        <5>2. \A n \in 1..Len(writers[i].jobs) : writers[i].jobs[n] # s
          BY <2>1, <2>8
        <5>3. writers'[i].jobs = jobs /\ writers'[i].job = writers[i].job /\ writers[i].job # <<s>>
          BY <2>1, <2>5, <2>9
        <5>4. \A n \in 1..Len(jobs) :
                WaitsNext(jobs[n], i) /\ writers[i].job # <<jobs[n]>>
          BY <2>1, <2>3, <3>2, <3>3, <5>1, <5>3
        <5>5. \A m, n \in 1..Len(jobs) : jobs[m] = jobs[n] => m = n
          <6> SUFFICES ASSUME NEW m \in 1..Len(jobs), NEW n \in 1..Len(jobs), jobs[m] = jobs[n]
                       PROVE  m = n
            OBVIOUS
          <6>1. CASE m \in 1..Len(writers[i].jobs) /\ n \in 1..Len(writers[i].jobs)
            BY <2>1, <2>3, <3>3, <6>1
          <6>2. CASE ~(m \in 1..Len(writers[i].jobs)) \/ ~(n \in 1..Len(writers[i].jobs))
            BY <2>3, <5>1, <5>2, <6>2
          <6> QED
            BY <6>1, <6>2
        <5>6. \A t \in Savers : writers[i].job = <<t>> => WaitsNext(t, i)
          BY <2>1, <3>3
        <5> QED
          BY <4>2, <5>3, <5>4, <5>5, <5>6
      <4> QED
        BY <4>1, <4>2
    <3> QED
      BY <2>4, <3>4 DEF Placed, Waits, WaitsNext
  <2>11. UnderWay'
    <3>1. ASSUME NEW t \in Savers, pc'[t] # "out"
          PROVE  pc[t] # "out" /\ to[t] \in 1..Len(writers)
      BY <1>u, <2>7, <3>1 DEF IInv, Awaited
    <3>2. ASSUME NEW t \in Savers, promise[t] # "none"
          PROVE  pc'[t] \in {"notify", "get"}
      BY <2>7, <3>2 DEF RowInv, UnderWay
    <3> HIDE DEF i
    <3> QED
      BY <1>2, <2>5, <2>6, <3>1, <3>2 DEF RowInv, UnderWay
  <2>12. \A t, k, b : Written(t, k, b)' <=> Written(t, k, b)
    BY <1>u DEF Written, RowOf
  <2>13. Counted'
    BY <2>4, <2>5, <2>6, <2>12 DEF RowInv, Counted
  <2>14. AnswersKept'
    BY <1>2, <2>6, <2>12 DEF RowInv, AnswersKept, Saved
  <2>15. RowsKnown'
    <3> SUFFICES ASSUME NEW p \in Paths, NEW t \in Savers, NEW n \in 1..Len(db[p]),
                        db[p][n].saver = t
                 PROVE  RowKnown(p, n, t)'
      BY <1>u DEF RowsKnown
    <3>1. RowKnown(p, n, t)
      BY DEF RowInv, RowsKnown
    <3>2. pc[t] \in {"notify", "get"} => pc'[t] = pc[t] /\ to[t] \in 1..Len(writers)
      BY <1>u, <2>7 DEF IInv, Awaited
    <3> HIDE DEF i
    <3> QED
      BY <1>2, <1>u, <2>5, <2>6, <3>1, <3>2 DEF RowKnown, SameCall
  <2>16. Together'
    BY <1>u DEF RowInv, Together, SameCall
  <2> QED
    BY <2>10, <2>11, <2>13, <2>14, <2>15, <2>16 DEF RowInv
<1> QED
  BY <1>1, <1>2 DEF Push

\* Waking a writer and telling it to stop leave its jobs and rows alone.
LEMMA WakingKeepsRowInv ==
  ASSUME IInv, RowInv, NEW i \in 1..Len(writers), writers' = Woken(i),
         UNCHANGED <<to, promise, answers, db, lost>>,
         \A t \in Savers : pc'[t] = pc[t] \/ (pc[t] = "notify" /\ pc'[t] = "get")
  PROVE  RowInv'
<1>1. writers[i] \in WriterType /\ writers \in Seq(WriterType)
  BY TypeOfWriter DEF IInv, Types
<1> DEFINE w == [writers[i] EXCEPT !.at = IF @ = "sleep" THEN "check" ELSE @]
<1>2. /\ w \in WriterType /\ w.jobs = writers[i].jobs /\ w.job = writers[i].job
      /\ w.db = writers[i].db /\ w.done = writers[i].done /\ w.batch = writers[i].batch
      /\ w.at = "answer" => writers[i].at = "answer"
  BY <1>1 DEF WriterType
<1>3. writers' = [writers EXCEPT ![i] = w]
  BY DEF Woken
<1> HIDE DEF w
<1>4. Becomes(i, w)
  BY <1>1, <1>2, <1>3, Change DEF IInv
<1>5. /\ Len(writers') = Len(writers)
      /\ \A j \in 1..Len(writers) :
           /\ writers'[j].jobs = writers[j].jobs /\ writers'[j].job = writers[j].job
           /\ writers'[j].db = writers[j].db /\ writers'[j].batch = writers[j].batch
           /\ writers'[j].at = "answer" /\ writers'[j].done =>
                writers[j].at = "answer" /\ writers[j].done
  BY <1>2, <1>4 DEF Becomes
<1> QED
  BY <1>5, SteadyKeepsRowInv

LEMMA NotifyOneKeepsRowInv ==
  ASSUME IInv, RowInv, NEW s \in Savers, NotifyOne(s)
  PROVE  RowInv'
<1>1. to[s] \in 1..Len(writers) /\ UNCHANGED <<to, promise, answers, db, lost>>
  BY DEF IInv, Awaited, NotifyOne, dataVars
<1>2. \A t \in Savers : pc'[t] = pc[t] \/ (pc[t] = "notify" /\ pc'[t] = "get")
  BY DEF IInv, Types, NotifyOne
<1>3. writers' = Woken(to[s])
  BY DEF NotifyOne
<1> QED
  BY <1>1, <1>2, <1>3, WakingKeepsRowInv

LEMMA GetKeepsRowInv ==
  ASSUME IInv, RowInv, NEW s \in Savers, Get(s)
  PROVE  RowInv'
<1>1. promise[s] \in Answers /\ promise[s] # "none" /\ (promise[s] = "saved" => Saved(s, Turn(s)))
  BY DEF IInv, Types, Get, Answers, RowInv, AnswersKept
<1> QED
  BY <1>1, AnswerKeepsRowInv DEF Get, dataVars

\* A writer that changes where it is, and nothing that concerns its jobs.
LEMMA IdlingKeepsRowInv ==
  ASSUME IInv, RowInv, NEW i \in 1..Len(writers), NEW w, Becomes(i, w),
         UNCHANGED <<pc, to, promise, answers, db, lost>>,
         w.jobs = writers[i].jobs, w.job = writers[i].job, w.db = writers[i].db,
         w.batch = writers[i].batch,
         w.at = "answer" /\ w.done =>
           \/ writers[i].at = "answer" /\ writers[i].done
           \/ \A s \in Savers : writers[i].job = <<s>> => writers[i].batch >= Call(s).batches
  PROVE  RowInv'
<1>1. Len(writers') = Len(writers)
  BY DEF Becomes
<1>2. ASSUME NEW j \in 1..Len(writers)
      PROVE  /\ writers'[j].jobs = writers[j].jobs /\ writers'[j].job = writers[j].job
             /\ writers'[j].db = writers[j].db /\ writers'[j].batch = writers[j].batch
             /\ writers'[j].at = "answer" /\ writers'[j].done =>
                  \/ writers[j].at = "answer" /\ writers[j].done
                  \/ \A s \in Savers : writers[j].job = <<s>> => writers[j].batch >= Call(s).batches
  <2>1. CASE j = i
    BY <2>1 DEF Becomes
  <2>2. CASE j # i
    BY <2>2 DEF Becomes
  <2> QED
    BY <2>1, <2>2
<1> QED
  BY <1>1, <1>2, SteadyKeepsRowInv

LEMMA EndJobKeepsRowInv ==
  ASSUME IInv, RowInv, NEW i \in 1..Len(writers), EndJob(i)
  PROVE  RowInv'
<1>1. PICK success \in BOOLEAN :
        /\ IF success THEN ~MoreBatches(i) ELSE "job" \in mode.faults
        /\ writers' = [writers EXCEPT ![i].at = "answer", ![i].done = success]
  BY DEF EndJob
<1> DEFINE v == writers[i]
           w == [v EXCEPT !.at = "answer", !.done = success]
<1>2. v \in WriterType /\ Types /\ v.at = "run" /\ Job(i) \in Savers /\ v.job = <<Job(i)>>
  BY TypeOfWriter, JobTyped DEF IInv, EndJob
<1>3. /\ w \in WriterType /\ w.db = v.db /\ w.done = success /\ w.batch = v.batch
      /\ w.jobs = v.jobs /\ w.job = v.job
  BY <1>2 DEF WriterType
<1>4. writers' = [writers EXCEPT ![i] = w] /\ UNCHANGED <<pc, to, promise, answers, db, lost>>
  BY <1>1, <1>2 DEF EndJob, Types, saverVars
<1> HIDE DEF w
<1>5. Becomes(i, w)
  BY <1>2, <1>3, <1>4, Change
<1>6. ASSUME success, NEW s \in Savers, v.job = <<s>>
      PROVE  v.batch >= Call(s).batches
  <2>1. s = Job(i)
    BY <1>2, <1>6
  <2>2. Call(s).batches \in Nat
    <3>1. pc[s] # "out"
      BY <1>6 DEF RowInv, Placed, Waits
    <3>2. Turn(s) \in 1..Len(Calls[s]) /\ Calls[s] \in Seq([db: Paths, batches: Nat])
      BY <3>1, ConstantsAssumption DEF RowInv, UnderWay
    <3>3. Calls[s][Turn(s)] \in [db: Paths, batches: Nat]
      BY <3>2, ElementOfSeq
    <3> QED
      BY <3>3 DEF Call
  <2>3. ~(v.batch < Call(s).batches)
    BY <1>1, <1>6, <2>1 DEF MoreBatches
  <2>4. v.batch \in Nat
    BY <1>2 DEF WriterType
  <2> HIDE DEF v
  <2> QED
    BY <2>2, <2>3, <2>4
<1> HIDE DEF v
<1>7. w.at = "answer" /\ w.done => \A s \in Savers : v.job = <<s>> => v.batch >= Call(s).batches
  BY <1>3, <1>6
<1> QED
  BY <1>3, <1>4, <1>5, <1>7, IdlingKeepsRowInv DEF v

\* The next job begins: its saver waits on, and none of its rows is written.
LEMMA FetchKeepsRowInv ==
  ASSUME IInv, RowInv, NEW i \in 1..Len(writers), Fetch(i)
  PROVE  RowInv'
<1> DEFINE v == writers[i]
<1>1. /\ v \in WriterType /\ Types /\ v.at = "check" /\ v.job = << >> /\ v.batch = 0
      /\ v.jobs \in Seq(Savers) /\ UNCHANGED <<pc, to, promise, answers, db, lost>>
  BY TypeOfWriter DEF IInv, Types, Fetch, Holding, RowInv, Counted, saverVars, dataVars
<1>2. CASE v.jobs = << >>
  <2> DEFINE w == [v EXCEPT !.at = IF v.stop THEN "gone" ELSE "sleep"]
  <2>1. /\ w \in WriterType /\ w.db = v.db /\ w.done = v.done /\ w.batch = v.batch
        /\ w.jobs = v.jobs /\ w.job = v.job /\ w.at # "answer"
    BY <1>1 DEF WriterType
  <2>2. writers' = [writers EXCEPT ![i] = w]
    BY <1>2 DEF Fetch
  <2> HIDE DEF w
  <2>3. Becomes(i, w)
    BY <1>1, <2>1, <2>2, Change
  <2> QED
    BY <1>1, <2>1, <2>3, IdlingKeepsRowInv
<1>3. CASE v.jobs # << >>
  <2> DEFINE h == Head(v.jobs)
             w == [v EXCEPT !.at = "run", !.jobs = Tail(v.jobs), !.job = <<h>>]
  <2>1. /\ h \in Savers /\ Tail(v.jobs) \in Seq(Savers) /\ <<h>> \in Seq(Savers)
        /\ Len(Tail(v.jobs)) = Len(v.jobs) - 1 /\ Len(v.jobs) \in Nat /\ v.jobs[1] = h
        /\ 1 \in 1..Len(v.jobs)
        /\ \A n \in 1..Len(Tail(v.jobs)) : Tail(v.jobs)[n] = v.jobs[n + 1]
    BY <1>1, <1>3, HeadTailProperties
  <2>2. /\ w \in WriterType /\ w.db = v.db /\ w.done = v.done /\ w.batch = 0
        /\ w.jobs = Tail(v.jobs) /\ w.job = <<h>> /\ w.at = "run"
    <3> HIDE DEF h
    <3> QED
      BY <1>1, <2>1 DEF WriterType
  <2>3. writers' = [writers EXCEPT ![i] = w]
    BY <1>3 DEF Fetch
  <2> HIDE DEF w
  <2>4. Becomes(i, w)
    BY <1>1, <2>2, <2>3, Change
  <2>5. /\ Len(writers') = Len(writers) /\ writers'[i] = w
        /\ \A j \in 1..Len(writers) : j # i => writers'[j] = writers[j]
    BY <2>4 DEF Becomes
  <2>6. \A t \in Savers : Turn(t)' = Turn(t) /\ Call(t)' = Call(t)
    BY <1>1 DEF Turn, Call
  <2>7. ASSUME NEW j, NEW t PROVE Waits(t, j)' <=> Waits(t, j)
    BY <1>1 DEF Waits
  <2>8. /\ \A n \in 1..Len(v.jobs) : Waits(v.jobs[n], i)
        /\ \A m, n \in 1..Len(v.jobs) : v.jobs[m] = v.jobs[n] => m = n
    BY DEF RowInv, Placed
  <2>9. Placed'
    <3>0. ASSUME NEW j \in 1..Len(writers), NEW n \in 1..Len(writers[j].jobs)
          PROVE  writers[j].jobs[n] \in Savers
      <4>1. writers[j].jobs \in Seq(Savers)
        BY <3>0, TypeOfWriter
      <4> QED
        BY <3>0, <4>1, ElementOfSeq
    <3>1. ASSUME NEW j \in 1..Len(writers)
          PROVE  /\ \A n \in 1..Len(writers'[j].jobs) :
                      Waits(writers'[j].jobs[n], j) /\ writers'[j].job # <<writers'[j].jobs[n]>>
                 /\ \A m, n \in 1..Len(writers'[j].jobs) :
                      writers'[j].jobs[m] = writers'[j].jobs[n] => m = n
                 /\ \A t \in Savers : writers'[j].job = <<t>> => Waits(t, j)
      <4>1. CASE j # i
        BY <2>5, <4>1 DEF RowInv, Placed
      <4>2. CASE j = i
        <5> HIDE DEF v, h
        <5>1. \A n \in 1..Len(Tail(v.jobs)) : n + 1 \in 1..Len(v.jobs) /\ n + 1 # 1
          BY <2>1
        <5>2. /\ Waits(h, i)
              /\ \A n \in 1..Len(Tail(v.jobs)) : Waits(Tail(v.jobs)[n], i) /\ Tail(v.jobs)[n] # h
          BY <2>1, <2>8, <5>1
        <5>3. \A m, n \in 1..Len(Tail(v.jobs)) : Tail(v.jobs)[m] = Tail(v.jobs)[n] => m = n
          <6> SUFFICES ASSUME NEW m \in 1..Len(Tail(v.jobs)), NEW n \in 1..Len(Tail(v.jobs)),
                              Tail(v.jobs)[m] = Tail(v.jobs)[n]
                       PROVE  m = n
            OBVIOUS
          <6>1. m + 1 = n + 1
            BY <2>1, <2>8, <5>1
          <6> QED
            BY <6>1
        <5>4. \A t : <<h>> = <<t>> => h = t
          OBVIOUS
        <5>5. writers'[i].jobs = Tail(v.jobs) /\ writers'[i].job = <<h>>
          BY <2>2, <2>5
        <5>6. \A n \in 1..Len(Tail(v.jobs)) : <<h>> # <<Tail(v.jobs)[n]>>
          BY <5>2, <5>4
        <5>7. \A t \in Savers : <<h>> = <<t>> => Waits(t, i)
          BY <5>2, <5>4
        <5> HIDE DEF Waits
        <5> QED
          BY <4>2, <5>2, <5>3, <5>5, <5>6, <5>7
      <4> QED
        BY <4>1, <4>2
    <3> QED
      BY <2>5, <2>7, <3>1 DEF Placed
  <2>10. UnderWay'
    <3>1. ASSUME NEW t \in Savers, pc[t] # "out"
          PROVE  to[t] \in 1..Len(writers) /\ writers'[to[t]].db = writers[to[t]].db
      BY <2>2, <2>5, <3>1 DEF IInv, Awaited
    <3> QED
      BY <1>1, <2>6, <3>1 DEF RowInv, UnderWay
  <2>11. \A t, k, b : Written(t, k, b)' <=> Written(t, k, b)
    BY <1>1 DEF Written, RowOf
  <2>12. Counted'
    <3>1. ASSUME NEW j \in 1..Len(writers)
          PROVE  /\ writers'[j].job = << >> => writers'[j].batch = 0
                 /\ \A t \in Savers : writers'[j].job = <<t>> =>
                      /\ \A b \in 1..writers'[j].batch : Written(t, Turn(t), b)
                      /\ writers'[j].at = "answer" /\ writers'[j].done =>
                           writers'[j].batch >= Call(t).batches
      <4>1. CASE j # i
        BY <2>5, <4>1 DEF RowInv, Counted
      <4>2. CASE j = i
        BY <2>2, <2>5, <4>2
      <4> QED
        BY <4>1, <4>2
    <3> QED
      BY <2>5, <2>6, <2>11, <3>1 DEF Counted
  <2>13. AnswersKept'
    BY <1>1, <2>6, <2>11 DEF RowInv, AnswersKept, Saved
  <2>14. RowsKnown'
    <3> SUFFICES ASSUME NEW p \in Paths, NEW t \in Savers, NEW n \in 1..Len(db[p]),
                        db[p][n].saver = t
                 PROVE  RowKnown(p, n, t)'
      BY <1>1 DEF RowsKnown
    <3>1. RowKnown(p, n, t)
      BY DEF RowInv, RowsKnown
    <3>2. writers[to[t]].job = <<t>> => to[t] # i
      <4>1. <<t>> # << >>
        OBVIOUS
      <4> QED
        BY <1>1, <4>1
    <3>3. pc[t] \in {"notify", "get"} => to[t] \in 1..Len(writers)
      BY DEF IInv, Awaited
    <3> QED
      BY <1>1, <2>5, <2>6, <3>1, <3>2, <3>3 DEF RowKnown, SameCall
  <2>15. Together'
    BY <1>1 DEF RowInv, Together, SameCall
  <2> QED
    BY <2>9, <2>10, <2>12, <2>13, <2>14, <2>15 DEF RowInv
<1> QED
  BY <1>2, <1>3

\* What a job that is under way is about.
LEMMA JobOfCall ==
  ASSUME IInv, RowInv, NEW i \in 1..Len(writers), writers[i].at \in {"run", "answer"}
  PROVE  /\ Job(i) \in Savers /\ writers[i].job = <<Job(i)>> /\ Waits(Job(i), i)
         /\ writers[i].db = Call(Job(i)).db /\ Call(Job(i)).batches \in Nat
         /\ Turn(Job(i)) \in Nat
<1>1. Job(i) \in Savers /\ writers[i].job = <<Job(i)>>
  BY JobTyped
<1>2. Waits(Job(i), i)
  BY <1>1 DEF RowInv, Placed
<1>3. Turn(Job(i)) \in 1..Len(Calls[Job(i)]) /\ writers[i].db = Call(Job(i)).db
  BY <1>1, <1>2 DEF RowInv, UnderWay, Waits
<1>4. Calls[Job(i)] \in Seq([db: Paths, batches: Nat])
  BY <1>1, ConstantsAssumption
<1>5. Calls[Job(i)][Turn(Job(i))] \in [db: Paths, batches: Nat]
  BY <1>3, <1>4, ElementOfSeq
<1> QED
  BY <1>1, <1>2, <1>3, <1>5 DEF Call

\* A row joins those of its job at the end of the database, or is lost.
LEMMA InsertBatchKeepsRowInv ==
  ASSUME IInv, RowInv, NEW i \in 1..Len(writers), InsertBatch(i)
  PROVE  RowInv'
<1> DEFINE v == writers[i]
           w == [v EXCEPT !.batch = @ + 1]
           P == v.db
<1>0. PICK J \in Savers, k \in Nat, c \in Nat : J = Job(i) /\ k = Turn(J) /\ c = v.batch
  BY TypeOfWriter, JobOfCall DEF InsertBatch
<1> DEFINE row == RowOf(J, k, c + 1)
<1>1. /\ v.batch = c /\ Turn(J) = k /\ v \in WriterType /\ Types /\ v.at = "run" /\ J \in Savers /\ v.job = <<J>>
      /\ Waits(J, i) /\ P = Call(J).db /\ P \in Paths
  BY <1>0, TypeOfWriter, JobOfCall DEF IInv, InsertBatch
<1>2. /\ w \in WriterType /\ w.db = v.db /\ w.jobs = v.jobs /\ w.job = v.job
      /\ w.at = "run" /\ w.batch = c + 1
  BY <1>1 DEF WriterType
<1>3. writers' = [writers EXCEPT ![i] = w] /\ UNCHANGED <<pc, to, promise, answers>>
  BY DEF InsertBatch, saverVars
<1>4. \/ db' = [db EXCEPT ![P] = Append(@, row)] /\ lost' = lost
      \/ db' = db /\ lost' = lost \cup {row}
  BY <1>0, <1>1 DEF InsertBatch, RowOf
<1>5. row.saver = J /\ row.call = k /\ row.batch = c + 1 /\ row \in Row
  BY <1>1 DEF RowOf, Row
<1>6. /\ \A p \in Paths :
           /\ Len(db[p]) \in Nat /\ Len(db'[p]) \in Nat
           /\ \A n \in 1..Len(db[p]) : n \in 1..Len(db'[p]) /\ db'[p][n] = db[p][n]
           /\ \A n \in 1..Len(db'[p]) :
                n \in 1..Len(db[p]) \/ (p = P /\ n = Len(db[P]) + 1 /\ db'[p][n] = row)
      /\ lost \subseteq lost'
      /\ row \in lost' \/ \E n \in 1..Len(db'[P]) : db'[P][n] = row
  <2> HIDE DEF row, P
  <2>1. CASE db' = db /\ lost' = lost \cup {row}
    BY <1>1, <2>1 DEF Types
  <2>2. CASE db' = [db EXCEPT ![P] = Append(@, row)] /\ lost' = lost
    <3>1. db[P] \in Seq(Row) /\ db \in [Paths -> Seq(Row)]
      BY <1>1 DEF Types
    <3>2. /\ Len(Append(db[P], row)) = Len(db[P]) + 1 /\ Len(db[P]) \in Nat
          /\ \A n \in 1..Len(db[P]) : Append(db[P], row)[n] = db[P][n]
          /\ Append(db[P], row)[Len(db[P]) + 1] = row
      BY <1>5, <3>1, AppendProperties
    <3>3. db'[P] = Append(db[P], row) /\ \A p \in Paths : p # P => db'[p] = db[p]
      BY <1>1, <2>2, <3>1
    <3>4. \A p \in Paths : Len(db[p]) \in Nat
      BY <3>1
    <3>5. Len(db[P]) + 1 \in 1..Len(db'[P])
      BY <3>2, <3>3
    <3>6. ASSUME NEW p \in Paths
          PROVE  /\ Len(db'[p]) \in Nat
                 /\ \A n \in 1..Len(db[p]) : n \in 1..Len(db'[p]) /\ db'[p][n] = db[p][n]
                 /\ \A n \in 1..Len(db'[p]) :
                      n \in 1..Len(db[p]) \/ (p = P /\ n = Len(db[P]) + 1 /\ db'[p][n] = row)
      <4>1. CASE p = P
        BY <3>2, <3>3, <4>1
      <4>2. CASE p # P
        BY <3>3, <3>4, <4>2
      <4> QED
        BY <4>1, <4>2
    <3> QED
      BY <2>2, <3>2, <3>3, <3>4, <3>5, <3>6
  <2> QED
    BY <1>4, <2>1, <2>2
<1> HIDE DEF w
<1>7. Becomes(i, w)
  BY <1>1, <1>2, <1>3, Change
<1>8. /\ Len(writers') = Len(writers) /\ writers'[i] = w
      /\ \A j \in 1..Len(writers) :
           /\ j # i => writers'[j] = writers[j]
           /\ writers'[j].jobs = writers[j].jobs /\ writers'[j].job = writers[j].job
           /\ writers'[j].db = writers[j].db
  BY <1>2, <1>7 DEF Becomes
<1>9. \A t \in Savers : Turn(t)' = Turn(t) /\ Call(t)' = Call(t)
  BY <1>3 DEF Turn, Call
<1>10. ASSUME NEW j, NEW t PROVE Waits(t, j)' <=> Waits(t, j)
  BY <1>3 DEF Waits
<1>11. ASSUME NEW t \in Savers, pc[t] # "out" PROVE to[t] \in 1..Len(writers)
  BY <1>11 DEF IInv, Awaited
<1>12. Placed'
  BY <1>8, <1>10 DEF RowInv, Placed
<1>13. UnderWay'
  BY <1>3, <1>8, <1>9, <1>11 DEF RowInv, UnderWay
<1> DEFINE WrittenNext(t, l, b) ==
             \/ RowOf(t, l, b) \in lost'
             \/ \E p \in Paths : \E n \in 1..Len(db'[p]) :
                  p = Calls[t][l].db /\ db'[p][n] = RowOf(t, l, b)
<1>14. ASSUME NEW t, NEW l, NEW b, Written(t, l, b)
       PROVE  WrittenNext(t, l, b)
  <2>1. CASE RowOf(t, l, b) \in lost
    BY <1>6, <2>1
  <2>2. CASE \E p \in Paths : \E n \in 1..Len(db[p]) : p = Calls[t][l].db /\ db[p][n] = RowOf(t, l, b)
    <3>0. PICK p \in Paths :
            \E n \in 1..Len(db[p]) : p = Calls[t][l].db /\ db[p][n] = RowOf(t, l, b)
      BY <2>2
    <3>1. PICK n \in 1..Len(db[p]) : p = Calls[t][l].db /\ db[p][n] = RowOf(t, l, b)
      BY <3>0
    <3>2. n \in 1..Len(db'[p]) /\ db'[p][n] = RowOf(t, l, b)
      BY <1>6, <3>1
    <3> HIDE DEF RowOf
    <3> QED
      BY <3>1, <3>2
  <2> QED
    BY <1>14, <2>1, <2>2 DEF Written
<1>15. WrittenNext(J, k, c + 1)
  BY <1>1, <1>6 DEF Call
<1>w. \A t, l, b : Written(t, l, b)' <=> WrittenNext(t, l, b)
  BY DEF Written, RowOf
<1> HIDE DEF WrittenNext
<1>16. Counted'
  <2>1. ASSUME NEW b \in 1..w.batch
        PROVE  WrittenNext(J, k, b)
    <3>1. CASE b = c + 1
      BY <1>15, <3>1
    <3>2. CASE b \in 1..c
      <4>1. Written(J, k, b)
        BY <1>1, <3>2 DEF RowInv, Counted
      <4> QED
        BY <1>14, <4>1
    <3>3. b = c + 1 \/ b \in 1..c
      BY <1>1, <1>2
    <3> QED
      BY <3>1, <3>2, <3>3
  <2>2. ASSUME NEW j \in 1..Len(writers)
        PROVE  /\ writers'[j].job = << >> => writers'[j].batch = 0
               /\ \A t \in Savers : writers'[j].job = <<t>> =>
                    /\ \A b \in 1..writers'[j].batch : WrittenNext(t, Turn(t), b)
                    /\ writers'[j].at = "answer" /\ writers'[j].done =>
                         writers'[j].batch >= Call(t).batches
    <3>1. CASE j # i
      BY <1>8, <1>14, <3>1 DEF RowInv, Counted
    <3>2. CASE j = i
      <4>1. <<J>> # << >> /\ \A t : <<J>> = <<t>> => J = t
        OBVIOUS
      <4> HIDE DEF v
      <4> QED
        BY <1>1, <1>2, <1>8, <2>1, <3>2, <4>1
    <3> QED
      BY <3>1, <3>2
  <2> QED
    BY <1>8, <1>9, <1>w, <2>2 DEF Counted
<1>17. AnswersKept'
  <2> DEFINE SavedNext(t, l) == \A b \in 1..Calls[t][l].batches : WrittenNext(t, l, b)
  <2>1. ASSUME NEW t, NEW l, Saved(t, l) PROVE SavedNext(t, l)
    BY <1>14, <2>1 DEF Saved
  <2>2. \A t, l : Saved(t, l)' <=> SavedNext(t, l)
    BY <1>w DEF Saved
  <2> HIDE DEF SavedNext
  <2>3. ASSUME NEW t \in Savers
        PROVE  /\ promise[t] = "saved" => SavedNext(t, Turn(t))
               /\ \A l \in 1..Len(answers[t]) : answers[t][l] = "saved" => SavedNext(t, l)
    BY <2>1 DEF RowInv, AnswersKept
  <2> QED
    BY <1>3, <1>9, <2>2, <2>3 DEF AnswersKept
<1>18. ASSUME NEW p \in Paths, NEW n \in 1..Len(db[p]), p = P,
              db[p][n].call = Turn(db[p][n].saver), promise[db[p][n].saver] = "none"
       PROVE  db[p][n].saver = J
  <2> DEFINE t == db[p][n].saver
  <2>1. t \in Savers
    BY TypeOfRow
  <2>2. pc[t] \in {"notify", "get"} /\ Call(t).db = P /\ writers[to[t]].job = <<t>>
    <3>1. RowKnown(p, n, t)
      BY <2>1 DEF RowInv, RowsKnown
    <3> HIDE DEF t, P
    <3> QED
      BY <1>18, <3>1 DEF RowKnown, t
  <2>3. to[t] \in 1..Len(writers) /\ writers[to[t]].db = P
    BY <1>11, <2>1, <2>2 DEF RowInv, UnderWay
  <2>4. writers[to[t]].at # "gone"
    <3>1. <<t>> # << >>
      OBVIOUS
    <3> QED
      BY <2>2, <2>3, <3>1 DEF IInv, Holding
  <2>5. to[t] = i
    BY <1>1, <2>3, <2>4, OneLives DEF Live
  <2> QED
    BY <1>1, <2>2, <2>5
<1>19. RowsKnown'
  <2> SUFFICES ASSUME NEW p \in Paths, NEW t \in Savers, NEW n \in 1..Len(db'[p]),
                      db'[p][n].saver = t
               PROVE  RowKnown(p, n, t)'
    BY DEF RowsKnown
  <2> SUFFICES        /\ db'[p][n].call <= Turn(t)
                      /\ db'[p][n].call = Turn(t) =>
                           /\ pc[t] \in {"notify", "get"} /\ Call(t).db = p
                           /\ promise[t] = "none" =>
                                /\ writers'[to[t]].job = <<t>>
                                /\ db'[p][n].batch <= writers'[to[t]].batch
                                /\ \A m \in n..Len(db'[p]) : SameCall(db'[p][n], db'[p][m])
    BY <1>3, <1>9 DEF RowKnown, SameCall
  <2>0. to[J] = i /\ pc[J] \in {"notify", "get"}
    BY <1>1 DEF Waits
  <2>1. CASE p = P /\ n = Len(db[P]) + 1 /\ db'[p][n] = row
    <3>1. t = J /\ db'[p][n].call = Turn(J) /\ db'[p][n].batch = c + 1
      BY <1>1, <1>5, <2>1
    <3>2. ~(n \in 1..Len(db[P]))
      BY <1>1, <1>6, <2>1
    <3>3. ASSUME NEW m \in n..Len(db'[p])
          PROVE  db'[p][m] = row
      <4>1. m \in 1..Len(db'[p]) /\ ~(m \in 1..Len(db[p]))
        BY <1>1, <1>6, <2>1
      <4> QED
        BY <1>6, <4>1
    <3> HIDE DEF v
    <3> QED
      BY <1>1, <1>2, <1>5, <1>8, <2>0, <2>1, <3>1, <3>3 DEF SameCall
  <2>2. CASE n \in 1..Len(db[p])
    <3>1. db'[p][n] = db[p][n] /\ RowKnown(p, n, t)
      BY <1>6, <2>2 DEF RowInv, RowsKnown
    <3>2. /\ db[p][n].call <= Turn(t)
          /\ db[p][n].call = Turn(t) =>
               /\ pc[t] \in {"notify", "get"} /\ Call(t).db = p
               /\ promise[t] = "none" =>
                    /\ writers[to[t]].job = <<t>> /\ db[p][n].batch <= writers[to[t]].batch
                    /\ \A m \in n..Len(db[p]) : SameCall(db[p][n], db[p][m])
      BY <3>1 DEF RowKnown
    <3>3. ASSUME db[p][n].call = Turn(t), promise[t] = "none"
          PROVE  /\ writers'[to[t]].job = <<t>>
                 /\ db'[p][n].batch <= writers'[to[t]].batch
                 /\ \A m \in n..Len(db'[p]) : SameCall(db'[p][n], db'[p][m])
      <4>1. to[t] \in 1..Len(writers)
        BY <1>11, <3>2, <3>3
      <4>2. writers'[to[t]].job = <<t>>
        BY <1>8, <3>2, <3>3, <4>1
      <4>3. db'[p][n].batch <= writers'[to[t]].batch
        <5>1. db[p][n].batch \in Nat
          BY <2>2, TypeOfRow
        <5>2. CASE to[t] # i
          BY <1>8, <3>1, <3>2, <3>3, <4>1, <5>2
        <5>3. CASE to[t] = i
          BY <1>1, <1>2, <1>8, <3>1, <3>2, <3>3, <5>1, <5>3
        <5> QED
          BY <5>2, <5>3
      <4>4. ASSUME NEW m \in n..Len(db'[p])
            PROVE  SameCall(db'[p][n], db'[p][m])
        <5>1. m \in 1..Len(db'[p])
          BY <1>6, <2>2
        <5>2. CASE m \in 1..Len(db[p])
          <6>1. m \in n..Len(db[p])
            BY <1>6, <2>2, <5>2
          <6> QED
            BY <1>6, <3>1, <3>2, <3>3, <5>2, <6>1
        <5>3. CASE p = P /\ db'[p][m] = row
          <6>1. t = J
            BY <1>18, <2>2, <3>1, <3>3, <5>3
          <6> QED
            BY <1>1, <1>5, <3>1, <3>3, <5>3, <6>1 DEF SameCall
        <5> QED
          BY <1>6, <5>1, <5>2, <5>3
      <4> QED
        BY <4>2, <4>3, <4>4
    <3> QED
      BY <3>1, <3>2, <3>3
  <2> QED
    BY <1>6, <2>1, <2>2
<1>20. Together'
  <2> SUFFICES ASSUME NEW p \in Paths, NEW m \in 1..Len(db'[p]), NEW n \in 1..Len(db'[p]),
                      m < n, SameCall(db'[p][m], db'[p][n])
               PROVE  /\ db'[p][m].batch < db'[p][n].batch
                      /\ \A x \in m..n : SameCall(db'[p][m], db'[p][x])
    BY DEF Together, SameCall
  <2>1. CASE n \in 1..Len(db[p])
    <3>1. m \in 1..Len(db[p]) /\ \A x \in m..n : x \in 1..Len(db[p])
      BY <1>6, <2>1
    <3>2. SameCall(db[p][m], db[p][n])
      BY <1>6, <2>1, <3>1
    <3>3. db[p][m].batch < db[p][n].batch /\ \A x \in m..n : SameCall(db[p][m], db[p][x])
      BY <2>1, <3>1, <3>2 DEF RowInv, Together
    <3> QED
      BY <1>6, <2>1, <3>1, <3>3
  <2>2. CASE p = P /\ n = Len(db[P]) + 1 /\ db'[p][n] = row
    <3>0. Len(db[P]) \in Nat /\ Len(db'[p]) \in Nat
      BY <1>1, <1>6
    <3>1. m \in 1..Len(db[p])
      BY <2>2, <3>0
    <3>2. db'[p][m] = db[p][m] /\ db[p][m].saver = J /\ db[p][m].call = k
      BY <1>5, <1>6, <2>2, <3>1 DEF SameCall
    <3>3. promise[J] = "none" /\ to[J] = i
      BY <1>1 DEF Waits
    <3>4. /\ db[p][m].batch <= c
          /\ \A x \in m..Len(db[p]) : SameCall(db[p][m], db[p][x])
      <4>1. RowKnown(p, m, J)
        BY <1>1, <3>1, <3>2 DEF RowInv, RowsKnown
      <4> QED
        BY <1>1, <3>2, <3>3, <4>1 DEF RowKnown
    <3>5. db'[p][m].batch < db'[p][n].batch
      <4>1. db[p][m].batch \in Nat
        BY <3>1, TypeOfRow
      <4>2. db'[p][n].batch = c + 1
        BY <1>5, <2>2
      <4> HIDE DEF v
      <4> QED
        BY <1>1, <3>2, <3>4, <4>1, <4>2
    <3>6. ASSUME NEW x \in m..n
          PROVE  SameCall(db'[p][m], db'[p][x])
      <4>1. CASE x = n
        BY <4>1
      <4>2. CASE x # n
        <5>1. x \in m..Len(db[p]) /\ x \in 1..Len(db[p])
          BY <2>2, <3>0, <3>1, <4>2
        <5> QED
          BY <1>6, <3>2, <3>4, <5>1
      <4> QED
        BY <4>1, <4>2
    <3> QED
      BY <3>5, <3>6
  <2> QED
    BY <1>6, <2>1, <2>2
<1> QED
  BY <1>12, <1>13, <1>16, <1>17, <1>19, <1>20 DEF RowInv

\* A job ends: with success all its batches were counted, and none of its rows is still
\* in the making.
LEMMA SetValueKeepsRowInv ==
  ASSUME IInv, RowInv, NEW i \in 1..Len(writers), SetValue(i)
  PROVE  RowInv'
<1> DEFINE v == writers[i]
           w == [v EXCEPT !.at = "check", !.job = << >>, !.batch = 0, !.done = FALSE]
<1>0. PICK J \in Savers : J = Job(i)
  BY JobOfCall DEF SetValue
<1>1. /\ v \in WriterType /\ Types /\ v.at = "answer" /\ v.job = <<J>>
      /\ Waits(J, i) /\ Call(J).batches \in Nat /\ v.batch \in Nat
  BY <1>0, TypeOfWriter, JobOfCall DEF IInv, SetValue
<1>2. /\ w \in WriterType /\ w.db = v.db /\ w.jobs = v.jobs /\ w.job = << >>
      /\ w.at = "check" /\ w.batch = 0
  <2>1. << >> \in Seq(Savers)
    OBVIOUS
  <2> QED
    BY <1>1, <2>1 DEF WriterType
<1>3. /\ writers' = [writers EXCEPT ![i] = w]
      /\ UNCHANGED <<pc, to, answers, db, lost>>
      /\ promise' = [promise EXCEPT ![J] = IF v.done THEN "saved" ELSE "failed"]
  BY <1>0, <1>1 DEF SetValue, Types, dataVars
<1>4. /\ promise'[J] = IF v.done THEN "saved" ELSE "failed"
      /\ \A t \in Savers : t # J => promise'[t] = promise[t]
  BY <1>1, <1>3 DEF Types
<1> HIDE DEF w
<1>5. Becomes(i, w)
  BY <1>1, <1>2, <1>3, Change
<1>6. /\ Len(writers') = Len(writers) /\ writers'[i] = w
      /\ \A j \in 1..Len(writers) :
           /\ j # i => writers'[j] = writers[j]
           /\ writers'[j].jobs = writers[j].jobs
           /\ writers'[j].db = writers[j].db
  BY <1>2, <1>5 DEF Becomes
<1>7. \A t \in Savers : Turn(t)' = Turn(t) /\ Call(t)' = Call(t)
  BY <1>3 DEF Turn, Call
<1>8. ASSUME NEW t \in Savers, pc[t] # "out" PROVE to[t] \in 1..Len(writers)
  BY <1>8 DEF IInv, Awaited
<1>9. \A t : <<t>> # << >> /\ (<<J>> = <<t>> => t = J)
  OBVIOUS
<1>10. Placed'
  <2> DEFINE WaitsNext(t, j) == pc'[t] \in {"notify", "get"} /\ promise'[t] = "none" /\ to'[t] = j
  <2>1. ASSUME NEW t \in Savers, t # J, NEW j, Waits(t, j)
        PROVE  WaitsNext(t, j)
    BY <1>3, <1>4, <2>1 DEF Waits
  <2>2. ASSUME NEW j \in 1..Len(writers)
        PROVE  /\ \A n \in 1..Len(writers'[j].jobs) :
                    WaitsNext(writers'[j].jobs[n], j) /\ writers'[j].job # <<writers'[j].jobs[n]>>
               /\ \A m, n \in 1..Len(writers'[j].jobs) :
                    writers'[j].jobs[m] = writers'[j].jobs[n] => m = n
               /\ \A t \in Savers : writers'[j].job = <<t>> => WaitsNext(t, j)
    <3>1. /\ \A n \in 1..Len(writers[j].jobs) :
               Waits(writers[j].jobs[n], j) /\ writers[j].job # <<writers[j].jobs[n]>>
          /\ \A m, n \in 1..Len(writers[j].jobs) : writers[j].jobs[m] = writers[j].jobs[n] => m = n
          /\ \A t \in Savers : writers[j].job = <<t>> => Waits(t, j)
      BY DEF RowInv, Placed
    <3>2. ASSUME NEW n \in 1..Len(writers[j].jobs)
          PROVE  writers[j].jobs[n] \in Savers
      <4>1. writers[j].jobs \in Seq(Savers)
        BY TypeOfWriter
      <4> QED
        BY <3>2, <4>1, ElementOfSeq
    <3>3. \A t : Waits(t, j) => t # J \/ j = i
      BY <1>1 DEF Waits
    <3>4. \A n \in 1..Len(writers[j].jobs) : writers[j].jobs[n] # J
      BY <1>1, <3>1, <3>3
    <3>5. \A n \in 1..Len(writers[j].jobs) : WaitsNext(writers[j].jobs[n], j)
      <4> HIDE DEF WaitsNext
      <4> QED
        BY <2>1, <3>1, <3>2, <3>4
    <3>6. CASE j = i
      <4>1. writers'[j].jobs = writers[j].jobs /\ writers'[j].job = << >>
        BY <1>2, <1>6, <3>6
      <4>2. \A t : writers'[j].job # <<t>>
        BY <1>9, <4>1
      <4> HIDE DEF WaitsNext
      <4> QED
        BY <3>1, <3>5, <4>1, <4>2
    <3>7. CASE j # i
      <4>1. \A t \in Savers : writers[j].job = <<t>> => WaitsNext(t, j)
        <5> HIDE DEF WaitsNext
        <5> QED
          BY <2>1, <3>1, <3>3, <3>7
      <4> HIDE DEF WaitsNext
      <4> QED
        BY <1>6, <3>1, <3>5, <3>7, <4>1
    <3> QED
      BY <3>6, <3>7
  <2> QED
    BY <1>6, <2>2 DEF Placed, Waits
<1>11. UnderWay'
  <2>1. pc[J] \in {"notify", "get"}
    BY <1>1 DEF Waits
  <2> QED
    BY <1>3, <1>4, <1>6, <1>7, <1>8, <2>1 DEF RowInv, UnderWay
<1>12. \A t, k, b : Written(t, k, b)' <=> Written(t, k, b)
  BY <1>3 DEF Written, RowOf
<1>13. Counted'
  <2>1. ASSUME NEW j \in 1..Len(writers)
        PROVE  /\ writers'[j].job = << >> => writers'[j].batch = 0
               /\ \A t \in Savers : writers'[j].job = <<t>> =>
                    /\ \A b \in 1..writers'[j].batch : Written(t, Turn(t), b)
                    /\ writers'[j].at = "answer" /\ writers'[j].done =>
                         writers'[j].batch >= Call(t).batches
    <3>1. CASE j # i
      BY <1>6, <3>1 DEF RowInv, Counted
    <3>2. CASE j = i
      BY <1>2, <1>6, <1>9, <3>2
    <3> QED
      BY <3>1, <3>2
  <2> QED
    BY <1>6, <1>7, <1>12, <2>1 DEF Counted
<1>14. AnswersKept'
  <2>1. ASSUME v.done
        PROVE  Saved(J, Turn(J))
    <3>1. v.batch >= Call(J).batches /\ \A b \in 1..v.batch : Written(J, Turn(J), b)
      BY <1>1, <2>1 DEF RowInv, Counted
    <3> HIDE DEF v
    <3>2. \A b \in 1..Call(J).batches : b \in 1..v.batch
      BY <1>1, <3>1
    <3> QED
      BY <3>1, <3>2 DEF Saved, Call
  <2>2. \A t, k : Saved(t, k)' <=> Saved(t, k)
    BY <1>12 DEF Saved
  <2>3. ASSUME NEW t \in Savers, promise'[t] = "saved"
        PROVE  Saved(t, Turn(t))
    BY <1>4, <2>1, <2>3 DEF RowInv, AnswersKept
  <2> QED
    BY <1>3, <1>7, <2>2, <2>3 DEF RowInv, AnswersKept
<1>15. RowsKnown'
  <2> SUFFICES ASSUME NEW p \in Paths, NEW t \in Savers, NEW n \in 1..Len(db[p]),
                      db[p][n].saver = t
               PROVE  RowKnown(p, n, t)'
    BY <1>3 DEF RowsKnown
  <2>1. RowKnown(p, n, t)
    BY DEF RowInv, RowsKnown
  <2>2. CASE t = J
    BY <1>3, <1>4, <1>7, <2>1, <2>2 DEF RowKnown
  <2>3. CASE t # J
    <3>1. writers[to[t]].job = <<t>> => to[t] # i
      BY <1>1, <1>9, <2>3
    <3>2. pc[t] # "out" => to[t] \in 1..Len(writers)
      BY <1>8
    <3> QED
      BY <1>3, <1>4, <1>6, <1>7, <2>1, <2>3, <3>1, <3>2 DEF RowKnown, SameCall
  <2> QED
    BY <2>2, <2>3
<1>16. Together'
  BY <1>3 DEF RowInv, Together, SameCall
<1> QED
  BY <1>10, <1>11, <1>13, <1>14, <1>15, <1>16 DEF RowInv

LEMMA StopKeepsRowInv ==
  ASSUME IInv, RowInv, Stop
  PROVE  RowInv'
<1>1. PICK i \in toJoin : writers' = [writers EXCEPT ![i].stop = TRUE]
  BY DEF Stop
<1>2. i \in 1..Len(writers) /\ Types /\ UNCHANGED <<pc, to, promise, answers, db, lost>>
  BY DEF Stop, IInv, Types, saverVars, dataVars
<1> DEFINE w == [writers[i] EXCEPT !.stop = TRUE]
<1>3. /\ w \in WriterType /\ w.jobs = writers[i].jobs /\ w.job = writers[i].job
      /\ w.db = writers[i].db /\ w.batch = writers[i].batch /\ w.at = writers[i].at
      /\ w.done = writers[i].done
  <2>1. writers[i] \in WriterType
    BY <1>2, TypeOfWriter
  <2> QED
    BY <2>1 DEF WriterType
<1>4. writers' = [writers EXCEPT ![i] = w]
  BY <1>1
<1> HIDE DEF w
<1>5. Becomes(i, w)
  BY <1>2, <1>3, <1>4, Change
<1> QED
  BY <1>2, <1>3, <1>5, IdlingKeepsRowInv

LEMMA NextKeepsRowInv == IInv /\ RowInv /\ [Next]_vars => RowInv'
<1> SUFFICES ASSUME IInv, RowInv, [Next]_vars PROVE RowInv'
  OBVIOUS
<1>0. ASSUME UNCHANGED <<writers, pc, to, promise, answers, db, lost>> PROVE RowInv'
  BY <1>0, SteadyKeepsRowInv
<1>1. CASE \E s \in Savers : RunDb(s)
  BY <1>1, EnsureDbKeepsRowInv, PushKeepsRowInv, NotifyOneKeepsRowInv, GetKeepsRowInv DEF RunDb
<1>2. CASE \E i \in DOMAIN writers : DbLoop(i)
  <2>1. DOMAIN writers = 1..Len(writers)
    BY DEF IInv, Types
  <2> QED
    BY <1>2, <2>1, FetchKeepsRowInv, InsertBatchKeepsRowInv, EndJobKeepsRowInv, SetValueKeepsRowInv
    DEF DbLoop
<1>3. CASE CloseAllDb \/ Join \/ Closed
  BY <1>0, <1>3 DEF CloseAllDb, Join, Closed, saverVars, dataVars
<1>4. CASE Stop
  BY <1>4, StopKeepsRowInv
<1>5. CASE NotifyAll
  <2>1. joining \in 1..Len(writers)
    BY <1>5 DEF NotifyAll, IInv, Registered, Types
  <2>2. /\ writers' = Woken(joining) /\ UNCHANGED <<pc, to, promise, answers, db, lost>>
    BY <1>5 DEF NotifyAll, saverVars, dataVars
  <2> QED
    BY <2>1, <2>2, WakingKeepsRowInv
<1>6. CASE UNCHANGED vars
  BY <1>0, <1>6 DEF vars, saverVars, dataVars
<1> QED
  BY <1>1, <1>2, <1>3, <1>4, <1>5, <1>6 DEF Next, Done, Finish

\* The rows of a call that returned true are all in its database, those apart whose COMMIT
\* failed, and rows of one call stand together in order (InsertRows and DbLoop).
THEOREM Rows == Spec => []RowsStand
<1>1. ASSUME IInv, RowInv PROVE RowsStand
  <2> SUFFICES ASSUME NEW s \in Savers, NEW k \in DOMAIN Calls[s]
               PROVE  Stands(s, k)
    BY DEF RowsStand
  <2>0. Calls[s] \in Seq([db: Paths, batches: Nat])
    BY ConstantsAssumption
  <2>1. Calls[s] \in Seq([db: Paths, batches: Nat]) /\ k \in 1..Len(Calls[s])
    BY <2>0
  <2>2. Calls[s][k] \in [db: Paths, batches: Nat]
    BY <2>1, ElementOfSeq
  <2> DEFINE p == Calls[s][k].db
             mine == {n \in DOMAIN db[p] : db[p][n].saver = s /\ db[p][n].call = k}
  <2>3. p \in Paths /\ DOMAIN db[p] = 1..Len(db[p]) /\ Len(db[p]) \in Nat
    BY <1>1, <2>2 DEF IInv, Types
  <2>4. ASSUME NEW m \in mine, NEW n \in mine, m < n
        PROVE  m..n \subseteq mine /\ db[p][m].batch < db[p][n].batch
    <3> HIDE DEF p
    <3>1. /\ m \in 1..Len(db[p]) /\ n \in 1..Len(db[p]) /\ SameCall(db[p][m], db[p][n])
          /\ db[p][m].saver = s /\ db[p][m].call = k
      BY <2>3 DEF SameCall
    <3>0. \A x : x \in mine <=> x \in 1..Len(db[p]) /\ db[p][x].saver = s /\ db[p][x].call = k
      BY <2>3
    <3> HIDE DEF mine
    <3>2. /\ db[p][m].batch < db[p][n].batch
          /\ \A x \in m..n : SameCall(db[p][m], db[p][x])
      BY <1>1, <2>3, <2>4, <3>1 DEF RowInv, Together
    <3>3. \A x \in m..n : x \in 1..Len(db[p])
      BY <2>3, <3>1
    <3> QED
      BY <3>0, <3>1, <3>2, <3>3 DEF SameCall
  <2>5. ASSUME k \in DOMAIN answers[s], answers[s][k] = "saved", NEW b \in 1..Calls[s][k].batches
        PROVE  RowOf(s, k, b) \in lost \/ \E n \in mine : db[p][n] = RowOf(s, k, b)
    <3>0. k \in 1..Len(answers[s])
      BY <1>1, <2>5 DEF IInv, Types
    <3>1. Written(s, k, b)
      BY <1>1, <2>5, <3>0 DEF RowInv, AnswersKept, Saved
    <3>2. RowOf(s, k, b).saver = s /\ RowOf(s, k, b).call = k
      BY DEF RowOf
    <3> QED
      BY <2>3, <3>1, <3>2 DEF Written
  <2> QED
    BY <2>4, <2>5 DEF Stands, RowOf
<1> QED
  BY <1>1, InitIInv, InitRowInv, NextKeepsIInv, NextKeepsRowInv, PTL DEF Spec
=============================================================================
