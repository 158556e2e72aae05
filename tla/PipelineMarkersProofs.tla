------------------------ MODULE PipelineMarkersProofs ------------------------
(***************************************************************************)
(* Theorems about PipelineMarkers, for every set of directories and tables *)
(* and any number of runs: what the markers promise.                       *)
(***************************************************************************)
EXTENDS PipelineMarkers, TLAPS

-----------------------------------------------------------------------------
(***************************************************************************)
(* The inductive invariant.                                                *)
(***************************************************************************)
\* How far a run may have got with a directory, by what the run is at.
Staged ==
  /\ pc # "exec" => exp = "none"
  /\ \A d \in Dirs :
       /\ pc = "idle" => st[d] = "out"
       /\ pc = "plan" => st[d] \in {"done", "out"}
       /\ pc = "exec" => st[d] # "clear"
       /\ pc = "parse" => st[d] \in {"todo", "clear", "parse", "done"}
       /\ pc = "clear" => st[d] \in {"clear", "out"}

\* Nothing is newer than the inputs.
Bounded ==
  \A d \in Dirs : /\ inc[d] <= input[d] /\ comp[d].inputs <= input[d]
                  /\ \A t \in Tables : tab[d][t] <= input[d]

\* The marker of a parse of the C++ engine stays for as long as tables are made, and
\* what has been made is no older than the marker says.
Making ==
  pc = "exec" =>
    \A d \in Dirs :
      /\ st[d] = "todo" => left[d] = run.sel[d]
      /\ st[d] = "parse" =>
           /\ inc[d] # 0
           /\ \A t \in (run.sel[d] \ left[d]) \cap Required(d) : inc[d] <= tab[d][t]

\* What a marker says is there.
Whole(d) == \A t \in comp[d].nodes \cap Required(d) : tab[d][t] = comp[d].inputs

Marked ==
  pc = "exec" =>
    \A d \in Dirs : st[d] \in {"mark", "done"} => comp[d].nodes = run.sel[d] /\ Whole(d)

\* What a run reuses: nothing is stale, and only the Python engine has removed any.
Reusable(d) ==
  comp[d].nodes = Tables /\
    \A t \in Required(d) : tab[d][t] = comp[d].inputs \/ (t \in foreign[d] /\ tab[d][t] = 0)

\* What a plan leaves alone can be reused, or is not needed.
Planned ==
  pc = "exec" =>
    \A d \in Dirs :
      /\ d \notin Devices => run.sel[d] = Tables
      /\ d \in run.reuse =>
           /\ st[d] = "out"
           /\ comp[d] = NoMarker \/ Reusable(d)
      /\ st[d] = "out" /\ d \in run.bound \ run.reuse => run.sel[d] = {}

\* An export has read what will not change any more.
Reading ==
  pc = "exec" /\ exp \in {"written", "mark"} =>
    /\ seen = tab
    /\ \A d \in Dirs : \/ st[d] \in {"mark", "done", "failed", "out"}
                       \/ st[d] = "parse" /\ left[d] = {}
    /\ exp = "mark" => \A d \in Dirs : st[d] \in {"done", "out"}

Exporting ==
  pc = "exec" => /\ exp \in {"init", "written"} => prof.inc
                 /\ exp = "mark" => output = "whole"

\* What is left of it when the Python engine has been there.
Kept(d) ==
  \A t \in (comp[d].nodes \cap Required(d)) \ foreign[d] : tab[d][t] = comp[d].inputs

Wholes == \A d \in Dirs : inc[d] = 0 => Kept(d)

\* A marker of a host speaks for all its tables, and none is older than it says.
Versioned ==
  \A d \in Dirs : comp[d].version = 1 =>
    /\ d \notin Devices /\ comp[d].nodes = Tables
    /\ \A t \in Tables : tab[d][t] = 0 \/ comp[d].inputs <= tab[d][t]

\* What concerns the run, and what stays when it ends.
OfRun == Making /\ Marked /\ Planned /\ Reading /\ Exporting
IInv ==
  /\ TypeOK /\ Staged /\ Bounded /\ OfRun
  /\ Wholes /\ Versioned /\ PartialOutputMarked

-----------------------------------------------------------------------------
LEMMA InitIInv == Init => IInv
  <1> SUFFICES ASSUME Init PROVE IInv
    OBVIOUS
  <1> USE MarkersAssumption
  <1>1. TypeOK
    BY DEF Init, TypeOK, NoMarker, NoTables, NoRun, Runs, Stages, Dirs
  <1>2. Staged /\ Bounded /\ OfRun /\ PartialOutputMarked
    BY DEF Init, Staged, Bounded, OfRun, Making, Marked, Planned, Reading,
           Exporting, PartialOutputMarked, NoTables, NoMarker
  <1>3. Wholes /\ Versioned
    BY DEF Init, Wholes, Kept, Versioned, NoMarker
  <1> QED
    BY <1>1, <1>2, <1>3 DEF IInv

\* The end of a run, or of a part of it, with the files as they are.
LEMMA LeaveKeeps ==
  ASSUME IInv, Leave \/ Conclude,
         UNCHANGED <<input, inc, comp, tab, file, allDone, foreign, output>>,
         prof' \in [inc : BOOLEAN, comp : BOOLEAN],
         output = "partial" => prof'.inc
  PROVE  IInv'
  <1> USE MarkersAssumption DEF IInv
  <1>1. /\ pc' \in {"idle", "clear"} /\ exp' = "none" /\ runs' = runs
        /\ run' = [NoRun EXCEPT !.cmd = run.cmd]
        /\ \/ pc' = "idle" /\ st' = [d \in Dirs |-> "out"]
           \/ pc' = "clear" /\ st' = [d \in Dirs |-> "clear"]
        /\ left' = [d \in Dirs |-> {}] /\ seen' = [d \in Dirs |-> NoTables]
    BY DEF Leave, Conclude
  <1>2. run' \in Runs /\ run'.reuse \subseteq run'.bound
    BY <1>1 DEF TypeOK, NoRun, Runs
  <1>3. TypeOK'
    <2>1. st' \in [Dirs -> Stages] /\ left' \in [Dirs -> SUBSET Tables]
      BY <1>1 DEF Stages
    <2>2. seen' \in [Dirs -> [Tables -> 0..MaxInput]]
      BY <1>1 DEF NoTables
    <2> QED
      BY <1>1, <1>2, <2>1, <2>2 DEF TypeOK
  <1>4. Staged' /\ OfRun'
    BY <1>1 DEF Staged, OfRun, Making, Marked, Planned, Reading, Exporting
  <1>5. Bounded' /\ Wholes' /\ Versioned' /\ PartialOutputMarked'
    BY DEF Bounded, Wholes, Kept, Versioned, PartialOutputMarked, Required
  <1> QED
    BY <1>3, <1>4, <1>5

-----------------------------------------------------------------------------
(***************************************************************************)
(* Types.                                                                  *)
(***************************************************************************)
LEMMA ConcludeTyped ==
  ASSUME TypeOK, Leave \/ Conclude,
         UNCHANGED <<input, inc, comp, tab, file, allDone, foreign>>,
         prof' \in [inc : BOOLEAN, comp : BOOLEAN],
         output' \in {"none", "partial", "whole"}
  PROVE  TypeOK'
  <1>1. /\ pc' \in {"idle", "clear"} /\ exp' = "none" /\ runs' = runs
        /\ run' = [NoRun EXCEPT !.cmd = run.cmd]
        /\ \/ st' = [d \in Dirs |-> "out"]
           \/ st' = [d \in Dirs |-> "clear"]
        /\ left' = [d \in Dirs |-> {}] /\ seen' = [d \in Dirs |-> NoTables]
    BY DEF Leave, Conclude
  <1>2. run' \in Runs /\ run'.reuse \subseteq run'.bound
    BY <1>1 DEF TypeOK, NoRun, Runs
  <1>3. st' \in [Dirs -> Stages] /\ left' \in [Dirs -> SUBSET Tables]
    BY <1>1 DEF Stages
  <1>4. seen' \in [Dirs -> [Tables -> 0..MaxInput]]
    BY <1>1, MarkersAssumption DEF NoTables
  <1> QED
    BY <1>1, <1>2, <1>3, <1>4 DEF TypeOK

LEMMA TypeKept == TypeOK /\ [Next]_vars => TypeOK'
  <1> SUFFICES ASSUME TypeOK, [Next]_vars PROVE TypeOK'
    OBVIOUS
  <1> USE MarkersAssumption
  <1>L. left \in [Dirs -> SUBSET Tables]
    BY DEF TypeOK
  <1>S. st \in [Dirs -> Stages] /\ "failed" \in Stages
    BY DEF TypeOK, Stages
  <1>A. allDone \in [Dirs -> BOOLEAN]
    BY DEF TypeOK
  <1>1. ASSUME NEW d \in Dirs, Touch(d) PROVE TypeOK'
    BY <1>1 DEF Touch, TypeOK
  <1>2. ASSUME NEW cmd \in {"import", "export"}, StartNative(cmd) PROVE TypeOK'
    <2>1. run' \in Runs /\ run'.reuse \subseteq run'.bound
      BY <1>2 DEF StartNative, TypeOK, NoRun, Runs, Requested, Dirs
    <2> QED
      BY <1>2, <2>1 DEF StartNative, TypeOK, disk
  <1>3. ASSUME NEW cmd \in {"import", "export"}, StartPython(cmd) PROVE TypeOK'
    <2>1. PICK clear \in BOOLEAN :
            run' = [NoRun EXCEPT !.cmd = cmd, !.bound = Dirs, !.clear = clear]
      BY <1>3 DEF StartPython
    <2>3. run' \in Runs /\ run'.reuse \subseteq run'.bound
      BY <2>1 DEF NoRun, Runs
    <2>2. st' \in [Dirs -> Stages]
      BY <1>3 DEF StartPython, Stages
    <2> QED
      BY <1>3, <2>2, <2>3 DEF StartPython, TypeOK, disk
  <1>4. CASE Crash \/ PlanFails
    BY <1>4, ConcludeTyped DEF Crash, PlanFails, disk, TypeOK
  <1>5. CASE Plan
    <2>3. PICK sel \in Selections :
            LET reuse == {d \in run.bound : Ready(d)}
                todo == {d \in run.bound \ reuse : sel[d] # {}}
            IN /\ run' = [run EXCEPT !.reuse = reuse, !.sel = sel]
               /\ st' = [d \in Dirs |-> IF d \in todo THEN "todo" ELSE "out"]
               /\ left' = [d \in Dirs |-> IF d \in todo THEN sel[d] ELSE {}]
      BY <1>5 DEF Plan
    <2>1. run' \in Runs /\ run'.reuse \subseteq run'.bound
      BY <2>3 DEF TypeOK, Runs, Selections
    <2>2. st' \in [Dirs -> Stages] /\ left' \in [Dirs -> SUBSET Tables]
      BY <2>3 DEF Stages, Selections
    <2> QED
      BY <1>5, <2>1, <2>2 DEF Plan, TypeOK, disk
  <1>6. ASSUME NEW d \in Dirs, StartParse(d) \/ OpenDb(d) \/ DropIncomplete(d) PROVE TypeOK'
    <2>1. st' \in [Dirs -> Stages]
      BY <1>6 DEF StartParse, OpenDb, DropIncomplete, TypeOK, Stages
    <2>2. inc' \in [Dirs -> 0..MaxInput]
      BY <1>6 DEF StartParse, OpenDb, DropIncomplete, TypeOK
    <2>3. file' \in [Dirs -> BOOLEAN] /\ \A e \in Dirs : file[e] => file'[e]
      BY <1>6 DEF StartParse, OpenDb, DropIncomplete, TypeOK
    <2> QED
      BY <1>6, <2>1, <2>2, <2>3 DEF StartParse, OpenDb, DropIncomplete, TypeOK
  <1>7. ASSUME NEW d \in Dirs, NEW t \in Tables, MakeTable(d, t) PROVE TypeOK'
    BY <1>7 DEF MakeTable, TypeOK
  <1>8. ASSUME NEW d \in Dirs, NEW t \in Tables, ProducerFails(d, t) PROVE TypeOK'
    <2>2. \/ left' = [left EXCEPT ![d] = @ \ {t}] /\ st' = st
          \/ left' = left /\ st' = [st EXCEPT ![d] = "failed"]
      BY <1>8 DEF ProducerFails
    <2>1. st' \in [Dirs -> Stages] /\ left' \in [Dirs -> SUBSET Tables]
      BY <2>2, <1>L, <1>S
    <2> QED
      BY <1>8, <2>1 DEF ProducerFails, TypeOK, disk
  <1>9. ASSUME NEW d \in Dirs, PublishComplete(d) PROVE TypeOK'
    <2>3. st' \in [Dirs -> Stages]
      BY <1>9 DEF PublishComplete, TypeOK, Stages
    <2>1. CASE SameInputs(d)
      <3>1. run.sel[d] \subseteq Tables /\ inc[d] \in 1..MaxInput
        BY <2>1 DEF TypeOK, Runs, SameInputs
      <3>3. PICK v \in {1, 2} :
              comp' = [comp EXCEPT ![d] = [version |-> v, inputs |-> inc[d], nodes |-> run.sel[d]]]
        BY <1>9, <2>1 DEF PublishComplete
      <3>4. [version |-> v, inputs |-> inc[d], nodes |-> run.sel[d]] \in Markers
        BY <3>1 DEF Markers
      <3>2. comp' \in [Dirs -> Markers \cup {NoMarker}]
        BY <3>3, <3>4 DEF TypeOK
      <3> QED
        BY <1>9, <2>1, <2>3, <3>2 DEF PublishComplete, TypeOK
    <2>2. CASE ~SameInputs(d)
      BY <1>9, <2>2, <2>3 DEF PublishComplete, TypeOK
    <2> QED
      BY <2>1, <2>2
  <1>10. CASE ExportInit \/ SomeExported \/ ExportReads \/ ExportFails \/ Finalize
    BY <1>10 DEF ExportInit, SomeExported, ExportReads, ExportFails, Finalize, TypeOK, disk
  <1>11. CASE Finish
    BY <1>11, ConcludeTyped DEF Finish, TypeOK
  <1>12. ASSUME NEW d \in Dirs, PyBegin(d) \/ RemoveMarker(d) \/ PyParsed(d) PROVE TypeOK'
    <2>1. st' \in [Dirs -> Stages]
      BY <1>12 DEF PyBegin, RemoveMarker, PyParsed, TypeOK, Stages
    <2>2. /\ inc' \in [Dirs -> 0..MaxInput] /\ comp' \in [Dirs -> Markers \cup {NoMarker}]
          /\ allDone' \in [Dirs -> BOOLEAN] /\ foreign' \in [Dirs -> SUBSET Tables]
      <3>1. CASE PyBegin(d) \/ PyParsed(d)
        BY <3>1 DEF PyBegin, PyParsed, TypeOK, disk
      <3>2. CASE RemoveMarker(d)
        <4>1. comp \in [Dirs -> Markers \cup {NoMarker}] /\ inc \in [Dirs -> 0..MaxInput]
          BY DEF TypeOK
        <4>2. \/ inc' = [inc EXCEPT ![d] = 0] /\ comp' = comp
              \/ inc' = inc /\ comp' = [comp EXCEPT ![d] = NoMarker]
          BY <3>2 DEF RemoveMarker
        <4>3. foreign' \in [Dirs -> SUBSET Tables]
          <5>1. \/ foreign' = [foreign EXCEPT ![d] = @ \cup {t \in Tables : comp[d] # NoMarker}]
                \/ foreign' = [foreign EXCEPT ![d] = {}]
            BY <3>2 DEF RemoveMarker, Beside
          <5>2. foreign \in [Dirs -> SUBSET Tables]
            BY DEF TypeOK
          <5>3. {t \in Tables : comp[d] # NoMarker} \subseteq Tables
            OBVIOUS
          <5> QED
            BY <5>1, <5>2, <5>3
        <4>4. allDone' = allDone
          BY <3>2 DEF RemoveMarker
        <4> QED
          BY <4>1, <4>2, <4>3, <4>4, <1>A
      <3> QED
        BY <1>12, <3>1, <3>2
    <2> QED
      BY <1>12, <2>1, <2>2 DEF PyBegin, RemoveMarker, PyParsed, TypeOK, disk
  <1>13. ASSUME NEW d \in Dirs, NEW t \in Tables, RemoveDb(d, t) PROVE TypeOK'
    <2>1. tab' \in [Dirs -> [Tables -> 0..MaxInput]]
      BY <1>13 DEF RemoveDb, TypeOK
    <2>2. tab[d] # NoTables
      BY <1>13 DEF RemoveDb, NoTables
    <2>3. \A e \in Dirs : tab'[e] # NoTables => file[e]
      BY <1>13, <2>2 DEF RemoveDb, TypeOK
    <2>4. foreign' \in [Dirs -> SUBSET Tables]
      BY <1>13 DEF RemoveDb, Beside, TypeOK
    <2> QED
      BY <1>13, <2>1, <2>3, <2>4 DEF RemoveDb, TypeOK
  <1>19. ASSUME NEW d \in Dirs, NEW t \in Tables, PyTable(d, t) PROVE TypeOK'
    <2>4. tab' = tab \/ tab' = [tab EXCEPT ![d][t] = input[d]]
      BY <1>19 DEF PyTable
    <2>1. tab' \in [Dirs -> [Tables -> 0..MaxInput]]
      <3>1. tab \in [Dirs -> [Tables -> 0..MaxInput]] /\ input[d] \in 0..MaxInput
        BY DEF TypeOK
      <3> QED
        BY <2>4, <3>1
    <2>2. file' \in [Dirs -> BOOLEAN] /\ \A e \in Dirs : tab'[e] # NoTables => file'[e]
      BY <1>19, <2>4 DEF PyTable, TypeOK
    <2>3. left' \in [Dirs -> SUBSET Tables]
      BY <1>19 DEF PyTable, TypeOK
    <2>5. foreign' \in [Dirs -> SUBSET Tables]
      <3>1. foreign' = foreign \/ Beside(d, {t})
        BY <1>19 DEF PyTable
      <3>2. foreign \in [Dirs -> SUBSET Tables]
        BY DEF TypeOK
      <3>3. {u \in {t} : comp[d] # NoMarker} \subseteq Tables
        OBVIOUS
      <3> QED
        BY <3>1, <3>2, <3>3 DEF Beside
    <2> QED
      BY <1>19, <2>1, <2>2, <2>3, <2>5 DEF PyTable, TypeOK
  <1>20. ASSUME NEW d \in Dirs, NEW t \in Tables, DumpDevice(d, t) \/ Calculate(d, t) PROVE TypeOK'
    <2>1. PICK v \in 0..MaxInput : PyWrites(d, t, v)
      BY <1>20 DEF DumpDevice, Calculate, TypeOK
    <2>2. tab' \in [Dirs -> [Tables -> 0..MaxInput]]
      BY <2>1 DEF PyWrites, TypeOK
    <2>3. file' \in [Dirs -> BOOLEAN] /\ \A e \in Dirs : tab'[e] # NoTables => file'[e]
      BY <2>1 DEF PyWrites, TypeOK
    <2>4. foreign' \in [Dirs -> SUBSET Tables]
      BY <2>1 DEF PyWrites, Beside, TypeOK
    <2> QED
      BY <2>1, <2>2, <2>3, <2>4 DEF PyWrites, TypeOK
  <1>14. ASSUME NEW d \in Dirs, RemoveLastDb(d) PROVE TypeOK'
    BY <1>14 DEF RemoveLastDb, TypeOK
  <1>15. ASSUME NEW d \in Dirs, Cleared(d) \/ ClearFails(d) PROVE TypeOK'
    <2>1. st' \in [Dirs -> Stages]
      BY <1>15 DEF Cleared, ClearFails, TypeOK, Stages
    <2>2. /\ left' \in [Dirs -> SUBSET Tables] /\ foreign' \in [Dirs -> SUBSET Tables]
          /\ allDone' \in [Dirs -> BOOLEAN]
      <3>1. left' = left \/ left' = [left EXCEPT ![d] = Tables]
        BY <1>15 DEF Cleared, ClearFails
      <3>2. allDone' = allDone \/ allDone' = [allDone EXCEPT ![d] = FALSE]
        BY <1>15 DEF Cleared, ClearFails, disk
      <3>4. foreign' \in [Dirs -> SUBSET Tables]
        BY <1>15 DEF Cleared, ClearFails, disk, TypeOK
      <3>5. allDone' \in [Dirs -> BOOLEAN]
        BY <3>2, <1>A
      <3> QED
        BY <3>1, <3>4, <3>5, <1>L
    <2> QED
      BY <1>15, <2>1, <2>2 DEF Cleared, ClearFails, disk, TypeOK
  <1>16. ASSUME NEW d \in Dirs, PyFails(d) PROVE TypeOK'
    BY <1>16, ConcludeTyped DEF PyFails, TypeOK, Stages, disk
  <1>17. CASE PyView \/ PyCleared
    BY <1>17, ConcludeTyped DEF PyView, PyCleared, TypeOK, disk
  <1>18. CASE UNCHANGED vars
    BY <1>18 DEF vars, disk, TypeOK
  <1> QED
    BY <1>1, <1>2, <1>3, <1>4, <1>5, <1>6, <1>7, <1>8, <1>9, <1>10, <1>11, <1>12, <1>13,
       <1>14, <1>15, <1>16, <1>17, <1>18, <1>19, <1>20 DEF Next, Native, Python

-----------------------------------------------------------------------------
(***************************************************************************)
(* Steps outside the run of a graph: the inputs, starts and ends, the      *)
(* Python engine.                                                          *)
(***************************************************************************)
LEMMA TouchKeeps ==
  ASSUME IInv, TypeOK', NEW d \in Dirs, Touch(d)
  PROVE  IInv'
  <1> USE DEF IInv
  <1>1. \A e \in Dirs : input[e] \in Nat /\ inc[e] \in Nat /\ input[e] <= input'[e]
    BY MarkersAssumption DEF Touch, TypeOK
  <1>7. \A e \in Dirs : comp[e].inputs \in Nat /\ comp'[e] = comp[e]
    BY MarkersAssumption DEF Touch, TypeOK, Markers, NoMarker
  <1>2. \A e \in Dirs, t \in Tables : tab[e][t] \in Nat
    BY MarkersAssumption DEF TypeOK
  <1>3. \A e \in Dirs : input'[e] \in Nat
    BY MarkersAssumption DEF TypeOK
  <1>4. Bounded'
    BY <1>1, <1>2, <1>3, <1>7 DEF Bounded, Touch
  <1>5. Staged' /\ OfRun'
    BY DEF Touch, Staged, OfRun, Making, Marked, Whole, Planned, Reusable, Reading,
           Exporting, Required
  <1>6. Wholes' /\ Versioned' /\ PartialOutputMarked'
    BY DEF Touch, Wholes, Kept, Versioned, PartialOutputMarked, Required
  <1> QED
    BY <1>4, <1>5, <1>6

LEMMA StartKeeps ==
  ASSUME IInv, TypeOK', NEW cmd \in {"import", "export"}, StartNative(cmd) \/ StartPython(cmd)
  PROVE  IInv'
  <1> USE DEF IInv
  <1>1. /\ pc = "idle" /\ pc' \in {"idle", "plan", "parse"} /\ UNCHANGED <<disk, exp>>
        /\ \/ st' = st /\ pc' # "parse"
           \/ st' = [d \in Dirs |-> IF cmd = "export" /\ IsAnalyzed(d) THEN "done" ELSE "todo"]
              /\ pc' = "parse"
    BY DEF StartNative, StartPython
  <1>2. Staged' /\ OfRun'
    BY <1>1 DEF Staged, OfRun, Making, Marked, Planned, Reading, Exporting
  <1>3. Bounded' /\ Wholes' /\ Versioned' /\ PartialOutputMarked'
    BY <1>1 DEF disk, Bounded, Wholes, Kept, Versioned, PartialOutputMarked, Required
  <1> QED
    BY <1>2, <1>3

LEMMA EndKeeps ==
  ASSUME IInv, Crash \/ PlanFails \/ Finish \/ PyCleared
  PROVE  IInv'
  <1> USE DEF IInv
  <1>1. CASE Crash \/ PlanFails \/ PyCleared
    BY <1>1, LeaveKeeps DEF Crash, PlanFails, PyCleared, disk, TypeOK, PartialOutputMarked
  <1>2. CASE Finish
    <2>1. \/ prof' = prof
          \/ prof' = [prof EXCEPT !.inc = FALSE] /\ exp = "mark"
      BY <1>2 DEF Finish
    <2>2. prof' \in [inc : BOOLEAN, comp : BOOLEAN]
      BY <2>1 DEF TypeOK
    <2>3. pc = "exec" /\ (exp = "mark" => output = "whole")
      BY <1>2 DEF Finish, OfRun, Exporting
    <2>4. output = "partial" => prof'.inc
      BY <2>1, <2>3 DEF PartialOutputMarked
    <2> QED
      BY <1>2, <2>2, <2>4, LeaveKeeps DEF Finish
  <1> QED
    BY <1>1, <1>2

\* The Python engine goes from one directory to the next.
LEMMA PythonProceeds ==
  ASSUME IInv, TypeOK',
         PyView \/ \E d \in Dirs : PyBegin(d) \/ PyParsed(d) \/ PyFails(d)
  PROVE  IInv'
  <1> USE DEF IInv
  <1>1. UNCHANGED <<input, inc, comp, tab, file, prof, output, foreign>>
    BY DEF PyBegin, PyParsed, PyFails, PyView, disk
  <1>2. CASE Leave \/ Conclude
    <2>1. pc = "parse"
      BY DEF PyBegin, PyParsed, PyFails, PyView, PyAllParsed
    <2>2. (\E d \in Dirs : PyFails(d)) \/ PyView
      BY <1>2, <2>1 DEF PyBegin, PyParsed, Leave, Conclude
    <2> QED
      BY <1>1, <1>2, <2>2, LeaveKeeps DEF PyFails, PyView, disk, TypeOK, PartialOutputMarked
  <1>3. CASE ~(Leave \/ Conclude)
    <2>1. /\ pc = "parse" /\ pc' \in {"parse", "plan"} /\ exp' = exp
          /\ pc' = "parse" =>
               \E d \in Dirs, x \in {"clear", "done"} : st' = [st EXCEPT ![d] = x]
          /\ pc' = "plan" => st' = st /\ \A e \in Dirs : st[e] = "done"
      BY <1>3 DEF PyBegin, PyParsed, PyFails, PyView, PyAllParsed
    <2>2. st \in [Dirs -> Stages]
      BY DEF TypeOK
    <2>3. Staged' /\ OfRun'
      BY <1>1, <2>1, <2>2 DEF Staged, OfRun, Making, Marked, Planned, Reading, Exporting
    <2>4. Bounded' /\ Wholes' /\ Versioned' /\ PartialOutputMarked'
      BY <1>1 DEF Bounded, Wholes, Kept, Versioned, PartialOutputMarked, Required
    <2> QED
      BY <2>3, <2>4
  <1> QED
    BY <1>2, <1>3

\* The Python engine changes one directory: what it touches beside a COMPLETE that
\* stays is foreign, and not older than the inputs are or the tables were.
LEMMA BesideKeeps ==
  ASSUME IInv, TypeOK', NEW d \in Dirs, pc \in {"parse", "clear"},
         UNCHANGED <<input, prof, output, pc, run, st, exp, seen>>,
         \A e \in Dirs \ {d} : /\ inc'[e] = inc[e] /\ comp'[e] = comp[e]
                               /\ tab'[e] = tab[e] /\ foreign'[e] = foreign[e],
         inc'[d] = inc[d] \/ inc'[d] = 0,
         comp'[d] = comp[d] \/ comp'[d] = NoMarker,
         \A u \in Tables : \/ tab'[d][u] = 0 \/ tab'[d][u] = input[d]
                           \/ \E w \in Tables : tab'[d][u] = tab[d][w],
         comp'[d] # NoMarker =>
           \A u \in Tables \ foreign'[d] : u \notin foreign[d] /\ inc'[d] = inc[d] /\ tab'[d][u] = tab[d][u]
  PROVE  IInv'
  <1> USE DEF IInv
  <1>1. Staged' /\ OfRun' /\ PartialOutputMarked'
    BY DEF Staged, OfRun, Making, Marked, Planned, Reading, Exporting, PartialOutputMarked
  <1>2. /\ input[d] \in Nat /\ inc[d] \in Nat /\ NoMarker.inputs = 0
        /\ \A u \in Tables : tab[d][u] \in Nat
    BY MarkersAssumption DEF TypeOK, NoMarker
  <1>3. Bounded'
    <2>1. inc'[d] <= input'[d] /\ comp'[d].inputs <= input'[d]
      BY <1>2 DEF Bounded
    <2>2. \A u \in Tables : tab'[d][u] <= input'[d]
      BY <1>2 DEF Bounded
    <2> QED
      BY <2>1, <2>2 DEF Bounded
  <1>4. Wholes'
    <2> SUFFICES ASSUME NEW e \in Dirs, inc'[e] = 0,
                        NEW t \in (comp'[e].nodes \cap Required(e)) \ foreign'[e]
                 PROVE  tab'[e][t] = comp'[e].inputs
      BY DEF Wholes, Kept, Required
    <2>1. t \in Tables
      BY DEF Required
    <2>2. CASE e # d
      BY <2>2 DEF Wholes, Kept
    <2>3. CASE e = d
      <3>1. comp'[d] # NoMarker
        BY <2>3 DEF NoMarker
      <3> QED
        BY <2>1, <2>3, <3>1 DEF Wholes, Kept
    <2> QED
      BY <2>2, <2>3
  <1>5. Versioned'
    <2> SUFFICES ASSUME NEW e \in Dirs, comp'[e].version = 1
                 PROVE  /\ e \notin Devices /\ comp'[e].nodes = Tables
                        /\ \A t \in Tables : tab'[e][t] = 0 \/ comp'[e].inputs <= tab'[e][t]
      BY DEF Versioned
    <2>2. CASE e # d
      BY <2>2 DEF Versioned
    <2>3. CASE e = d
      <3>1. comp'[d] = comp[d]
        BY <2>3 DEF NoMarker
      <3>2. /\ d \notin Devices /\ comp[d].nodes = Tables /\ comp[d].inputs <= input[d]
            /\ \A w \in Tables : tab[d][w] = 0 \/ comp[d].inputs <= tab[d][w]
        BY <2>3, <3>1 DEF Versioned, Bounded
      <3> QED
        BY <2>3, <3>1, <3>2
    <2> QED
      BY <2>2, <2>3
  <1> QED
    BY <1>1, <1>3, <1>4, <1>5

\* A directory is cleared.
LEMMA ClearKeeps ==
  ASSUME IInv, TypeOK', NEW d \in Dirs,
         (\E t \in Tables : RemoveDb(d, t)) \/ RemoveLastDb(d) \/ RemoveMarker(d)
  PROVE  IInv'
  <1> USE DEF IInv
  <1>1. /\ UNCHANGED <<input, prof, output, pc, run, st, exp, seen>>
        /\ st[d] = "clear" /\ pc \in {"parse", "clear"}
    BY DEF RemoveDb, RemoveLastDb, RemoveMarker, Staged, TypeOK
  <1>2. /\ tab \in [Dirs -> [Tables -> 0..MaxInput]] /\ foreign \in [Dirs -> SUBSET Tables]
        /\ inc \in [Dirs -> 0..MaxInput] /\ comp \in [Dirs -> Markers \cup {NoMarker}]
    BY DEF TypeOK
  <1>3. CASE \E t \in Tables : RemoveDb(d, t)
    <2>1. PICK t \in Tables : RemoveDb(d, t)
      BY <1>3
    <2>2. /\ inc' = inc /\ comp' = comp
          /\ tab' = [tab EXCEPT ![d][t] = 0]
          /\ foreign' = [foreign EXCEPT ![d] = @ \cup {u \in {t} : comp[d] # NoMarker}]
      BY <2>1 DEF RemoveDb, Beside
    <2>3. /\ \A e \in Dirs \ {d} : tab'[e] = tab[e] /\ foreign'[e] = foreign[e]
          /\ tab'[d][t] = 0 /\ \A u \in Tables \ {t} : tab'[d][u] = tab[d][u]
          /\ foreign[d] \subseteq foreign'[d] /\ (comp[d] # NoMarker => t \in foreign'[d])
      BY <1>2, <2>2
    <2> QED
      BY <1>1, <2>2, <2>3, BesideKeeps
  <1>4. CASE RemoveLastDb(d)
    <2>1. UNCHANGED <<inc, comp, tab, foreign>>
      BY <1>4 DEF RemoveLastDb
    <2> QED
      BY <1>1, <2>1, BesideKeeps
  <1>5. CASE RemoveMarker(d) /\ comp' = comp
    <2>1. /\ tab' = tab /\ inc' = [inc EXCEPT ![d] = 0]
          /\ foreign' = [foreign EXCEPT ![d] = @ \cup {u \in Tables : comp[d] # NoMarker}]
      BY <1>2, <1>5 DEF RemoveMarker, Beside
    <2>3. \A e \in Dirs \ {d} : inc'[e] = inc[e] /\ foreign'[e] = foreign[e]
      BY <1>2, <2>1
    <2>2. comp[d] # NoMarker => Tables \subseteq foreign'[d]
      BY <1>2, <2>1
    <2> QED
      BY <1>1, <1>2, <1>5, <2>1, <2>2, <2>3, BesideKeeps
  <1>6. CASE RemoveMarker(d) /\ comp' # comp
    <2>1. /\ comp' = [comp EXCEPT ![d] = NoMarker] /\ inc' = inc /\ tab' = tab
          /\ foreign' = [foreign EXCEPT ![d] = {}]
      BY <1>6 DEF RemoveMarker
    <2>2. comp'[d] = NoMarker /\ \A e \in Dirs \ {d} : comp'[e] = comp[e] /\ foreign'[e] = foreign[e]
      BY <1>2, <2>1
    <2> QED
      BY <1>1, <2>1, <2>2, BesideKeeps
  <1> QED
    BY <1>3, <1>4, <1>5, <1>6

LEMMA ClearedKeeps ==
  ASSUME IInv, TypeOK', NEW d \in Dirs, Cleared(d) \/ ClearFails(d)
  PROVE  IInv'
  <1> USE DEF IInv
  <1>1. /\ UNCHANGED <<input, inc, comp, tab, foreign, prof, output, pc, run, exp, seen>>
        /\ pc \in {"parse", "clear"}
        /\ st' = [st EXCEPT ![d] = IF pc = "parse" THEN "parse" ELSE "out"]
    BY DEF Cleared, ClearFails, disk, Staged, TypeOK
  <1>2. st \in [Dirs -> Stages]
    BY DEF TypeOK
  <1>3. Staged' /\ OfRun' /\ PartialOutputMarked'
    BY <1>1, <1>2 DEF Staged, OfRun, Making, Marked, Planned, Reading, Exporting,
                      PartialOutputMarked
  <1>5. Bounded' /\ Wholes' /\ Versioned'
    BY <1>1 DEF Bounded, Wholes, Kept, Versioned, Required
  <1> QED
    BY <1>3, <1>5

\* A parser, a calculator or the dump of the Python engine writes a table.
LEMMA PyTableKeeps ==
  ASSUME IInv, TypeOK', NEW d \in Dirs, NEW t \in Tables,
         PyTable(d, t) \/ DumpDevice(d, t) \/ Calculate(d, t)
  PROVE  IInv'
  <1> USE DEF IInv
  <1>1. /\ UNCHANGED <<input, inc, comp, prof, output, pc, run, st, exp, seen>>
        /\ pc = "parse"
    BY DEF PyTable, DumpDevice, Calculate, PyAllParsed, PyWrites
  <1>2. \/ UNCHANGED <<tab, foreign>>
        \/ \E v \in {0, input[d]} \cup {tab[d][u] : u \in Tables} :
             tab' = [tab EXCEPT ![d][t] = v] /\ Beside(d, {t})
    BY DEF PyTable, DumpDevice, Calculate, PyWrites
  <1>3. tab \in [Dirs -> [Tables -> 0..MaxInput]] /\ foreign \in [Dirs -> SUBSET Tables]
    BY DEF TypeOK
  <1>4. CASE UNCHANGED <<tab, foreign>>
    BY <1>1, <1>4, BesideKeeps
  <1>5. ASSUME NEW v \in {0, input[d]} \cup {tab[d][u] : u \in Tables},
               tab' = [tab EXCEPT ![d][t] = v], Beside(d, {t})
        PROVE  IInv'
    <2>1. foreign' = [foreign EXCEPT ![d] = @ \cup {u \in {t} : comp[d] # NoMarker}]
      BY <1>5 DEF Beside
    <2>2. /\ \A e \in Dirs \ {d} : tab'[e] = tab[e] /\ foreign'[e] = foreign[e]
          /\ tab'[d][t] = v /\ \A u \in Tables \ {t} : tab'[d][u] = tab[d][u]
          /\ foreign[d] \subseteq foreign'[d] /\ (comp[d] # NoMarker => t \in foreign'[d])
      BY <1>3, <1>5, <2>1
    <2> QED
      BY <1>1, <2>2, BesideKeeps
  <1> QED
    BY <1>2, <1>4, <1>5
-----------------------------------------------------------------------------
(***************************************************************************)
(* Steps of the run of a graph.                                            *)
(***************************************************************************)
\* What is planned is parsed anew, or left out under a marker that is whole.
LEMMA PlanKeeps ==
  ASSUME IInv, TypeOK', Plan
  PROVE  IInv'
  <1> USE DEF IInv
  <1>1. PICK sel \in Selections :
          /\ \A d \in Dirs : sel[d] = Tables \/ (d \in Devices /\ run.cmd = "export")
          /\ LET reuse == {d \in run.bound : Ready(d)}
                 todo == {d \in run.bound \ reuse : sel[d] # {}}
             IN /\ run' = [run EXCEPT !.reuse = reuse, !.sel = sel]
                /\ st' = [d \in Dirs |-> IF d \in todo THEN "todo" ELSE "out"]
                /\ left' = [d \in Dirs |-> IF d \in todo THEN sel[d] ELSE {}]
    BY DEF Plan
  <1>2. /\ run'.reuse = {d \in run.bound : Ready(d)} /\ run'.sel = sel
        /\ run'.bound = run.bound /\ run.bound \subseteq Dirs
    BY <1>1 DEF TypeOK, Runs
  <1>3. /\ UNCHANGED disk /\ pc' = "exec" /\ exp' = "none"
        /\ \A d \in run.bound : ~Refused(d)
    BY DEF Plan
  <1>4. Staged' /\ Making' /\ Marked' /\ Reading' /\ Exporting'
    BY <1>1, <1>2, <1>3 DEF Staged, Making, Marked, Reading, Exporting
  <1>5. ASSUME NEW d \in run.bound, Ready(d)
        PROVE  comp[d] = NoMarker \/ Reusable(d)
    <2>1. d \in Dirs /\ inc[d] = 0 /\ (comp[d] # NoMarker => comp[d].inputs = input[d])
      BY <1>2, <1>3 DEF Refused
    <2>2. comp[d] = NoMarker \/ comp[d].version = 1
      BY <1>5, <2>1 DEF Ready, TypeOK, Markers
    <2> QED
      <3> SUFFICES ASSUME comp[d].version = 1, comp[d].inputs = input[d] PROVE Reusable(d)
        BY <2>1, <2>2
      <3>1. comp[d].nodes = Tables
        BY <2>1 DEF Versioned
      <3>2. ASSUME NEW t \in Required(d)
            PROVE  tab[d][t] = comp[d].inputs \/ (t \in foreign[d] /\ tab[d][t] = 0)
        <4>1. t \in Tables
          BY DEF Required
        <4>2. CASE t \notin foreign[d]
          BY <2>1, <3>1, <4>1, <4>2 DEF Wholes, Kept
        <4>3. CASE t \in foreign[d]
          <5>1. tab[d][t] \in Nat /\ input[d] \in Nat /\ tab[d][t] <= input[d]
            BY <2>1, <4>1, MarkersAssumption DEF Bounded, TypeOK
          <5>2. tab[d][t] = 0 \/ input[d] <= tab[d][t]
            BY <2>1, <4>1 DEF Versioned
          <5> QED
            BY <4>3, <5>1, <5>2
        <4> QED
          BY <4>2, <4>3
      <3> QED
        BY <3>1, <3>2 DEF Reusable
  <1>6. Planned'
    <2>1. \A d \in Dirs : d \notin Devices => run'.sel[d] = Tables
      BY <1>1, <1>2
    <2>2. \A d \in run'.reuse :
            /\ st'[d] = "out"
            /\ comp'[d] = NoMarker \/ Reusable(d)'
      BY <1>1, <1>2, <1>3, <1>5 DEF disk, Reusable, Required
    <2>3. \A d \in Dirs : st'[d] = "out" /\ d \in run'.bound \ run'.reuse => run'.sel[d] = {}
      BY <1>1, <1>2
    <2> QED
      BY <2>1, <2>2, <2>3 DEF Planned
  <1>7. Bounded' /\ Wholes' /\ Versioned' /\ PartialOutputMarked'
    BY <1>3 DEF disk, Bounded, Wholes, Kept, Versioned, PartialOutputMarked, Required
  <1> QED
    BY <1>4, <1>6, <1>7 DEF OfRun

LEMMA StartParseKeeps ==
  ASSUME IInv, TypeOK', NEW d \in Dirs, StartParse(d)
  PROVE  IInv'
  <1> USE DEF IInv, OfRun
  <1>1. /\ UNCHANGED <<input, comp, tab, prof, output, foreign, pc, run, left, exp, seen>>
        /\ pc = "exec" /\ st[d] = "todo"
    BY DEF StartParse
  <1>2. /\ inc \in [Dirs -> 0..MaxInput] /\ inc' = [inc EXCEPT ![d] = input[d]]
        /\ st \in [Dirs -> Stages] /\ st' = [st EXCEPT ![d] = "parse"]
    BY DEF TypeOK, StartParse
  <1>3. \A e \in Dirs : input[e] \in Nat \ {0}
    BY MarkersAssumption DEF TypeOK
  <1>4. Staged' /\ Marked' /\ Exporting' /\ Versioned' /\ PartialOutputMarked'
    BY <1>1, <1>2 DEF Staged, Marked, Whole, Exporting, Versioned,
                      PartialOutputMarked, Required
  <1>5. Making'
    BY <1>1, <1>2, <1>3 DEF Making, Required
  <1>6. Planned' /\ Reading'
    BY <1>1, <1>2 DEF Planned, Reusable, Whole, Reading, Required
  <1>7. Bounded'
    BY <1>1, <1>2, <1>3 DEF Bounded
  <1>8. Wholes'
    BY <1>1, <1>2, <1>3 DEF Wholes, Kept, Required
  <1> QED
    BY <1>4, <1>5, <1>6, <1>7, <1>8

LEMMA OpenDbKeeps ==
  ASSUME IInv, TypeOK', NEW d \in Dirs, OpenDb(d)
  PROVE  IInv'
  <1> USE DEF IInv, OfRun
  <1>1. UNCHANGED <<input, inc, comp, tab, prof, output, foreign, pc, run, st, left, exp, seen>>
    BY DEF OpenDb
  <1>2. Staged' /\ Making' /\ Marked' /\ Planned' /\ Reading' /\ Exporting'
    BY <1>1 DEF Staged, Making, Marked, Whole, Planned, Reusable, Reading, Exporting, Required
  <1>3. Bounded' /\ Wholes' /\ Versioned' /\ PartialOutputMarked'
    BY <1>1 DEF Bounded, Wholes, Kept, Versioned, PartialOutputMarked, Required
  <1> QED
    BY <1>2, <1>3

\* A table is made while its directory has an INCOMPLETE, from inputs that are no older.
LEMMA MakeTableKeeps ==
  ASSUME IInv, TypeOK', NEW d \in Dirs, NEW t \in Tables, MakeTable(d, t)
  PROVE  IInv'
  <1> USE DEF IInv, OfRun
  <1>1. /\ UNCHANGED <<input, inc, comp, prof, output, foreign, pc, run, st, exp, seen>>
        /\ pc = "exec" /\ st[d] = "parse" /\ t \in left[d]
    BY DEF MakeTable
  <1>2. /\ left \in [Dirs -> SUBSET Tables] /\ left' = [left EXCEPT ![d] = @ \ {t}]
        /\ tab \in [Dirs -> [Tables -> 0..MaxInput]]
        /\ tab' = [tab EXCEPT ![d][t] = input[d]]
    BY DEF TypeOK, MakeTable
  <1>3. \A e \in Dirs : input[e] \in Nat
    BY MarkersAssumption DEF TypeOK
  <1>4. /\ \A e \in Dirs \ {d} : tab'[e] = tab[e] /\ left'[e] = left[e]
        /\ tab'[d][t] = input[d]
        /\ \A u \in Tables \ {t} : tab'[d][u] = tab[d][u]
        /\ left'[d] = left[d] \ {t}
    BY <1>2
  <1>5. Staged' /\ Exporting' /\ PartialOutputMarked'
    BY <1>1 DEF Staged, Exporting, PartialOutputMarked
  <1>10. Versioned'
    BY <1>1, <1>4 DEF Versioned, Bounded
  <1>6. Bounded'
    BY <1>1, <1>3, <1>4 DEF Bounded
  <1>7. Making'
    BY <1>1, <1>4 DEF Making, Bounded, Required
  <1>8. Marked' /\ Planned' /\ Reading'
    <2>1. Marked'
      BY <1>1, <1>4 DEF Marked, Whole, Required
    <2>2. Planned'
      BY <1>1, <1>4 DEF Planned, Reusable, Whole, Required
    <2>3. Reading'
      BY <1>1 DEF Reading
    <2> QED
      BY <2>1, <2>2, <2>3
  <1>9. Wholes'
    BY <1>1, <1>4 DEF Making, Wholes, Kept, Required
  <1> QED
    BY <1>5, <1>6, <1>7, <1>8, <1>9, <1>10

LEMMA ProducerFailsKeeps ==
  ASSUME IInv, TypeOK', NEW d \in Dirs, NEW t \in Tables, ProducerFails(d, t)
  PROVE  IInv'
  <1> USE DEF IInv, OfRun
  <1>1. /\ UNCHANGED <<input, inc, comp, tab, prof, output, foreign, pc, run, exp, seen>>
        /\ pc = "exec" /\ st[d] = "parse" /\ t \in left[d]
        /\ \/ /\ d \in Devices /\ t \in Optional
              /\ left' = [left EXCEPT ![d] = @ \ {t}] /\ st' = st
           \/ st' = [st EXCEPT ![d] = "failed"] /\ left' = left
    BY DEF ProducerFails, disk
  <1>2. left \in [Dirs -> SUBSET Tables] /\ st \in [Dirs -> Stages]
    BY DEF TypeOK
  <1>3. Staged' /\ Marked' /\ Exporting' /\ Versioned' /\ PartialOutputMarked'
    BY <1>1, <1>2 DEF Staged, Marked, Whole, Exporting, Versioned,
                      PartialOutputMarked, Required
  <1>4. Making'
    BY <1>1, <1>2 DEF Making, Required
  <1>5. Planned' /\ Reading'
    BY <1>1, <1>2 DEF Planned, Reusable, Whole, Reading, Required
  <1>6. Bounded' /\ Wholes'
    BY <1>1 DEF Bounded, Wholes, Kept, Required
  <1> QED
    BY <1>3, <1>4, <1>5, <1>6

\* COMPLETE is published when the inputs are still those of INCOMPLETE: what
\* was made in between can have been made from these only.
LEMMA PublishKeeps ==
  ASSUME IInv, TypeOK', NEW d \in Dirs, PublishComplete(d)
  PROVE  IInv'
  <1> USE DEF IInv, OfRun
  <1>1. /\ UNCHANGED <<input, inc, tab, prof, output, pc, run, left, exp, seen>>
        /\ pc = "exec" /\ st[d] = "parse" /\ left[d] = {}
    BY DEF PublishComplete
  <1>2. st \in [Dirs -> Stages] /\ comp \in [Dirs -> Markers \cup {NoMarker}]
    BY DEF TypeOK
  <1>3. inc[d] # 0
    BY <1>1 DEF Making
  <1>4. CASE SameInputs(d)
    <2>1. /\ comp' = [comp EXCEPT ![d] = [version |-> IF d \in Devices THEN 2 ELSE 1,
                                          inputs |-> inc[d], nodes |-> run.sel[d]]]
          /\ st' = [st EXCEPT ![d] = "mark"] /\ foreign' = [foreign EXCEPT ![d] = {}]
      BY <1>4 DEF PublishComplete
    <2>2. /\ \A e \in Dirs \ {d} : comp'[e] = comp[e]
          /\ comp'[d].nodes = run.sel[d] /\ comp'[d].inputs = inc[d]
          /\ d \notin Devices => comp'[d].version = 1
          /\ d \in Devices => comp'[d].version = 2
      BY <2>1, <1>2
    <2>3. \A t \in run.sel[d] \cap Required(d) : tab[d][t] = inc[d]
      <3>1. \A t \in Tables : tab[d][t] \in Nat /\ inc[d] \in Nat /\ input[d] \in Nat
        BY MarkersAssumption DEF TypeOK
      <3>2. run.sel[d] \subseteq Tables
        BY DEF TypeOK, Runs
      <3> QED
        BY <1>1, <1>4, <3>1, <3>2 DEF Making, Bounded, SameInputs
    <2>4. Staged' /\ Exporting' /\ PartialOutputMarked' /\ Bounded'
      BY <1>1, <1>2, <2>1 DEF Staged, Exporting, PartialOutputMarked, Bounded
    <2>5. Making' /\ Reading'
      BY <1>1, <1>2, <2>1 DEF Making, Reading, Required
    <2>6. Marked'
      BY <1>1, <1>2, <2>1, <2>2, <2>3 DEF Marked, Whole, Required
    <2>7. Planned'
      BY <1>1, <1>2, <2>1, <2>2 DEF Planned, Reusable, Whole, Required
    <2>8. Versioned'
      <3> SUFFICES ASSUME NEW e \in Dirs, comp'[e].version = 1
                   PROVE  /\ e \notin Devices /\ comp'[e].nodes = Tables
                          /\ \A t \in Tables : tab'[e][t] = 0 \/ comp'[e].inputs <= tab'[e][t]
        BY DEF Versioned
      <3>1. CASE e # d
        BY <1>1, <2>2, <3>1 DEF Versioned
      <3>2. CASE e = d
        <4>1. d \notin Devices /\ run.sel[d] = Tables /\ Required(d) = Tables
          BY <1>1, <2>2, <3>2 DEF Planned, Required
        <4>2. \A t \in Tables : tab[d][t] = inc[d] /\ inc[d] \in Nat
          BY <2>3, <4>1, MarkersAssumption DEF TypeOK
        <4> QED
          BY <1>1, <2>2, <3>2, <4>1, <4>2
      <3> QED
        BY <3>1, <3>2
    <2>9. Wholes'
      BY <1>1, <1>3, <2>1, <2>2 DEF Wholes, Kept, Required
    <2> QED
      BY <2>4, <2>5, <2>6, <2>7, <2>8, <2>9
  <1>5. CASE ~SameInputs(d)
    <2>1. st' = [st EXCEPT ![d] = "failed"] /\ UNCHANGED <<comp, foreign>>
      BY <1>5 DEF PublishComplete
    <2>2. Staged' /\ Exporting' /\ PartialOutputMarked' /\ Bounded' /\ Making'
      BY <1>1, <1>2, <2>1 DEF Staged, Exporting, PartialOutputMarked, Bounded, Making,
                              Required
    <2>3. Reading' /\ Marked' /\ Planned'
      BY <1>1, <1>2, <2>1 DEF Reading, Marked, Planned, Reusable, Whole, Required
    <2>4. Versioned' /\ Wholes'
      BY <1>1, <2>1 DEF Versioned, Wholes, Kept, Required
    <2> QED
      BY <2>2, <2>3, <2>4
  <1> QED
    BY <1>4, <1>5

LEMMA DropKeeps ==
  ASSUME IInv, TypeOK', NEW d \in Dirs, DropIncomplete(d)
  PROVE  IInv'
  <1> USE DEF IInv, OfRun
  <1>1. /\ UNCHANGED <<input, comp, tab, prof, output, foreign, pc, run, left, exp, seen>>
        /\ pc = "exec" /\ st[d] = "mark"
        /\ \/ inc' = [inc EXCEPT ![d] = 0] /\ st' = [st EXCEPT ![d] = "done"]
           \/ inc' = inc /\ st' = [st EXCEPT ![d] = "failed"]
    BY DEF DropIncomplete
  <1>2. st \in [Dirs -> Stages] /\ inc \in [Dirs -> 0..MaxInput]
    BY DEF TypeOK
  <1>3. Staged' /\ Exporting' /\ PartialOutputMarked' /\ Versioned'
    BY <1>1, <1>2 DEF Staged, Exporting, PartialOutputMarked, Versioned
  <1>4. Making' /\ Reading' /\ Marked' /\ Planned'
    BY <1>1, <1>2 DEF Making, Reading, Marked, Planned, Reusable, Whole, Required
  <1>5. Bounded'
    <2>1. \A e \in Dirs : input[e] \in Nat
      BY MarkersAssumption DEF TypeOK
    <2> QED
      BY <1>1, <1>2, <2>1 DEF Bounded
  <1>6. Wholes'
    BY <1>1, <1>2 DEF Marked, Wholes, Kept, Whole, Required
  <1> QED
    BY <1>3, <1>4, <1>5, <1>6

LEMMA ExportKeeps ==
  ASSUME IInv, TypeOK',
         ExportInit \/ SomeExported \/ ExportReads \/ ExportFails \/ Finalize
  PROVE  IInv'
  <1> USE DEF IInv, OfRun
  <1>1. UNCHANGED <<input, inc, comp, tab, foreign, pc, run, st, left>> /\ pc = "exec"
    BY DEF ExportInit, SomeExported, ExportReads, ExportFails, Finalize, disk
  <1>2. Staged' /\ Making' /\ Marked' /\ Planned'
    BY <1>1 DEF Staged, Making, Marked, Planned, Reusable, Whole, Required
  <1>3. Bounded' /\ Wholes' /\ Versioned'
    BY <1>1 DEF Bounded, Wholes, Kept, Versioned, Required
  <1>4. Exporting' /\ PartialOutputMarked'
    BY <1>1 DEF ExportInit, SomeExported, ExportReads, ExportFails, Finalize, disk, TypeOK,
                Exporting, PartialOutputMarked
  <1>5. Reading'
    <2>1. CASE ExportReads
      BY <1>1, <2>1 DEF ExportReads, Reading, HostsParsed, Written, Dirs
    <2>2. CASE Finalize
      BY <1>1, <2>2 DEF Finalize, Reading
    <2>3. CASE ExportInit \/ SomeExported \/ ExportFails
      BY <1>1, <2>3 DEF ExportInit, SomeExported, ExportFails, Reading, disk
    <2> QED
      BY <2>1, <2>2, <2>3
  <1> QED
    BY <1>2, <1>3, <1>4, <1>5
-----------------------------------------------------------------------------
LEMMA StutterKeeps == IInv /\ UNCHANGED vars => IInv'
  BY DEF vars, disk, IInv, TypeOK, Staged, Bounded, OfRun, Making, Marked, Whole,
         Planned, Reusable, Reading, Exporting, Wholes, Kept, Versioned, PartialOutputMarked, Required

LEMMA NextKeepsIInv == IInv /\ [Next]_vars => IInv'
  <1> SUFFICES ASSUME IInv, [Next]_vars PROVE IInv'
    OBVIOUS
  <1>1. TypeOK'
    BY TypeKept DEF IInv
  <1>2. ASSUME NEW d \in Dirs, Native(d) PROVE IInv'
    BY <1>1, <1>2, StartParseKeeps, OpenDbKeeps, PublishKeeps, DropKeeps, MakeTableKeeps,
       ProducerFailsKeeps DEF Native
  <1>3. ASSUME NEW d \in Dirs, Python(d) PROVE IInv'
    <2>1. CASE PyBegin(d) \/ PyParsed(d) \/ PyFails(d)
      BY <1>1, <2>1, PythonProceeds
    <2>2. CASE Cleared(d) \/ ClearFails(d)
      BY <1>1, <2>2, ClearedKeeps
    <2>3. CASE RemoveLastDb(d) \/ RemoveMarker(d)
      BY <1>1, <2>3, ClearKeeps
    <2>4. ASSUME NEW t \in Tables,
                 RemoveDb(d, t) \/ PyTable(d, t) \/ DumpDevice(d, t) \/ Calculate(d, t)
          PROVE IInv'
      BY <1>1, <2>4, ClearKeeps, PyTableKeeps
    <2> QED
      BY <1>3, <2>1, <2>2, <2>3, <2>4 DEF Python
  <1>4. ASSUME NEW d \in Dirs, Touch(d) PROVE IInv'
    BY <1>1, <1>4, TouchKeeps
  <1>5. ASSUME NEW cmd \in {"import", "export"}, StartNative(cmd) \/ StartPython(cmd) PROVE IInv'
    BY <1>1, <1>5, StartKeeps
  <1>6. CASE Plan
    BY <1>1, <1>6, PlanKeeps
  <1>7. CASE ExportInit \/ SomeExported \/ ExportReads \/ ExportFails \/ Finalize
    BY <1>1, <1>7, ExportKeeps
  <1>8. CASE PlanFails \/ Finish \/ PyCleared \/ Crash
    BY <1>8, EndKeeps
  <1>9. CASE PyView
    BY <1>1, <1>9, PythonProceeds
  <1> QED
    BY <1>2, <1>3, <1>4, <1>5, <1>6, <1>7, <1>8, <1>9, StutterKeeps DEF Next
-----------------------------------------------------------------------------
(***************************************************************************)
(* What the markers promise.                                               *)
(***************************************************************************)
THEOREM Invariance == Spec => []IInv
  <1>1. Init => IInv
    BY InitIInv
  <1>2. IInv /\ [Next]_vars => IInv'
    BY NextKeepsIInv
  <1> QED
    BY <1>1, <1>2, PTL DEF Spec

\* Files, markers and the state of a run have their types; in particular no
\* table is without a database file, whichever of them were removed before.
THEOREM TypeCorrect == Spec => []TypeOK
  <1>1. IInv => TypeOK
    BY DEF IInv
  <1> QED
    BY <1>1, Invariance, PTL

\* A COMPLETE with no INCOMPLETE beside it names only tables that are there and
\* come from the inputs it lists, but for those that the Python engine has removed
\* or written beside it; under the marker of a whole directory not even these are
\* older than the inputs it lists.
THEOREM CompleteIsWhole == Spec => []CompleteMeansWhole
  <1>1. IInv => CompleteMeansWhole
    <2> SUFFICES ASSUME IInv, NEW d \in Dirs, comp[d] # NoMarker, inc[d] = 0
                 PROVE  /\ \A t \in (comp[d].nodes \cap Required(d)) \ foreign[d] :
                             tab[d][t] = comp[d].inputs
                        /\ comp[d].version = 1 =>
                             \A t \in foreign[d] : tab[d][t] = 0 \/ comp[d].inputs <= tab[d][t]
      BY DEF CompleteMeansWhole
    <2>1. \A t \in (comp[d].nodes \cap Required(d)) \ foreign[d] : tab[d][t] = comp[d].inputs
      BY DEF IInv, Wholes, Kept
    <2>2. foreign[d] \subseteq Tables
      BY DEF IInv, TypeOK
    <2> QED
      BY <2>1, <2>2 DEF IInv, Versioned
  <1> QED
    BY <1>1, Invariance, PTL

\* A finalized export has read one version of each directory it was bound to, and
\* lacks only tables that the Python engine removed under a COMPLETE.
THEOREM OneVersion == Spec => []ExportFromOneVersion
  <1>1. IInv => ExportFromOneVersion
    <2> SUFFICES ASSUME IInv, exp = "mark", NEW d \in run.bound,
                        ~(d \in run.reuse /\ comp[d] = NoMarker),
                        NEW t \in run.sel[d] \cap Required(d)
                 PROVE  \/ seen[d][t] = comp[d].inputs
                        \/ d \in run.reuse /\ t \in foreign[d] /\ seen[d][t] = 0
      BY DEF ExportFromOneVersion
    <2>1. d \in Dirs /\ pc = "exec" /\ t \in Tables
      BY DEF IInv, TypeOK, Runs, Staged
    <2>2. seen = tab /\ st[d] \in {"done", "out"}
      BY <2>1 DEF IInv, OfRun, Reading
    <2>3. CASE d \in run.reuse
      BY <2>1, <2>2, <2>3 DEF IInv, OfRun, Planned, Reusable
    <2>4. CASE d \notin run.reuse
      BY <2>1, <2>2, <2>4 DEF IInv, OfRun, Marked, Planned, Whole
    <2> QED
      BY <2>3, <2>4
  <1> QED
    BY <1>1, Invariance, PTL

\* An export that has left only some of its files is marked as unfinished.
THEOREM PartialMarked == Spec => []PartialOutputMarked
  <1>1. IInv => PartialOutputMarked
    BY DEF IInv
  <1> QED
    BY <1>1, Invariance, PTL
=============================================================================
