--------------------------- MODULE PipelineMarkers ---------------------------
(***************************************************************************)
(* The intermediate results of a PROF directory and the markers that tell  *)
(* a later run whether it may use them.                                    *)
(*                                                                         *)
(* Every directory (the host's, one per device) has raw input files and a  *)
(* sqlite directory with databases.  The C++ engine brackets a parse by    *)
(* the files .unified.incomplete and .unified.complete in it, and an       *)
(* export by files of the same names in the PROF directory                 *)
(* (topo_graph_builder.cpp).  The Python engine writes the same databases  *)
(* without markers, and removes what it finds first (msvp_common.py).  The *)
(* Python front end starts one command after the other, each on one of the *)
(* engines, and leaves out the parse of what has databases already         *)
(* (msprof_cpp_pipeline.py).  Any run may die between two file operations. *)
(*                                                                         *)
(* A version of the input stands for the size and times of all files that  *)
(* InputSnapshot lists; it only grows, as modification times do.           *)
(***************************************************************************)
EXTENDS Naturals, FiniteSets

CONSTANTS Hosts,      \* the host directory, or none
          Devices,    \* the device directories
          Tables,     \* the tables that a parse makes in a directory
          Optional,   \* those of them whose producer is not mandatory
          Engines,    \* the engines that a command may be given to
          MaxInput,   \* bound: versions of the input
          MaxRuns     \* bound: commands

ASSUME MarkersAssumption ==
  /\ Hosts \cap Devices = {}
  /\ Optional \subseteq Tables
  /\ Engines \subseteq {"native", "python"}
  /\ MaxInput \in Nat \ {0} /\ MaxRuns \in Nat

VARIABLES
  \* on disk
  input,      \* per directory: version of the raw files
  inc,        \* per directory: version in INCOMPLETE, 0 if there is none
  comp,       \* per directory: COMPLETE, as [version, inputs, nodes], or NoMarker
  tab,        \* per directory and table: version it was made from, 0 if absent
  file,       \* per directory: some *.db file exists
  allDone,    \* per directory: data/all_file.complete of the Python engine
  prof,       \* the markers of the PROF directory, [inc, comp]
  output,     \* files of the last C++ export: "none", "partial", "whole"
  foreign,    \* of no effect: per directory, tables that the Python engine has
              \* removed or written beside the COMPLETE that is there
  \* of the command that runs
  pc,         \* "idle", "plan", "exec", "parse", "clear"
  run,        \* [cmd, bound, reuse, sel, clear]: request and plan
  st,         \* per directory: how far the run has got with it
  left,       \* per directory: tables still to be made
  exp,        \* state of the export processes of this run
  seen,       \* per directory: the tables as the export read them
  runs        \* commands so far

disk == <<input, inc, comp, tab, file, allDone, prof, output, foreign>>
vars == <<disk, pc, run, st, left, exp, seen, runs>>

Dirs == Hosts \cup Devices
Required(d) == IF d \in Devices THEN Tables \ Optional ELSE Tables
NoMarker == [version |-> 0, inputs |-> 0, nodes |-> {}]
NoTables == [t \in Tables |-> 0]
NoRun == [cmd |-> "none", bound |-> {}, reuse |-> {}, sel |-> [d \in Dirs |-> {}],
          clear |-> FALSE]
Markers == [version : {1, 2}, inputs : 1..MaxInput, nodes : SUBSET Tables]
Stages == {"todo", "clear", "parse", "mark", "done", "failed", "out"}
Runs == [cmd : {"none", "import", "export"}, bound : SUBSET Dirs, reuse : SUBSET Dirs,
         sel : [Dirs -> SUBSET Tables], clear : BOOLEAN]

TypeOK ==
  /\ input \in [Dirs -> 1..MaxInput] /\ inc \in [Dirs -> 0..MaxInput]
  /\ comp \in [Dirs -> Markers \cup {NoMarker}]
  /\ tab \in [Dirs -> [Tables -> 0..MaxInput]]
  /\ file \in [Dirs -> BOOLEAN] /\ \A d \in Dirs : tab[d] # NoTables => file[d]
  /\ allDone \in [Dirs -> BOOLEAN] /\ prof \in [inc : BOOLEAN, comp : BOOLEAN]
  /\ output \in {"none", "partial", "whole"} /\ foreign \in [Dirs -> SUBSET Tables]
  /\ pc \in {"idle", "plan", "exec", "parse", "clear"}
  /\ run \in Runs /\ run.reuse \subseteq run.bound
  /\ st \in [Dirs -> Stages] /\ left \in [Dirs -> SUBSET Tables]
  /\ exp \in {"none", "init", "written", "mark", "failed"}
  /\ seen \in [Dirs -> [Tables -> 0..MaxInput]]
  /\ runs \in 0..MaxRuns
-----------------------------------------------------------------------------
(* What a run finds. *)

\* CppPipelineRunner._has_sqlite_data
HasSqliteData(d) == file[d]

\* IntermediateReady: it fails ...
Refused(d) ==
  \/ inc[d] # 0
  \/ /\ comp[d] # NoMarker
     /\ \/ comp[d].version = 2 /\ d \notin Devices
        \/ comp[d].inputs # input[d]

\* Mutant of Ready: a COMPLETE of some nodes counts for the whole directory.
ReadyIfMarked(d) == comp[d] # NoMarker \/ tab[d] # NoTables

\* ... or tells whether the whole directory is taken as parsed.
Ready(d) == comp[d].version # 2 /\ (comp[d] # NoMarker \/ tab[d] # NoTables)

\* FileManager.is_analyzed_data
IsAnalyzed(d) == allDone[d] /\ (file[d] \/ inc[d] # 0 \/ comp[d] # NoMarker)

\* The directories that the runner asks the C++ engine to parse.
Requested ==
  {d \in Hosts : ~HasSqliteData(d)}
  \cup (IF \A d \in Devices : HasSqliteData(d) THEN {} ELSE Devices)

Init ==
  /\ input = [d \in Dirs |-> 1]
  /\ inc = [d \in Dirs |-> 0]
  /\ comp = [d \in Dirs |-> NoMarker]
  /\ tab = [d \in Dirs |-> NoTables]
  /\ file = [d \in Dirs |-> FALSE]
  /\ allDone = [d \in Dirs |-> FALSE]
  /\ prof = [inc |-> FALSE, comp |-> FALSE]
  /\ output = "none" /\ foreign = [d \in Dirs |-> {}]
  /\ pc = "idle" /\ run = NoRun
  /\ st = [d \in Dirs |-> "out"] /\ left = [d \in Dirs |-> {}]
  /\ exp = "none" /\ seen = [d \in Dirs |-> NoTables]
  /\ runs = 0

\* The end of a command, and of the process that ran it.
Leave ==
  /\ pc' = "idle" /\ run' = [NoRun EXCEPT !.cmd = run.cmd]
  /\ st' = [d \in Dirs |-> "out"] /\ left' = [d \in Dirs |-> {}]
  /\ exp' = "none" /\ seen' = [d \in Dirs |-> NoTables]
  /\ UNCHANGED runs

\* ... which clears the sqlite directories on its way out if it was told to.
Conclude ==
  IF run.clear
  THEN /\ pc' = "clear" /\ run' = [NoRun EXCEPT !.cmd = run.cmd]
       /\ st' = [d \in Dirs |-> "clear"] /\ left' = [d \in Dirs |-> {}]
       /\ exp' = "none" /\ seen' = [d \in Dirs |-> NoTables] /\ UNCHANGED runs
  ELSE Leave
-----------------------------------------------------------------------------
(* Commands. *)

\* Raw files grow or are replaced: the collection may still go on.  (Bound: in
\* one directory only; no property relates the inputs of two.)
Touch(d) ==
  /\ input[d] < MaxInput /\ \A e \in Dirs \ {d} : input[e] = 1
  /\ input' = [input EXCEPT ![d] = @ + 1]
  /\ UNCHANGED <<inc, comp, tab, file, allDone, prof, output, foreign, pc, run, st, left, exp, seen, runs>>

\* An import or export that the decision gives to the C++ engine: what has
\* databases is left out, and an import with nothing left is done.
StartNative(cmd) ==
  /\ pc = "idle" /\ runs < MaxRuns /\ "native" \in Engines
  /\ runs' = runs + 1
  /\ run' = [NoRun EXCEPT !.cmd = cmd, !.bound = Requested]
  /\ pc' = IF cmd = "import" /\ Requested = {} THEN "idle" ELSE "plan"
  /\ UNCHANGED <<disk, st, left, exp, seen>>

\* The same on the Python engine, directory by directory.
StartPython(cmd) ==
  /\ pc = "idle" /\ runs < MaxRuns /\ "python" \in Engines
  /\ runs' = runs + 1
  /\ \E clear \in (IF cmd = "export" THEN BOOLEAN ELSE {FALSE}) :
       run' = [NoRun EXCEPT !.cmd = cmd, !.bound = Dirs, !.clear = clear]
  /\ st' = [d \in Dirs |-> IF cmd = "export" /\ IsAnalyzed(d) THEN "done" ELSE "todo"]
  /\ pc' = "parse"
  /\ UNCHANGED <<disk, left, exp, seen>>

\* The run dies; what it had in memory is lost.
Crash == pc # "idle" /\ Leave /\ UNCHANGED disk
-----------------------------------------------------------------------------
(* A run of the C++ engine. *)

\* PlanPipeline: a directory that is refused, or an unfinished export, ends it.
PlanFails ==
  /\ pc = "plan"
  /\ (\E d \in run.bound : Refused(d)) \/ (run.cmd = "export" /\ prof.inc)
  /\ Conclude /\ UNCHANGED disk

\* Of a device an export runs the nodes it needs, a parse all of them.
Selections == [Dirs -> SUBSET Tables]
Plan ==
  /\ pc = "plan"
  /\ \A d \in run.bound : ~Refused(d)
  /\ ~(run.cmd = "export" /\ prof.inc)
  /\ \E sel \in Selections :
       LET reuse == {d \in run.bound : Ready(d)}
           todo == {d \in run.bound \ reuse : sel[d] # {}}
       IN /\ \A d \in Dirs :
               sel[d] = Tables \/ (d \in Devices /\ run.cmd = "export")
          /\ run' = [run EXCEPT !.reuse = reuse, !.sel = sel]
          /\ st' = [d \in Dirs |-> IF d \in todo THEN "todo" ELSE "out"]
          /\ left' = [d \in Dirs |-> IF d \in todo THEN sel[d] ELSE {}]
  /\ pc' = "exec" /\ exp' = "none"
  /\ UNCHANGED <<disk, seen, runs>>

\* CreateHost, CreateDeviceInit: WriteMarker(sqlite, false).
StartParse(d) ==
  /\ pc = "exec" /\ st[d] = "todo"
  /\ inc' = [inc EXCEPT ![d] = input[d]]
  /\ st' = [st EXCEPT ![d] = "parse"]
  /\ UNCHANGED <<input, comp, tab, file, allDone, prof, output, foreign, pc, run, left, exp, seen, runs>>

\* A database is created before the first table of it is.
OpenDb(d) ==
  /\ pc = "exec" /\ st[d] = "parse" /\ left[d] # {} /\ ~file[d]
  /\ file' = [file EXCEPT ![d] = TRUE]
  /\ UNCHANGED <<input, inc, comp, tab, allDone, prof, output, foreign, pc, run, st, left, exp, seen, runs>>

MakeTable(d, t) ==
  /\ pc = "exec" /\ st[d] = "parse" /\ t \in left[d] /\ file[d]
  /\ tab' = [tab EXCEPT ![d][t] = input[d]]
  /\ left' = [left EXCEPT ![d] = @ \ {t}]
  /\ UNCHANGED <<input, inc, comp, file, allDone, prof, output, foreign, pc, run, st, exp, seen, runs>>

\* A producer fails: an optional one of a device is left out.
ProducerFails(d, t) ==
  /\ pc = "exec" /\ st[d] = "parse" /\ t \in left[d]
  /\ IF d \in Devices /\ t \in Optional
     THEN left' = [left EXCEPT ![d] = @ \ {t}] /\ UNCHANGED st
     ELSE st' = [st EXCEPT ![d] = "failed"] /\ UNCHANGED left
  /\ UNCHANGED <<disk, pc, run, exp, seen, runs>>

\* Mutant of SameInputs: the inputs are not looked at again.
InputsTrusted(d) == inc[d] # 0

\* The inputs that the start marker lists are compared with those there now.
SameInputs(d) == inc[d] = input[d]

\* WriteMarker(sqlite, true), Device.Ready: publish COMPLETE, then ...
PublishComplete(d) ==
  /\ pc = "exec" /\ st[d] = "parse" /\ left[d] = {}
  /\ IF SameInputs(d)
     THEN /\ comp' = [comp EXCEPT ![d] = [version |-> IF d \in Devices THEN 2 ELSE 1,
                                          inputs |-> inc[d], nodes |-> run.sel[d]]]
          /\ st' = [st EXCEPT ![d] = "mark"] /\ foreign' = [foreign EXCEPT ![d] = {}]
     ELSE st' = [st EXCEPT ![d] = "failed"] /\ UNCHANGED <<comp, foreign>>
  /\ UNCHANGED <<input, inc, tab, file, allDone, prof, output, pc, run, left, exp, seen, runs>>

\* ... remove INCOMPLETE, which may fail.
DropIncomplete(d) ==
  /\ pc = "exec" /\ st[d] = "mark"
  /\ \/ inc' = [inc EXCEPT ![d] = 0] /\ st' = [st EXCEPT ![d] = "done"]
     \/ UNCHANGED inc /\ st' = [st EXCEPT ![d] = "failed"]
  /\ UNCHANGED <<input, comp, tab, file, allDone, prof, output, foreign, pc, run, left, exp, seen, runs>>

\* Mutant of ExportInit: the directory is made and no marker written.
ExportInitUnmarked ==
  /\ pc = "exec" /\ run.cmd = "export" /\ exp = "none"
  /\ exp' = "init"
  /\ UNCHANGED <<disk, pc, run, st, left, seen, runs>>

\* Export.Init waits for the environment only.
ExportInit ==
  /\ pc = "exec" /\ run.cmd = "export" /\ exp = "none"
  /\ exp' = "init" /\ prof' = [prof EXCEPT !.inc = TRUE]
  /\ UNCHANGED <<input, inc, comp, tab, file, allDone, output, foreign, pc, run, st, left, seen, runs>>

\* Exports wait for Export.Init, for the host's parse and for the device
\* nodes they need; what an export does not need may be missing.
HostsParsed == \A d \in Hosts : st[d] \in {"done", "out"}
Written(d) == st[d] \in {"mark", "done", "out"} \/ (st[d] = "parse" /\ left[d] = {})

SomeExported ==
  /\ pc = "exec" /\ exp = "init" /\ HostsParsed
  /\ output' = "partial"
  /\ UNCHANGED <<input, inc, comp, tab, file, allDone, prof, foreign, pc, run, st, left, exp, seen, runs>>

ExportReads ==
  /\ pc = "exec" /\ exp = "init" /\ HostsParsed
  /\ \A d \in Devices : Written(d)
  /\ output' = "partial" /\ seen' = tab /\ exp' = "written"
  /\ UNCHANGED <<input, inc, comp, tab, file, allDone, prof, foreign, pc, run, st, left, runs>>

\* An export process fails: Export.Finalize is blocked.
ExportFails ==
  /\ pc = "exec" /\ exp \in {"init", "written"}
  /\ exp' = "failed"
  /\ UNCHANGED <<disk, pc, run, st, left, seen, runs>>

\* Export.Finalize: WriteMarker(profPath, true) once every Device.Ready is done.
Finalize ==
  /\ pc = "exec" /\ exp = "written"
  /\ \A d \in Dirs : st[d] \in {"done", "out"}
  /\ output' = "whole" /\ exp' = "mark"
  /\ prof' = [prof EXCEPT !.comp = TRUE]
  /\ UNCHANGED <<input, inc, comp, tab, file, allDone, foreign, pc, run, st, left, seen, runs>>

\* The graph has run: Pipeline.Done succeeded, or a mandatory node did not.
Finish ==
  /\ pc = "exec"
  /\ \A d \in Dirs : st[d] \in {"done", "failed", "out"}
  /\ LET failed == \E d \in Dirs : st[d] = "failed"
     IN \/ /\ ~failed /\ run.cmd = "import"
           /\ Conclude /\ UNCHANGED prof
        \/ /\ ~failed /\ exp = "mark"
           /\ Conclude /\ prof' = [prof EXCEPT !.inc = FALSE]
        \/ /\ (failed /\ (run.cmd = "export" => exp # "none")) \/ exp = "failed"
           /\ Conclude /\ UNCHANGED prof
  /\ UNCHANGED <<input, inc, comp, tab, file, allDone, output, foreign>>
-----------------------------------------------------------------------------
(* A run of the Python engine: analyze_collect_data on one directory after *)
(* the other, then the view.                                               *)

PyBegin(d) ==
  /\ pc = "parse" /\ st[d] = "todo"
  /\ \A e \in Dirs : st[e] \in {"todo", "done"}
  /\ st' = [st EXCEPT ![d] = "clear"]
  /\ UNCHANGED <<disk, pc, run, left, exp, seen, runs>>

\* What the Python engine removes or writes beside a COMPLETE.
Beside(d, ts) == foreign' = [foreign EXCEPT ![d] = @ \cup {t \in ts : comp[d] # NoMarker}]

\* clear_project_dirs, rmtree: files go one by one, in the order of a listing.
RemoveDb(d, t) ==
  /\ st[d] = "clear" /\ tab[d][t] # 0
  /\ tab' = [tab EXCEPT ![d][t] = 0] /\ Beside(d, {t})
  /\ UNCHANGED <<input, inc, comp, file, allDone, prof, output, pc, run, st, left, exp, seen, runs>>

RemoveLastDb(d) ==
  /\ st[d] = "clear" /\ file[d] /\ tab[d] = NoTables
  /\ file' = [file EXCEPT ![d] = FALSE]
  /\ UNCHANGED <<input, inc, comp, tab, allDone, prof, output, foreign, pc, run, st, left, exp, seen, runs>>

RemoveMarker(d) ==
  /\ st[d] = "clear"
  /\ \/ /\ inc[d] # 0 /\ inc' = [inc EXCEPT ![d] = 0]
        /\ Beside(d, Tables) /\ UNCHANGED comp
     \/ /\ comp[d] # NoMarker /\ comp' = [comp EXCEPT ![d] = NoMarker]
        /\ foreign' = [foreign EXCEPT ![d] = {}] /\ UNCHANGED inc
  /\ UNCHANGED <<input, tab, file, allDone, prof, output, pc, run, st, left, exp, seen, runs>>

\* The directory is empty; before a parse its *.complete files go as well.
Cleared(d) ==
  /\ st[d] = "clear" /\ ~file[d] /\ inc[d] = 0 /\ comp[d] = NoMarker
  /\ IF pc = "parse"
     THEN /\ allDone' = [allDone EXCEPT ![d] = FALSE]
          /\ st' = [st EXCEPT ![d] = "parse"] /\ left' = [left EXCEPT ![d] = Tables]
     ELSE st' = [st EXCEPT ![d] = "out"] /\ UNCHANGED <<allDone, left>>
  /\ UNCHANGED <<input, inc, comp, tab, file, prof, output, foreign, pc, run, exp, seen, runs>>

\* A file cannot be removed: project_preparation logs it and the parse goes on.
ClearFails(d) ==
  /\ pc = "parse" /\ st[d] = "clear"
  /\ st' = [st EXCEPT ![d] = "parse"] /\ left' = [left EXCEPT ![d] = Tables]
  /\ UNCHANGED <<disk, pc, run, exp, seen, runs>>

\* A parser makes its table, or logs an error and leaves it out.
PyTable(d, t) ==
  /\ pc = "parse" /\ st[d] = "parse" /\ t \in left[d]
  /\ \/ tab' = [tab EXCEPT ![d][t] = input[d]] /\ Beside(d, {t})
     \/ UNCHANGED <<tab, foreign>>
  /\ file' = [file EXCEPT ![d] = TRUE]
  /\ left' = [left EXCEPT ![d] = @ \ {t}]
  /\ UNCHANGED <<input, inc, comp, allDone, prof, output, pc, run, st, exp, seen, runs>>

\* add_all_file_complete
PyParsed(d) ==
  /\ pc = "parse" /\ st[d] = "parse" /\ left[d] = {}
  /\ allDone' = [allDone EXCEPT ![d] = TRUE]
  /\ st' = [st EXCEPT ![d] = "done"]
  /\ UNCHANGED <<input, inc, comp, tab, file, prof, output, foreign, pc, run, left, exp, seen, runs>>

\* ProfException: an import warns and goes on, an export ends.
PyFails(d) ==
  /\ pc = "parse" /\ st[d] \in {"clear", "parse"}
  /\ \/ /\ run.cmd = "import"
        /\ st' = [st EXCEPT ![d] = "done"] /\ left' = [left EXCEPT ![d] = {}]
        /\ UNCHANGED <<pc, run, exp, seen, runs>>
     \/ run.cmd = "export" /\ Leave
  /\ UNCHANGED disk

\* Once every directory has had its turn, a failed one of an import and one that
\* an export skipped as analysed included, more tables are written beside
\* whatever markers there are.
PyAllParsed == pc = "parse" /\ \A d \in Dirs : st[d] = "done"
PyWrites(d, t, v) ==
  /\ v # tab[d][t] /\ tab' = [tab EXCEPT ![d][t] = v] /\ Beside(d, {t})
  /\ file' = [file EXCEPT ![d] = TRUE]
  /\ UNCHANGED <<input, inc, comp, allDone, prof, output, pc, run, st, left, exp, seen, runs>>

\* dump_device_data of an import, from the raw files of the devices.  (That of an
\* export writes nothing that the calculators after it may not write.)
DumpDevice(d, t) ==
  /\ PyAllParsed /\ run.cmd = "import" /\ d \in Devices
  /\ PyWrites(d, t, input[d])

\* _start_calculate of an export, on every directory: from the raw files or from
\* tables; a table that is made anew is dropped first.
Calculate(d, t) ==
  /\ PyAllParsed /\ run.cmd = "export"
  /\ \E v \in {0, input[d]} \cup {tab[d][u] : u \in Tables} : PyWrites(d, t, v)

\* The view: the C++ export of all that is there (BuildExport), or the viewers
\* of the Python engine.
PyView ==
  /\ PyAllParsed
  /\ \/ run.cmd = "import" /\ Leave
     \/ /\ run.cmd = "export" /\ pc' = "plan"
        /\ UNCHANGED <<run, st, left, exp, seen, runs>>
     \/ run.cmd = "export" /\ Conclude
  /\ UNCHANGED disk

PyCleared ==
  /\ pc = "clear" /\ \A d \in Dirs : st[d] = "out"
  /\ Leave /\ UNCHANGED disk
-----------------------------------------------------------------------------
Native(d) ==
  \/ StartParse(d) \/ OpenDb(d) \/ PublishComplete(d) \/ DropIncomplete(d)
  \/ \E t \in Tables : MakeTable(d, t) \/ ProducerFails(d, t)
Python(d) ==
  \/ PyBegin(d) \/ RemoveLastDb(d) \/ RemoveMarker(d) \/ Cleared(d) \/ ClearFails(d)
  \/ PyParsed(d) \/ PyFails(d)
  \/ \E t \in Tables : RemoveDb(d, t) \/ PyTable(d, t) \/ DumpDevice(d, t) \/ Calculate(d, t)

Next ==
  \/ \E cmd \in {"import", "export"} : StartNative(cmd) \/ StartPython(cmd)
  \/ \E d \in Dirs : Touch(d) \/ Native(d) \/ Python(d)
  \/ PlanFails \/ Plan \/ ExportInit \/ SomeExported \/ ExportReads \/ ExportFails
  \/ Finalize \/ Finish \/ PyView \/ PyCleared \/ Crash

Spec == Init /\ [][Next]_vars
-----------------------------------------------------------------------------
\* A COMPLETE marker with no INCOMPLETE beside it speaks for its directory,
\* whatever runs died, failed, could not clear it or overlapped a change of the
\* inputs before.  Each table of the mandatory producers that it names is there
\* and comes from the very inputs that it lists, but for tables that the Python
\* engine has removed or written beside it since; and where it speaks for the
\* whole directory, so that a later run takes the tables for parsed, not even
\* those are older than the inputs it lists.
CompleteMeansWhole ==
  \A d \in Dirs : comp[d] # NoMarker /\ inc[d] = 0 =>
    /\ \A t \in (comp[d].nodes \cap Required(d)) \ foreign[d] : tab[d][t] = comp[d].inputs
    /\ comp[d].version = 1 =>
         \A t \in foreign[d] : tab[d][t] = 0 \/ comp[d].inputs <= tab[d][t]

\* An export that is finalized has read, of every directory that this run
\* parsed or reused under a marker, the mandatory tables it needs, made from
\* one version of the inputs: that of the marker.  All that may have become of a
\* table since a reused COMPLETE was published is that the Python engine has
\* removed it; a stale one is never read.
ExportFromOneVersion ==
  exp = "mark" =>
    \A d \in run.bound :
      \/ d \in run.reuse /\ comp[d] = NoMarker
      \/ \A t \in run.sel[d] \cap Required(d) :
           \/ seen[d][t] = comp[d].inputs
           \/ d \in run.reuse /\ t \in foreign[d] /\ seen[d][t] = 0

\* An export that has left only some of its files is marked as unfinished, at
\* whatever point it died or failed.
PartialOutputMarked == output = "partial" => prof.inc

\* "A partial Device run is never a whole-device cache hit" (the comment in
\* IntermediateReady): an export that is finalized finds every mandatory table
\* that it needs in a device whose last parse completed for some nodes only.
PartialIsNoHit ==
  exp = "mark" =>
    \A d \in Devices : comp[d].version = 2 /\ inc[d] = 0 =>
      \A t \in run.sel[d] \ Optional : seen[d][t] # 0
=============================================================================
