----------------------------- MODULE PipelinePlan -----------------------------
(***************************************************************************)
(* The graphs of the unified pipeline                                       *)
(* (analysis/csrc/application/pipeline/topo_graph_builder.cpp): from a      *)
(* request, which devices to parse and what to export, PlanPipeline binds    *)
(* the registered definitions to the scopes of this run, compiles the graph *)
(* once to learn which processes each device gets, adds for each device the *)
(* node that marks it complete, and has the graph compiled again with it.   *)
(***************************************************************************)
EXTENDS TopoGraph, TopologyTables

CONSTANTS
  Requests,  \* requests: [table, cann, chips, reuse, exporting, roots, mstx]
  Calls      \* calls of Build with bindings of the caller's own

ASSUME RequestsAreScoped ==
  \A q \in Requests : DOMAIN q.chips \cap {"profile", "host", "export"} = {}

VARIABLES
  request,   \* what was asked for
  phase      \* "select": the first build of a plan; "final": the build of the
             \* request; "direct": a call of Build

vars == <<request, phase, graphVars>>

Load == Id3("FLOW_CONTROL", "Environment.Load", "profile")
Done == Id3("FLOW_CONTROL", "Pipeline.Done", "profile")
HostC == Id3("HOST_PROCESSING", "HostC", "host")
ExportInit == Id3("FLOW_CONTROL", "Export.Init", "export")
Finalize == Id3("FLOW_CONTROL", "Export.Finalize", "export")
Init1(s) == InstanceOn(Dev("Device.Init"), s)
Ready(s) == InstanceOn(Dev("Device.Ready"), s)

\* The dependencyResolver `d` of a definition (device_topology_register.cpp:111,
\* timeline_manager.cpp:203, db_assembler.cpp:1796).  Of the alternatives for chips
\* those are taken that support the chip, and those that nobody registered.
NoAlternative(d, scope, v) ==           \* mutant: none is taken
  << >>
Alternatives(d, scope, v) ==
  SelectSeq(d.alts, LAMBDA a : a \in DOMAIN Tables[v.table] =>
                                 Supports(Tables[v.table][a], v.chips[scope]))
Chosen(w, d, ids) == IF w \in d.waits THEN ids ELSE << >>
Resolvers(d, scope, v) ==
  (IF d.alts # << >> THEN Alternatives(d, scope, v) ELSE << >>) \o
  Chosen("host", d, v.parseRoots) \o
  SelectSeq(v.roots, LAMBDA r : r.stage \in d.waits) \o
  (IF v.mstx THEN Chosen("mstx", d, <<Data("MSTX")>>) ELSE << >>)

-----------------------------------------------------------------------------
\* One definition, and definitions to which others are added.
Only(id, d) == [i \in {id} |-> d]
With(defs, more) ==
  [i \in DOMAIN defs \cup DOMAIN more |-> IF i \in DOMAIN defs THEN defs[i] ELSE more[i]]

\* AddCallback, and the parse roots of BindHost.
Callback(kind, deps) == [NoNode EXCEPT !.kind = kind, !.deps = deps]
ParseRoots(q) == IF q.cann THEN <<HostC>> ELSE << >>

\* BindDeviceDefinitions: for each device, what its chip supports.
DeviceBindings(q) ==
  LET R == Tables[q.table]
      kept(d, s) == R[d].kind = "device" /\ ~R[d].opens /\ Supports(R[d], q.chips[s])
      on(s) == {InstanceOn(d, s) : d \in {d \in DOMAIN R : kept(d, s)}}
  IN  [i \in UNION {on(s) : s \in DOMAIN q.chips} |-> R[Unscoped(i)]]

\* The definitions of this request's exports: after Export.Init, the processors
\* after the parse roots too.
ExportBindings(q) ==
  LET R == Tables[q.table]
      exports == {d \in DOMAIN R : R[d].kind = "export"}
      after(i) == <<ExportInit>> \o
                  (IF i.stage = "DATA_PROCESSING" THEN ParseRoots(q) ELSE << >>)
  IN  With(Only(ExportInit, Callback("export", <<Load>>)),
           [i \in {InstanceOn(d, "export") : d \in exports} |->
             [R[Unscoped(i)] EXCEPT !.deps = @ \o after(i)]])
Bindings(q) ==
  IF q.exporting THEN With(DeviceBindings(q), ExportBindings(q)) ELSE DeviceBindings(q)

\* What the end of the run waits for besides the exports: a reused device only to
\* be initialised, without exports every operation of the others.
ExportRoots(q) == [k \in 1..Len(q.roots) |-> InstanceOn(q.roots[k], "export")]
OperationsOf(q, s) == {i \in DOMAIN DeviceBindings(q) : i.scope = s}
Parsing(q, s) ==
  IF s \in q.reuse THEN <<Init1(s)>>
  ELSE IF q.exporting THEN << >> ELSE Listed(OperationsOf(q, s))
ParseDone(q) ==
  LET scopes == Listed(DOMAIN q.chips)
  IN  <<Load>> \o ParseRoots(q) \o
      FlattenSeq([k \in 1..Len(scopes) |-> Parsing(q, scopes[k])])
Supported(q) ==
  q.exporting \/ \A s \in DOMAIN q.chips \ q.reuse : OperationsOf(q, s) # {}

Job(q, overlay, roots) ==
  [table |-> q.table, overlay |-> overlay, roots |-> roots, chips |-> q.chips,
   reuse |-> q.reuse, bound |-> {"profile", "host", "export"} \cup DOMAIN q.chips,
   parseRoots |-> ParseRoots(q), mstx |-> q.mstx]
Selection(q) == Job(q, Bindings(q), ExportRoots(q) \o ParseDone(q))

\* AddDeviceCompletion: what the first build has of each device.  The optional
\* operations are waited for, but may fail.
ProcessesOf(s) == {i \in Ids : i.stage = "DEVICE_PROCESSING" /\ i.scope = s}
Completed == {s \in DOMAIN job.chips : ProcessesOf(s) # {}}
RequiredOnly(s) ==                      \* mutant: the optional ones are left out
  [Callback("device", Listed({i \in ProcessesOf(s) : Definition(i).mandatory}))
   EXCEPT !.comps = << >>]
ReadyNode(s) ==
  [Callback("device", Listed({i \in ProcessesOf(s) : Definition(i).mandatory}))
   EXCEPT !.comps = Listed({i \in ProcessesOf(s) : ~Definition(i).mandatory})]
ReadyNodes == [i \in {Ready(s) : s \in Completed} |-> ReadyNode(i.scope)]

\* The end of the graph: Export.Finalize, if there are exports, and Pipeline.Done.
Closing(q) ==
  LET done == ParseDone(q) \o Listed(DOMAIN ReadyNodes)
  IN  IF q.exporting
      THEN With(Only(Finalize, Callback("export", done \o ExportRoots(q))),
                Only(Done, Callback("profile", <<Finalize>>)))
      ELSE Only(Done, Callback("profile", done))

\* single_device.cpp, the other caller of Build: every operation of one device, with
\* an initialisation of its own that does nothing.
SingleDevice(table, s, chip) ==
  LET q == [table |-> table, cann |-> FALSE, chips |-> Only(s, chip), reuse |-> {},
            exporting |-> FALSE, roots |-> << >>, mstx |-> FALSE]
      init == [NoNode EXCEPT !.kind = "device", !.mandatory = FALSE]
  IN  [Job(q, Only(Dev("Device.Init"), init), Listed(OperationsOf(q, s))) EXCEPT !.bound = {s}]

\* What the registers, the requests and the other callers give.
ASSUME TablesAreWellFormed ==
  \A t \in DOMAIN Tables :
    Collection(Tables[t]) /\ \A i \in DOMAIN Tables[t] : i.scope = NoScope
ASSUME RequestsAreWellFormed ==
  \A q \in Requests :
    /\ q.table \in DOMAIN Tables /\ IdList(q.roots) /\ Scopes(q.chips)
    /\ \A last \in {ParseDone(q), <<Done>>}, i \in DOMAIN Tables[q.table] :
         Answers(Tables[q.table][i], Job(q, << >>, ExportRoots(q) \o last))
ASSUME CallsAreWellFormed ==
  \A c \in Calls : WellFormed(c)

\* Every operation of a device depends on its Device.Init (DeviceDefinition,
\* device_topology_register.cpp), and the nodes that PlanPipeline adds have names of
\* their own.
ASSUME DevicesAreInitialised ==
  \A t \in DOMAIN Tables :
    LET R == Tables[t]
        init == Dev("Device.Init")
    IN  /\ DOMAIN R \cap {Unscoped(Finalize), Unscoped(Done), Dev("Device.Ready")} = {}
        /\ \A i \in DOMAIN R : R[i].kind = "device" => i = init \/ init \in Range(R[i].deps)
        /\ init \in DOMAIN R => R[init].kind = "device"

\* What a resolver takes of the roots are exports: it answers the same in both builds.
ASSUME BothBuildsAnswerAlike ==
  \A q \in Requests :
    LET first == Job(q, << >>, ExportRoots(q) \o ParseDone(q))
        second == Job(q, << >>, ExportRoots(q) \o <<Done>>)
    IN  \A i \in DOMAIN Tables[q.table] :
          LET r == Resolver(Tables[q.table][i])
          IN  r # NoResolver =>
                \A s \in ScopesFor(Tables[q.table][i], first) :
                  Resolve(r, s, View(first)) = Resolve(r, s, View(second))

-----------------------------------------------------------------------------
Start(j) ==
  /\ job = j /\ stack = << >> /\ processes = << >> /\ next = 1
  /\ verdict = IF j.roots = << >> THEN "false" ELSE "none"
Init ==
  \/ /\ request \in {q \in Requests : Supported(q)}
     /\ phase = "select"
     /\ Start(Selection(request))
  \/ /\ request \in Calls
     /\ phase = "direct"
     /\ Start(request)

\* PlanPipeline goes on after the first build, and the builder builds again.
Complete ==
  /\ phase = "select" /\ verdict = "true"
  /\ phase' = "final"
  /\ Begin([job EXCEPT !.overlay = With(@, With(ReadyNodes, Closing(request))),
                       !.roots = ExportRoots(request) \o <<Done>>])
  /\ UNCHANGED request

Compiling == Compile /\ UNCHANGED <<request, phase>>
Next == Compiling \/ Complete
Spec == Init /\ [][Next]_vars

-----------------------------------------------------------------------------
\* Of a graph, what every process comes after.
Ancestors ==
  LET A[k \in 0..Len(processes)] ==
        IF k = 0 THEN << >>
        ELSE LET before == A[k - 1]
                 inputs == Inputs(processes[k])
             IN  Append(before, inputs \cup UNION {before[j] : j \in inputs})
  IN  A[Len(processes)]
Chip(i) == IF i.scope \in DOMAIN job.chips THEN job.chips[i.scope] ELSE ""
ChangedBy(k) == Edits(Unscoped(processes[k].id))
MadeBy(k) == Gives(Unscoped(processes[k].id))
TakenBy(k) ==
  LET i == processes[k].id IN Takes(Unscoped(i), Definition(i).needs, Chip(i))
Built == phase # "select" /\ verdict = "true" /\ job.table = "registered"

\* A process finds what it takes from the inventory of its scope: whatever in the
\* graph produces it comes before, on every chip and for every selection, and so do
\* or don't those that change it in place: nobody reads it while it is changed.
InputsOrdered ==
  Built =>
    LET K == 1..Len(processes)
        anc == Ancestors
        made == [k \in K |-> MadeBy(k)]
        taken == [k \in K |-> TakenBy(k)]
        changed == [k \in K |-> ChangedBy(k)]
        scope == [k \in K |-> processes[k].id.scope]
    IN  \A r \in {k \in K : taken[k] # {}} :
          \A w \in {w \in K \ {r} : scope[w] = scope[r]} :
            /\ made[w] \cap taken[r] # {} => w \in anc[r]
            /\ changed[w] \cap (taken[r] \cup changed[r]) # {} =>
                 w \in anc[r] \/ r \in anc[w]

\* What a process takes is registered as its input, so that ProcessControl keeps it
\* (data_inventory.h: data that is not registered with
\* REGISTER_TOPO_NODE_DEPENDENT_DATA is released at once).
InputsDeclared ==
  Built =>
    \A r, w \in 1..Len(processes) :
      processes[r].id.scope = processes[w].id.scope =>
        MadeBy(w) \cap TakenBy(r) \subseteq Definition(processes[r].id).needs

\* A device is initialised before any of its operations runs, and Device.Ready, by
\* which COMPLETE is written, waits for every one of them that runs, the optional
\* ones included: nothing writes to a device's databases after the marker.
DeviceBracketed ==
  phase = "final" /\ verdict = "true" =>
    \A s \in DOMAIN job.chips :
      LET mine == {k \in 1..Len(processes) : processes[k].id \in ProcessesOf(s)}
          id(k) == processes[k].id
          anc == Ancestors
      IN  mine # {} =>
            \E i, r \in mine :
              /\ id(i) = Init1(s) /\ id(r) = Ready(s)
              /\ \A k \in mine \ {i} : i \in anc[k]
              /\ Inputs(processes[r]) = mine \ {r}
              /\ \E d \in 1..Len(processes) : id(d) = Done /\ r \in anc[d]
=============================================================================
