---------------------------- MODULE MCPipelinePlan ----------------------------
(***************************************************************************)
(* Instances of PipelinePlan: the registered definitions with requests for  *)
(* every chip they name and one they do not, and every choice of            *)
(* dependencies in a small set of invented definitions.                     *)
(***************************************************************************)
EXTENDS PipelinePlan

MCTables == ("registered" :> Registered) @@ ("none" :> << >>)

\* Requests of the registered definitions.
Roots(defs) == Listed(DOMAIN defs)
AllDb == Append(Roots(SaverDefinitions), Flow("DB:STRING_IDS"))
AllTimelines == Append(Roots(TimelineDefinitions), Flow("TIMELINE:POST_DUMP"))
AllSummaries == Roots(SummaryDefinitions)
Request(cann, chips, reuse, exporting, roots) ==
  [table |-> "registered", cann |-> cann, chips |-> chips, reuse |-> reuse,
   exporting |-> exporting, roots |-> roots,
   mstx |-> Id3("TIMELINE_EXPORT", "MSPROFTX", "") \in Range(roots)]
One(chip) == "device_0" :> chip
Two(c, d) == One(c) @@ ("device_1" :> d)
Parses ==
  {Request(cann, One(c), {}, FALSE, << >>) :
     cann \in BOOLEAN, c \in {V111, V410, V610, V611, V620, "V1_1_3"}} \cup
  {Request(TRUE, << >>, {}, FALSE, << >>),
   Request(TRUE, Two(V410, V410), {"device_1"}, FALSE, << >>)}
Exports ==
  {Request(TRUE, One(c), {}, TRUE, roots) : c \in {V111, V410, V610, V611, V620},
     roots \in {AllDb, AllTimelines, AllSummaries}} \cup
  {Request(FALSE, Two(c, V410), reuse, TRUE, AllDb \o AllTimelines \o AllSummaries) :
     c \in {V410, V610}, reuse \in {{}, {"device_0"}}} \cup
  {Request(cann, One(V410), {}, TRUE, << >>) : cann \in BOOLEAN} \cup
  {Request(TRUE, One(c), {}, TRUE, <<r>>) : c \in {V410, V610}, r \in Range(AllSummaries)} \cup
  {Request(TRUE, One(c), {}, TRUE, <<r, Flow("TIMELINE:POST_DUMP")>>) : c \in {V410, V610},
     r \in DOMAIN TimelineDefinitions}
MCRequests == Parses \cup Exports

\* Calls with invented definitions: R, A and B of the export, D and E of a device,
\* where D has another definition on device s perhaps, E cannot be made if its chips
\* are "q" alone, and Z has no definition.
Chips3 == ("s" :> "p") @@ ("t" :> "p") @@ ("u" :> "q")
On(name, s) == InstanceOn(Dev(name), s)
Node3(kind, deps, comps, chips) ==
  [NoNode EXCEPT !.kind = kind, !.deps = deps, !.comps = comps, !.chips = chips]
Invented ==
  {(Data("R") :> Node3("export", rd, rc, Every)) @@
   (Data("A") :> Node3("export", ad, ac, Every)) @@
   (Data("B") :> Node3("export", bd, << >>, Every)) @@
   (Dev("D") :> Node3("device", dd, << >>, {"p"})) @@
   (Dev("E") :> [Node3("device", << >>, << >>, {"q", e}) EXCEPT !.makes = e = "p"]) @@ own :
     rd \in {<<Data("A"), Data("A")>>, <<Dev("D"), On("D", "s")>>, <<On("D", "t"), Data("A")>>,
            <<Data("Z")>>},
     rc \in {<< >>, <<Data("A"), Dev("E")>>, <<Data("B"), Dev("D")>>},
     ad \in {<< >>, <<Data("B")>>, <<Data("R")>>, <<On("D", "u")>>},
     ac \in {<< >>, <<Data("B")>>, <<Data("A")>>},
     bd \in {<< >>, <<Data("A")>>, <<Dev("D"), Dev("E")>>},
     dd \in {<< >>, <<Dev("E")>>, <<On("E", "t")>>, <<Data("B")>>},
     e \in {"p", "q"},
     own \in {<< >>, On("D", "s") :> Node3("device", <<Dev("E")>>, <<Data("B")>>, {"p"})}}
InventedCalls ==
  {[table |-> "none", overlay |-> o, roots |-> roots, chips |-> Chips3, reuse |-> {"t"},
    bound |-> {"export", "s", "t", "u"}, parseRoots |-> << >>, mstx |-> FALSE] :
     o \in Invented, roots \in {<<Data("R")>>, <<Data("B"), Data("R")>>}}
MCCalls ==
  InventedCalls \cup
  {[o EXCEPT !.roots = << >>] : o \in {CHOOSE o \in InventedCalls : TRUE}} \cup
  {SingleDevice("registered", "device_0", c) : c \in {V111, V410, V610, V611, V620}}

\* The step trace summary alone, and with its timeline.
StepTrace == Id3("SUMMARY_GENERATION", "STEP_TRACE", "")
StepTraceRequests ==
  {Request(TRUE, One(c), {}, TRUE, <<StepTrace>>) : c \in {V111, V410, V610, V611, V620}}
NoCalls == {}
=============================================================================
