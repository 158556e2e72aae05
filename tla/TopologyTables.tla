---------------------------- MODULE TopologyTables ----------------------------
(***************************************************************************)
(* What the four topology registers, and topo_graph_builder.cpp itself,    *)
(* register when the library is loaded: the definitions from which every    *)
(* graph is compiled.  A row of a register is                               *)
(*                                                                         *)
(*   <<name, the names it depends on, ..., the types it declares to read>>  *)
(*                                                                         *)
(* A data type that only one process produces is named after that process. *)
(* What the processes really read, produce and edit is in the last part.    *)
(***************************************************************************)
EXTENDS SequencesExt

Id3(stage, name, scope) == [stage |-> stage, name |-> name, scope |-> scope]
Dev(name) == Id3("DEVICE_PROCESSING", name, "")
Data(name) == Id3("DATA_PROCESSING", name, "")
Flow(name) == Id3("FLOW_CONTROL", name, "")
Each(Of(_), names) == [k \in 1..Len(names) |-> Of(names[k])]

\* A definition: the members of TopoNodeDefinition that decide a graph.  `waits`
\* stands for its dependencyResolver: "alternatives" (ChipDependencies) among
\* `alts`, "host" (HostDataDependencies), the selected roots of a stage, or MSTX.
NoNode == [kind |-> "export", deps |-> << >>, comps |-> << >>, chips |-> {"all"},
           mandatory |-> TRUE, needs |-> {}, waits |-> {}, alts |-> << >>,
           opens |-> FALSE, makes |-> TRUE]

-----------------------------------------------------------------------------
\* device_topology_register.cpp.  The chips a row may name:
V111 == "V1_1_1"
V410 == "V4_1_0"
V610 == "V6_1_0"
V611 == "V6_1_1"
V620 == "V6_2_0"
V6 == {V610, V611}
Every == {"all"}
Spec1 == {"StreamExpandSpec"}

Parsers == {
  <<"AicpuParser", <<"LoadStreamExpandSpec">>, Every, Spec1>>,
  <<"CcuChannelParser", << >>, V6, {}>>,
  <<"CcuMissionParser", << >>, V6, {}>>,
  <<"FftsProfileParser", <<"LoadStreamExpandSpec">>, {V410, V620} \cup V6, Spec1>>,
  <<"FreqParser", << >>, {V111} \cup V6, {}>>,
  <<"LpmInfoParser", << >>, {V410}, {}>>,
  <<"NpuMemParser", << >>, {V410, V610}, {}>>,
  <<"NpuModuleMemParser", << >>, {V410, V610}, {}>>,
  <<"QosParser", << >>, {V410}, {}>>,
  <<"StarsSocParser", <<"LoadStreamExpandSpec">>, {V410}, Spec1>>,
  <<"StarsSocParserV6", << >>, V6, {}>>,
  <<"StarsSocProfileParser", << >>, {V410, V111, V610}, {}>>,
  <<"TsTrackParser", <<"LoadStreamExpandSpec">>, Every, Spec1>>,
  <<"UbParser", << >>, V6, {}>>}
Modelings == {
  <<"DeviceTaskProcess", << >>, Every, {}>>,
  <<"LoadHostData", <<"DeviceTaskProcess">>, Every,
    {"DeviceTask", "AicpuOpNameMap", "Mc2CommInfo"}>>,
  <<"LoadStreamExpandSpec", << >>, Every, {}>>,
  <<"LogModeling", <<"StarsSocParser", "TsTrackParser", "DeviceTaskProcess">>, {V410},
    {"HalLogData", "HalTrackData", "DeviceTask"}>>,
  <<"LogModelingV6", <<"StarsSocParserV6", "TsTrackParser", "DeviceTaskProcess">>, V6,
    {"HalLogData", "HalTrackData", "DeviceTask"}>>,
  <<"PmuModeling", <<"FftsProfileParser", "TsTrackParser">>, {V410, V620} \cup V6,
    {"HalPmuData", "HalTrackData"}>>,
  <<"StepTraceProcess", <<"TsTrackParser">>, Every, {"HalTrackData"}>>}
Calculations == {
  <<"AscendTaskAssociation", <<"LoadHostData", "AicpuParser">>, Every,
    {"DeviceTask", "HostTasks", "HostStreamInfo", "DeviceStreamInfo"}>>,
  <<"HcclCalculator", <<"AscendTaskAssociation", "LoadHostData">>, Every,
    {"TopDownTask", "HcclTask", "HcclOp"}>>,
  <<"KfcCalculator", <<"AicpuPersistence", "AscendTaskPersistence">>, Every,
    {"KfcInfoData", "MasterStreamTaskData", "HcclOp", "TopDownTask", "AicpuOpNameMap",
     "Mc2CommInfo"}>>,
  <<"PmuAssociation", <<"LoadHostData", "AscendTaskAssociation">>, Every,
    {"HalPmuData", "DeviceTask", "HalFreqLpmData", "HostStreamInfo"}>>}
Persistences == {
  <<"AccPmuPersistence", << >>, {V410, V610}, {"HalLogData", "HalSocProfileData"}>>,
  <<"AicpuPersistence", <<"AicpuParser", "LoadHostData", "TsTrackParser">>, Every,
    {"AicpuData", "DeviceStreamInfo", "HostStreamInfo", "GeHashMap", "HalTrackData",
     "KfcInfoData", "MasterStreamTaskData"}>>,
  <<"AscendTaskPersistence", <<"HcclCalculator">>, Every, {"TopDownTask"}>>,
  <<"CcuPersistence", <<"CcuMissionParser", "CcuChannelParser">>, V6,
    {"CcuMissionDataSet", "CcuChannelDataSet"}>>,
  <<"DeviceHcclPersistence", <<"HcclCalculator", "KfcCalculator">>, Every,
    {"DeviceHcclOp", "DeviceHcclTask", "HcclStatistics", "KfcTaskRecord", "KfcOpRecord",
     "KfcOpStatistics"}>>,
  <<"FreqPersistence", <<"FreqParser">>, {V111} \cup V6, {"HalFreqLpmData"}>>,
  <<"LpmInfoPersistence", <<"LpmInfoParser">>, {V410}, {"HalLpmInfoData"}>>,
  <<"MetricSummaryPersistence", <<"PmuAssociation">>, Every,
    {"DeviceTask", "HalPmuData", "HostStreamInfo"}>>,
  <<"NpuMemPersistence", <<"NpuMemParser">>, {V410, V610}, {"HalNpuMemData"}>>,
  <<"NpuModuleMemPersistence", <<"NpuModuleMemParser">>, {V410, V610},
    {"HalNpuModuleMemData"}>>,
  <<"QosPersistence", << >>, {V410, V610}, {"HalQosBwData", "HalSocProfileData"}>>,
  <<"LowPowerPersistence", <<"StarsSocProfileParser">>, {V610}, {"HalSocProfileData"}>>,
  <<"ChipTransPersistence", <<"StarsSocProfileParser">>, {V410, V111, V610},
    {"HalSocProfileData"}>>,
  <<"InterSocPersistence", <<"StarsSocProfileParser">>, {V410, V610}, {"HalSocProfileData"}>>,
  <<"SioPersistence", <<"StarsSocProfileParser">>, {V410, V111, V610}, {"HalSocProfileData"}>>,
  <<"StepTracePersistence", <<"StepTraceProcess", "TsTrackParser">>, Every,
    {"StepTraceTasks", "HalTrackData"}>>,
  <<"TracePersistence", <<"StepTraceProcess", "TsTrackParser">>, Every,
    {"StepTraceTasks", "HalTrackData"}>>,
  <<"TsTrackPersistence", <<"TsTrackParser">>, Every, {"HalTrackData"}>>,
  <<"UbPersistence", <<"UbParser">>, V6, {"HalUbBwData"}>>}
DeviceRows == Parsers \cup Modelings \cup Calculations \cup Persistences

\* The rows registered with mandatory = false, and with a resolver.
Optional == {"QosParser", "StarsSocProfileParser", "UbParser", "LoadHostData",
  "StepTraceProcess", "MetricSummaryPersistence", "QosPersistence", "ChipTransPersistence",
  "InterSocPersistence", "SioPersistence", "UbPersistence"}
AwaitingHost == {"CcuMissionParser", "LoadHostData", "LoadStreamExpandSpec"}
AlternativesOf(name) ==
  CASE name = "LoadHostData" -> <<"LogModeling", "LogModelingV6">>
    [] name = "PmuAssociation" -> <<"PmuModeling">>
    [] name = "AccPmuPersistence" ->
         <<"StarsSocParser", "StarsSocParserV6", "StarsSocProfileParser">>
    [] name = "QosPersistence" -> <<"QosParser", "StarsSocProfileParser">>
    [] OTHER -> << >>

DeviceDefinition(r) ==
  [NoNode EXCEPT !.kind = "device", !.deps = Append(Each(Dev, r[2]), Dev("Device.Init")),
     !.chips = r[3], !.needs = r[4], !.mandatory = r[1] \notin Optional,
     !.waits = IF r[1] \in AwaitingHost THEN {"alternatives", "host"} ELSE {"alternatives"},
     !.alts = Each(Dev, AlternativesOf(r[1]))]
DeviceDefinitions ==
  [id \in {Dev(r[1]) : r \in DeviceRows} |->
    DeviceDefinition(CHOOSE r \in DeviceRows : r[1] = id.name)]

-----------------------------------------------------------------------------
\* data_processor_topology_register.cpp: name, data and device dependencies, needs.
Compute == {"TASK", "COMPUTE_TASK_INFO"}
Platform == {"NumaLevels", "NumaMetrics", "NumaScaling", "NumaTitles", "CoreThread",
  "CoreProcess", "CoreMetricDesc", "CoreMetric"}
ProcessorRows ==
  {<<n, << >>, << >>, {}>> : n \in {"HASH", "API", "DPU", "MSTX", "DDR", "HBM", "HCCS",
     "NETDEV_STATS", "CPU_USAGE", "CPU_FREQ", "MEM_USAGE", "DISK_USAGE", "NETWORK_USAGE",
     "OSRT_API", "LLC", "PCIE", "PAGE_FAULT", "NIC_TIMELINE", "ROCE_TIMELINE", "NIC", "ROCE",
     "MEMCPY_INFO", "FUSION_OP", "FUSION_TASK", "MODEL_NAME", "HOST_TASK", "BIU_PERF"}} \cup
  {<<n[1], << >>, <<n[2]>>, {}>> : n \in {
     <<"CCU_MISSION", "CcuPersistence">>, <<"KFC_TASK", "AicpuPersistence">>,
     <<"DEVICE_TX", "TsTrackPersistence">>, <<"STEP_TRACE", "TracePersistence">>,
     <<"TASK", "AscendTaskPersistence">>, <<"ACC_PMU", "AccPmuPersistence">>,
     <<"CHIP_TRAINS", "ChipTransPersistence">>, <<"NPU_MEM", "NpuMemPersistence">>,
     <<"SIO", "SioPersistence">>, <<"SOC", "InterSocPersistence">>,
     <<"QOS", "QosPersistence">>, <<"PMU", "MetricSummaryPersistence">>,
     <<"NPU_MODULE_MEM", "NpuModuleMemPersistence">>,
     <<"UNIFIED_PMU", "MetricSummaryPersistence">>,
     <<"COMM_STATISTIC", "DeviceHcclPersistence">>, <<"LOW_POWER", "LowPowerPersistence">>,
     <<"UB", "UbPersistence">>, <<"BLOCK_DETAIL", "MetricSummaryPersistence">>}} \cup
  {<<"HOST_PLATFORM", << >>, << >>, Platform>>,
   <<"COMMUNICATION", <<"HASH">>, <<"DeviceHcclPersistence">>, {"GeHashMap"}>>,
   <<"COMPUTE_TASK_INFO", <<"HASH">>, << >>, {"GeHashMap"}>>,
   <<"NPU_OP_MEM", <<"HASH">>, << >>, {"GeHashMap"}>>,
   <<"AICORE_FREQ", << >>, <<"FreqPersistence", "LpmInfoPersistence">>, {}>>,
   <<"AICPU", <<"TASK", "COMPUTE_TASK_INFO">>, <<"AicpuPersistence">>, Compute>>,
   <<"TASK_ASSOCIATION", <<"COMPUTE_TASK_INFO", "TASK">>, << >>, Compute>>,
   <<"OP_STATISTIC", <<"TASK_ASSOCIATION">>, << >>, {"TASK_ASSOCIATION"}>>,
   <<"OVERLAP_ANALYSIS", <<"TASK", "COMPUTE_TASK_INFO", "COMMUNICATION">>, << >>,
     Compute \cup {"CommunicationOp"}>>}
ProcessorDefinitions ==
  [id \in {Data(r[1]) : r \in ProcessorRows} |->
    LET r == CHOOSE r \in ProcessorRows : r[1] = id.name
    IN  [NoNode EXCEPT !.deps = Each(Data, r[2]) \o Each(Dev, r[3]), !.needs = r[4],
                       !.mandatory = r[1] # "NETDEV_STATS"]]

-----------------------------------------------------------------------------
\* The deliverables: name, the processors they depend on, the types they need.
Own(names) == {<<n, <<n>>, {n}>> : n \in names}

\* db_topology_register.cpp
SaverRows ==
  Own({"API", "ACC_PMU", "DDR", "HBM", "HCCS", "NETDEV_STATS", "LLC", "MSTX", "NPU_MEM",
       "NPU_OP_MEM", "NPU_MODULE_MEM", "PCIE", "SOC", "NIC", "ROCE", "DPU", "SIO", "UB",
       "COMPUTE_TASK_INFO", "MEMCPY_INFO", "CPU_USAGE", "CPU_FREQ", "MEM_USAGE",
       "DISK_USAGE", "NETWORK_USAGE", "OSRT_API", "OVERLAP_ANALYSIS", "QOS",
       "CCU_MISSION"}) \cup
  {<<n, << >>, {}>> : n \in {"ENUM", "HOST_INFO", "META_DATA", "NPU_INFO",
                             "SESSION_TIME_INFO"}} \cup
  {<<"COMMUNICATION", <<"COMMUNICATION">>,
     {"CommunicationOp", "CommunicationTask", "KfcOp", "KfcTask"}>>,
   <<"AICORE_FREQ", <<"AICORE_FREQ", "LOW_POWER">>, {"LowPower"}>>,
   <<"HOST_PLATFORM", <<"HOST_PLATFORM">>, Platform>>,
   <<"TASK", <<"TASK", "DEVICE_TX">>, {"TASK", "DEVICE_TX"}>>,
   <<"TASK_PMU_INFO", <<"UNIFIED_PMU">>, {"UnifiedTaskPmu"}>>,
   <<"SAMPLE_PMU_TIMELINE", <<"UNIFIED_PMU">>, {"SampleTimelinePmu"}>>,
   <<"SAMPLE_PMU_SUMMARY", <<"UNIFIED_PMU">>, {"SampleSummaryPmu"}>>}

\* summary_topology_register.cpp
SummaryRows ==
  Own({"COMM_STATISTIC", "OP_STATISTIC", "NPU_MEM", "NPU_MODULE_MEM", "API",
       "PAGE_FAULT"}) \cup
  {<<"OP_SUMMARY", <<"TASK_ASSOCIATION", "COMMUNICATION", "PMU">>,
     {"TASK_ASSOCIATION", "CommunicationOp", "PMU"}>>,
   <<"STEP_TRACE", <<"STEP_TRACE">>, {"TrainTrace"}>>,
   <<"AICPU", <<"AICPU">>, {"AicpuSummary", "AicpuDp", "AicpuMi"}>>,
   <<"FUSION_OP", <<"FUSION_OP", "MODEL_NAME", "HASH">>,
     {"FUSION_OP", "MODEL_NAME", "GeHashMap"}>>,
   <<"TASK_TIME", <<"COMPUTE_TASK_INFO", "HOST_TASK", "TASK">>, Compute \cup {"HOST_TASK"}>>}

\* timeline_topology_register.cpp
TimelineRows ==
  Own({"ACC_PMU", "DDR", "HBM", "HCCS", "OSRT_API", "NETWORK_USAGE", "DISK_USAGE",
       "CPU_USAGE", "NPU_MEM", "PCIE", "SIO", "LLC", "QOS", "BIU_PERF", "UB", "DPU",
       "FUSION_TASK"}) \cup
  {<<n[1], <<n[2]>>, {n[2]}>> : n \in {<<"MEMORY_USAGE", "MEM_USAGE">>,
     <<"CPU_FREQUENCY", "CPU_FREQ">>, <<"MSPROFTX", "MSTX">>, <<"STARS_SOC", "SOC">>,
     <<"OVERLAP_ANALYSE", "OVERLAP_ANALYSIS">>, <<"NIC", "NIC_TIMELINE">>,
     <<"ROCE", "ROCE_TIMELINE">>, <<"CCU", "CCU_MISSION">>}} \cup
  {<<"TASK", <<"TASK", "KFC_TASK", "COMPUTE_TASK_INFO", "API", "MEMCPY_INFO">>,
     Compute \cup {"StreamMap", "API", "MEMCPY_INFO", "KfcTurn"}>>,
   <<"API", <<"API", "TASK">>, {"API", "TASK"}>>,
   <<"STARS_CHIP_TRANS", <<"CHIP_TRAINS", "PCIE">>, {"PaLinkInfo", "PcieInfo", "PcieInfoV6"}>>,
   <<"HCCL", <<"COMMUNICATION", "KFC_TASK">>,
     {"CommunicationTask", "CommunicationOp", "KfcTask", "KfcOp"}>>,
   <<"STEP_TRACE", <<"STEP_TRACE">>, {"TrainTrace", "AllReduce", "GetNext"}>>,
   <<"LOW_POWER", <<"AICORE_FREQ", "LOW_POWER">>, {"LowPower"}>>,
   <<"DEVICE_TX", <<"DEVICE_TX", "MSTX">>, {"DEVICE_TX", "MSTX"}>>,
   <<"BLOCK_DETAIL", <<"BLOCK_DETAIL", "COMPUTE_TASK_INFO", "TASK">>,
     Compute \cup {"BLOCK_DETAIL"}>>}

Deliverables(stage, rows, first) ==
  [id \in {Id3(stage, r[1], "") : r \in rows} |->
    LET r == CHOOSE r \in rows : r[1] = id.name
    IN  [NoNode EXCEPT !.deps = first \o Each(Data, r[2]), !.needs = r[3]]]
SaverDefinitions == Deliverables("DATABASE_PERSISTENCE", SaverRows, << >>)
SummaryDefinitions == Deliverables("SUMMARY_GENERATION", SummaryRows, << >>)
TimelineDefinitions ==
  Deliverables("TIMELINE_EXPORT", TimelineRows, <<Flow("TIMELINE:PRE_DUMP")>>)

\* The nodes around the deliverables (DB:STRING_IDS, PRE_DUMP and POST_DUMP) and
\* those of topo_graph_builder.cpp.
ControlDefinitions ==
  (Flow("DB:STRING_IDS") :> [NoNode EXCEPT !.waits = {"DATABASE_PERSISTENCE"}]) @@
  (Flow("TIMELINE:PRE_DUMP") :> [NoNode EXCEPT !.waits = {"mstx"}, !.needs = {"MSTX"}]) @@
  (Flow("TIMELINE:POST_DUMP") :>
     [NoNode EXCEPT !.deps = <<Flow("TIMELINE:PRE_DUMP")>>, !.waits = {"TIMELINE_EXPORT"}])
LifecycleDefinitions ==
  LET load == <<Flow("Environment.Load")>>
  IN  (load[1] :> [NoNode EXCEPT !.kind = "profile"]) @@
      (Id3("HOST_PROCESSING", "HostC", "") :> [NoNode EXCEPT !.kind = "host", !.deps = load]) @@
      (Dev("Device.Init") :>
         [NoNode EXCEPT !.kind = "device", !.deps = load, !.opens = TRUE])

Registered ==
  LifecycleDefinitions @@ DeviceDefinitions @@ ProcessorDefinitions @@ SaverDefinitions @@
  SummaryDefinitions @@ TimelineDefinitions @@ ControlDefinitions

-----------------------------------------------------------------------------
\* What the code of a process does with the inventory of its scope.

\* The types a device process injects, one each unless named below.
Parsed ==
  ("StarsSocProfileParser" :> "HalSocProfileData") @@ ("StarsSocParser" :> "HalLogData") @@
  ("StarsSocParserV6" :> "HalLogData") @@ ("FftsProfileParser" :> "HalPmuData") @@
  ("NpuMemParser" :> "HalNpuMemData") @@ ("CcuMissionParser" :> "CcuMissionDataSet") @@
  ("CcuChannelParser" :> "CcuChannelDataSet") @@ ("UbParser" :> "HalUbBwData") @@
  ("TsTrackParser" :> "HalTrackData") @@ ("NpuModuleMemParser" :> "HalNpuModuleMemData") @@
  ("QosParser" :> "HalQosBwData") @@ ("FreqParser" :> "HalFreqLpmData") @@
  ("LpmInfoParser" :> "HalLpmInfoData") @@ ("DeviceTaskProcess" :> "DeviceTask") @@
  ("StepTraceProcess" :> "StepTraceTasks") @@ ("LoadStreamExpandSpec" :> "StreamExpandSpec") @@
  ("AscendTaskAssociation" :> "TopDownTask")
HcclInjects == {"DeviceHcclOp", "DeviceHcclTask", "HcclStatistics"}
KfcInjects == {"KfcTaskRecord", "KfcOpRecord", "KfcOpStatistics"}
AicpuInjects == {"DeviceStreamInfo", "AicpuData"}
MasterStreamInjects == {"KfcInfoData", "MasterStreamTaskData"}
HostDataInjects == {"HostStreamInfo", "HostTasks", "HcclOp", "HcclTask", "GeHashMap",
                    "AicpuOpNameMap", "Mc2CommInfo"}
StepTraceInjects == {"TrainTrace", "GetNext", "AllReduce"}

DeviceGives(name) ==
  CASE name = "HcclCalculator" -> HcclInjects
    [] name = "KfcCalculator" -> KfcInjects
    [] name = "AicpuParser" -> AicpuInjects
    [] name = "AicpuPersistence" -> MasterStreamInjects
    [] name = "LoadHostData" -> HostDataInjects
    [] name \in DOMAIN Parsed -> {Parsed[name]}
    [] OTHER -> {}
ProcessorGives(name) ==
  CASE name = "HASH" -> {"GeHashMap", "StreamMap"}
    [] name = "KFC_TASK" -> {"KfcTurn"}
    [] name = "COMMUNICATION" -> {"CommunicationTask", "CommunicationOp"}
    [] name = "STEP_TRACE" -> StepTraceInjects
    [] name = "UNIFIED_PMU" -> {"UnifiedTaskPmu", "SampleTimelinePmu", "SampleSummaryPmu"}
    [] name = "CHIP_TRAINS" -> {"PaLinkInfo", "PcieInfo", "PcieInfoV6"}
    [] name \in {"AICORE_FREQ", "LOW_POWER"} -> {"LowPower"}
    [] name = "AICPU" -> {"AicpuSummary", "AicpuDp", "AicpuMi"}
    [] name = "HOST_PLATFORM" -> Platform
    [] OTHER -> {name}
Gives(id) ==
  CASE id.stage = "DEVICE_PROCESSING" -> DeviceGives(id.name)
    [] id.stage = "DATA_PROCESSING" -> ProcessorGives(id.name)
    [] OTHER -> {}

\* The types it takes: those it declares, but for its own products and those its
\* code does not ask for (PreDumpJson ignores the inventory), or only on V4_1_0
\* (metric_calculator.cpp); and one that the step trace summary does not declare.
NotTaken(id, chip) ==
  CASE id = Dev("MetricSummaryPersistence") -> {"HostStreamInfo"}
    [] id = Dev("PmuAssociation") -> IF chip = V410 THEN {} ELSE {"HalFreqLpmData"}
    [] id = Flow("TIMELINE:PRE_DUMP") -> {"MSTX"}
    [] OTHER -> Gives(id)
StepTraceTakes == {"TrainTrace", "AllReduce"}
Takes(id, needs, chip) ==
  IF id = Id3("SUMMARY_GENERATION", "STEP_TRACE", "") THEN StepTraceTakes
  ELSE needs \ NotTaken(id, chip)

\* The types whose elements it changes in place.
Edits(id) ==
  CASE id \in {Dev("LogModeling"), Dev("LogModelingV6"), Dev("AscendTaskAssociation")} -> {"DeviceTask"}
    [] id = Dev("PmuAssociation") -> {"DeviceTask", "HalPmuData"}
    [] id = Dev("PmuModeling") -> {"HalPmuData"}
    [] id = Dev("HcclCalculator") -> {"TopDownTask", "HcclTask"}
    [] OTHER -> {}
=============================================================================
