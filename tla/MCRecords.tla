------------------------------ MODULE MCRecords ------------------------------
(* Instances of Records for TLC: a seeded family whose first weights come in  *)
(* while two repositories of one publisher offer quantized files of them, and *)
(* a sheet with a device that is new, one of the catalog, and faulty rows.    *)
EXTENDS Records, MCPromotion

CONSTANTS quantRepo, otherQuantRepo, baz, vendor

Files(base, files) == [base |-> base, owner |-> baz, files |-> files]

MCSetPayloads ==
    [i \in SetRepos |->
       IF i = quantRepo
       THEN {Files(baseRepo, [q4 |-> 9, q5 |-> 5])}
       ELSE {Files(baseRepo, [q4 |-> 4, q5 |-> 5]), Files(baseRepo, <<>>)}]
MCSetLists == [s \in Sources |-> IF s = hub THEN {quantRepo} ELSE {otherQuantRepo}]
MCPlausible == [c \in Schemes |-> IF c = "q4" THEN {4} ELSE {5}]

Row(device, name, kind, memory) ==
    [device |-> device, name |-> name, vendor |-> vendor, kind |-> kind, memory |-> memory]
MCRows ==
    {Row("gpu", "GPU", "dedicated", 24), Row("gpu", "GPU", Unstated, 16), Row("soc", "SoC", Unstated, 64),
     Row("npu", "NPU", "dedicated", Unstated)}
MCSeedDevices == {[name |-> "SoC", kind |-> "unified", memory |-> Unstated]}
MCPriority == [s \in Sources |-> IF s = hub THEN 60 ELSE 40]
MCRecordLists == [s \in Sources |-> IF s = hub THEN Repos ELSE Repos \cap {baseRepo}]
=============================================================================
