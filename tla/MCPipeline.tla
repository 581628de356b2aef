----------------------------- MODULE MCPipeline -----------------------------
(***************************************************************************)
(* Instances of Pipeline.tla for TLC.                                      *)
(***************************************************************************)
EXTENDS Pipeline

CONSTANTS r1, r2, r3

MCIdent == {"orders", "ORDERS", "sales", "region", "SELECT", "DELETE", "delete",
            "SHOW"}

MCLower == [i \in MCIdent |-> CASE i = "ORDERS" -> "orders"
                                [] i = "delete" -> "DELETE"
                                [] OTHER -> i]

NoLimit == [catalog |-> "", schema |-> "", table |-> "", maxScanBytes |-> 0,
            maxRows |-> 0, maxScanBytesPerQuery |-> 0, maxCPUCostPerQuery |-> 0]

(* The first policy: cost limits, a blocked verb, full auditing. *)
CostPolicy ==
    [port |-> 8080, upstream |-> "http://u1", preflightTimeout |-> 2,
     maxConcurrent |-> 1, certFile |-> "", keyFile |-> "",
     tableBlocklist |-> {}, requiredFilters |-> {},
     costLimits |-> {[NoLimit EXCEPT !.maxScanBytesPerQuery = 10],
                     [NoLimit EXCEPT !.schema = "sales", !.table = "orders",
                                     !.maxRows = 5]},
     statementBlocklist |-> {"delete"}, functionBlocklist |-> {},
     selectStarBlockedTables |-> {}, telemetryEnabled |-> TRUE,
     logRejections |-> TRUE, snapshotPlan |-> TRUE]

(* Static rules only, on another upstream, without audit or telemetry. *)
StaticPolicy ==
    [CostPolicy EXCEPT !.upstream = "http://u2", !.costLimits = {},
        !.statementBlocklist = {}, !.telemetryEnabled = FALSE,
        !.logRejections = FALSE,
        !.requiredFilters = {[catalog |-> "", schema |-> "sales",
                              table |-> "orders", mode |-> "",
                              columns |-> {"region"}]}]

(* Looser limits and an upstream URL without a host. *)
HostlessPolicy ==
    [CostPolicy EXCEPT !.upstream = "u3", !.snapshotPlan = FALSE,
        !.statementBlocklist = {}, !.tableBlocklist = {<<"orders">>},
        !.costLimits = {[NoLimit EXCEPT !.maxScanBytesPerQuery = 100]}]

(* The first policy, but its audit lines carry no plan. *)
NoSnapshots == [CostPolicy EXCEPT !.snapshotPlan = FALSE]

OnePolicy == {CostPolicy}
FourPolicies == {CostPolicy, NoSnapshots, StaticPolicy, HostlessPolicy}

MCDialable == {"http://u1", "http://u2"}

(* SELECT ... FROM sales.ORDERS, three bytes of it. *)
Select == [class |-> "SELECT", parses |-> TRUE, scanned |-> {<<"sales", "ORDERS">>},
           ctes |-> {}, refs |-> {}, aliases |-> <<>>, functions |-> {},
           selectAll |-> FALSE, len |-> 3, broken |-> 3, blank |-> FALSE]
Filtered == [Select EXCEPT !.refs = {[table |-> "", column |-> "region"]}]
Unparsed == [Filtered EXCEPT !.parses = FALSE]
Delete == [Filtered EXCEPT !.class = "DELETE"]
CutDelete == [Delete EXCEPT !.broken = 2]
Show == [Select EXCEPT !.class = "SHOW"]
Blank == [Select EXCEPT !.blank = TRUE]
Huge == [Select EXCEPT !.len = 5, !.broken = 5]
CutHuge == [Huge EXCEPT !.broken = 4]

AllStatements == {Select, Filtered, Unparsed, Delete, CutDelete, Show, Blank,
                  Huge, CutHuge}
ReadAndBypass == {Select, Show}

Cheap == [scanBytes |-> 10, cpuCost |-> 0,
          scans |-> {[table |-> <<"hive", "sales", "orders">>,
                      scanBytes |-> 10, rows |-> 5]}]
Costly == [Cheap EXCEPT !.scanBytes = 11]
Aggregate == [Cheap EXCEPT !.scans = {}]
ManyRows == [scanBytes |-> 0, cpuCost |-> 0,
             scans |-> {[table |-> <<"hive", "sales", "orders">>,
                         scanBytes |-> 0, rows |-> 6]}]

(* A plan whose byte estimates wrapped round int64 to a negative sum. *)
Wrapped == [ManyRows EXCEPT !.scanBytes = -3]

AllPlans == {Cheap, Costly, Aggregate, ManyRows, Wrapped}
ThreePlans == {Cheap, Costly, Wrapped}
=============================================================================
