----------------------------- MODULE CostLimits -----------------------------
(***************************************************************************)
(* The cost limits of Tier 2 (internal/engine/trino.go, evaluateLimits).   *)
(* A plan is what parsePlanCells extracts from EXPLAIN's output: totals    *)
(* scanBytes and cpuCost (0 when the plan has none) and a set scans        *)
(* of per-table estimates [table, scanBytes, rows].                        *)
(***************************************************************************)
EXTENDS Integers, Sequences

tableScoped(lim) == lim.catalog # "" \/ lim.schema # "" \/ lim.table # ""

(* Rightmost components, compared exactly: no case folding here. *)
tableMatches(scanTable, lim) ==
    LET n == Len(scanTable)
    IN  /\ lim.table # "" => scanTable[n] = lim.table
        /\ lim.schema # "" => n >= 2 /\ scanTable[n - 1] = lim.schema
        /\ lim.catalog # "" => n >= 3 /\ scanTable[n - 2] = lim.catalog

(* A limit of 0 is disabled. *)
exceeds(estimate, limit) == limit > 0 /\ estimate > limit

breaches(plan, lim) ==
    \/ exceeds(plan.scanBytes, lim.maxScanBytesPerQuery)
    \/ exceeds(plan.cpuCost, lim.maxCPUCostPerQuery)
    \/ /\ tableScoped(lim)
       /\ \E s \in plan.scans :
             /\ tableMatches(s.table, lim)
             /\ \/ exceeds(s.scanBytes, lim.maxScanBytes)
                \/ exceeds(s.rows, lim.maxRows)

evaluateLimits(p, plan) == \A lim \in p.costLimits : ~breaches(plan, lim)

(* The condition under which evaluateLimits counts an evaluation in        *)
(* preflight_no_table_estimates_total.                                     *)
noTableEstimates(p, plan) ==
    plan.scans = {} /\ \E lim \in p.costLimits : tableScoped(lim)
=============================================================================
