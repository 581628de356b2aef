----------------------------- MODULE PlanParse ------------------------------
(***************************************************************************)
(* The estimates that internal/engine/trino.go reads from the data cells   *)
(* of an EXPLAIN (TYPE IO, FORMAT JSON).  A cell is a JSON document:       *)
(*   kind "io"       Trino's I/O plan: per-table infos and a CPU cost;     *)
(*   kind "nan"      one with an estimate that is not a number ("NaN" for  *)
(*                   a table without statistics): json.Unmarshal refuses   *)
(*                   it, whatever the other estimates are;                 *)
(*   kind "tree"     an operator tree, its nodes in the order of the walk, *)
(*                   rooted if it hangs under a queryPlan key or is made   *)
(*                   of arrays; a bare object is not walked;               *)
(*   kind "invalid"  no JSON.                                              *)
(* Estimates are of any size and, where JSON gives a number, need not be   *)
(* whole: f.whole is the integral part of f, f.frac counts the parts of a  *)
(* unit beyond it.  The code's integers are whole and of one width.        *)
(***************************************************************************)
EXTENDS Integers, SequencesExt

CONSTANT MaxInt   \* the largest int64

ASSUME MaxIntAssumption == MaxInt \in Nat \ {0}

MinInt == -MaxInt - 1

(* The result of an addition of int64 values. *)
wrap(n) == ((n - MinInt) % (2 * MaxInt + 2)) + MinInt

(* int64(f) for a float64 f drops the fraction.  Out of range the result   *)
(* is the processor's: the least integer (amd64) or the nearest one        *)
(* (arm64).                                                                *)
OutOfRange == {MinInt, MaxInt}

toInt64(f, beyond) == IF f.whole \in MinInt .. MaxInt THEN f.whole ELSE beyond

(* strconv.ParseInt on the digits of a details string; an error counts 0. *)
parsedInt(n) == IF n <= MaxInt THEN n ELSE 0

qualifiedTable(info) ==
    SelectSeq(<<info.catalog, info.schema, info.table>>, LAMBDA c : c # "")

(* planAggregate; scans is a function from table names to estimates. *)
NoEstimates == [scanBytes |-> 0, rows |-> 0, cpuCost |-> 0, scans |-> <<>>]

(* Mutant: the last estimate of a table replaces the earlier ones. *)
scanOf_Last(agg, table) == [scanBytes |-> 0, rows |-> 0]

scanOf(agg, table) ==
    IF table \in DOMAIN agg.scans THEN agg.scans[table]
    ELSE [scanBytes |-> 0, rows |-> 0]

addTotals(agg, bytes, rows) ==
    [agg EXCEPT !.scanBytes = wrap(@ + bytes), !.rows = wrap(@ + rows)]

addScan(agg, table, bytes, rows) ==
    LET ts == scanOf(agg, table)
    IN  [agg EXCEPT !.scans =
            [t \in DOMAIN agg.scans \union {table} |->
               IF t = table THEN [scanBytes |-> wrap(ts.scanBytes + bytes),
                                  rows |-> wrap(ts.rows + rows)]
               ELSE agg.scans[t]]]

addInfo(agg, info, beyond) ==
    LET bytes == toInt64(info.bytes, beyond)
        rows  == toInt64(info.rows, beyond)
    IN  addScan(addTotals(agg, bytes, rows), qualifiedTable(info), bytes, rows)

(* walkValue on one object: numeric keys and the details string add up, on *)
(* every node; a TableScan whose details name a table is a scan as well.   *)
walkNode(agg, node, beyond) ==
    LET bytes  == wrap(toInt64(node.keyBytes, beyond) + parsedInt(node.detailBytes))
        rows   == wrap(toInt64(node.keyRows, beyond) + parsedInt(node.detailRows))
        totals == addTotals(agg, bytes, rows)
    IN  IF node.scan /\ node.table # <<>>
        THEN addScan(totals, node.table, bytes, rows) ELSE totals

(* The loop over the table infos, and the walk over the nodes in order. *)
addInfos(agg, infos, beyond) ==
    LET after[i \in 0 .. Len(infos)] ==
            IF i = 0 THEN agg ELSE addInfo(after[i - 1], infos[i], beyond)
    IN  after[Len(infos)]

walkNodes(agg, nodes, beyond) ==
    LET after[i \in 0 .. Len(nodes)] ==
            IF i = 0 THEN agg ELSE walkNode(after[i - 1], nodes[i], beyond)
    IN  after[Len(nodes)]

parsePlanDoc(doc, agg, beyond) ==
    CASE doc.kind = "io" /\ doc.infos # <<>> ->
             addInfos([agg EXCEPT !.cpuCost = @ + doc.cpuCost], doc.infos, beyond)
      [] doc.kind = "tree" /\ doc.rooted -> walkNodes(agg, doc.nodes, beyond)
      [] OTHER -> agg

invalid(cells) == \E i \in DOMAIN cells : cells[i].kind = "invalid"

aggregate(cells, beyond) ==
    LET after[i \in 0 .. Len(cells)] ==
            IF i = 0 THEN NoEstimates ELSE parsePlanDoc(cells[i], after[i - 1], beyond)
    IN  after[Len(cells)]

(* The plan in the form that CostLimits takes; for cells that are JSON. *)
parsePlanCells(cells, beyond) ==
    LET agg == aggregate(cells, beyond)
    IN  [scanBytes |-> agg.scanBytes, cpuCost |-> agg.cpuCost,
         scans |-> {[table |-> t, scanBytes |-> agg.scans[t].scanBytes,
                     rows |-> agg.scans[t].rows] : t \in DOMAIN agg.scans}]

(* What Evaluate gets from the cells: an error, if one of them is no JSON, *)
(* or a plan.                                                              *)
Pending == [kind |-> "pending"]
Failed == [kind |-> "failed"]
Planned(plan) == [kind |-> "plan", plan |-> plan]

plansOf(cells) ==
    IF invalid(cells) THEN {}
    ELSE {Planned(parsePlanCells(cells, beyond)) : beyond \in OutOfRange}
=============================================================================
