------------------------------ MODULE Verdict -------------------------------
(***************************************************************************)
(* The verdict that Tier 2 reaches on a pre-flight's result (CostLimits),  *)
(* against the one that the coordinator's own estimates call for.  The     *)
(* estimates are added up here as they are, without documents, pages, maps *)
(* or an integer width, and with their fractions: a sum is the size of the *)
(* set of its units, and that of its parts of a unit.                      *)
(***************************************************************************)
EXTENDS Preflight, CostLimits

CONSTANTS CostPolicies,  \* policies; only their costLimits are looked at
          Unit           \* parts of a byte or row that fractions are measured in

ASSUME UnitAssumption == Unit \in Nat \ {0}

Float == [whole : Nat, frac : 0 .. Unit - 1]

TableInfo == [catalog : STRING, schema : STRING, table : STRING, bytes : Float, rows : Float]

(* The numbers in a details string have no fraction. *)
PlanNode == [scan : BOOLEAN, table : Seq(STRING), keyBytes : Float, keyRows : Float,
             detailBytes : Nat, detailRows : Nat]

isDocument(doc) ==
    \/ doc.kind \in {"io", "nan"} /\ doc.infos \in Seq(TableInfo) /\ doc.cpuCost \in Nat
    \/ doc.kind = "tree" /\ doc.rooted \in BOOLEAN /\ doc.nodes \in Seq(PlanNode)
    \/ doc.kind = "invalid"

isLimit(lim) ==
    /\ lim.maxScanBytes \in Nat /\ lim.maxRows \in Nat
    /\ lim.maxScanBytesPerQuery \in Nat /\ lim.maxCPUCostPerQuery \in Nat

ASSUME VerdictAssumption ==
    /\ \A doc \in Cells : isDocument(doc)
    /\ \A p \in CostPolicies : \A lim \in p.costLimits : isLimit(lim)

-----------------------------------------------------------------------------
(* The estimates of a document, one for each of its table infos or nodes.  *)

size(doc) == CASE doc.kind \in {"io", "nan"} -> Len(doc.infos)
               [] doc.kind = "tree" -> Len(doc.nodes)
               [] OTHER -> 0

(* The i-th estimate of document d: scan tells whether it is one for a     *)
(* table, or only for an operator above it; whole bytes and rows, and the  *)
(* parts of one beyond them.                                               *)
infoEstimate(d, i, info) ==
    [doc |-> d, at |-> i, scan |-> TRUE, table |-> qualifiedTable(info),
     bytes |-> info.bytes.whole, rows |-> info.rows.whole,
     byteParts |-> info.bytes.frac, rowParts |-> info.rows.frac]

nodeEstimate(d, i, node) ==
    [doc |-> d, at |-> i, scan |-> node.scan /\ node.table # <<>>, table |-> node.table,
     bytes |-> node.keyBytes.whole + node.detailBytes,
     rows |-> node.keyRows.whole + node.detailRows,
     byteParts |-> node.keyBytes.frac, rowParts |-> node.keyRows.frac]

estimate(docs, d, i) ==
    IF docs[d].kind = "tree" THEN nodeEstimate(d, i, docs[d].nodes[i])
    ELSE infoEstimate(d, i, docs[d].infos[i])

(* The estimates of the documents of D. *)
estimatesOf(docs, D) ==
    UNION {{estimate(docs, d, i) : i \in 1 .. size(docs[d])} : d \in D}

(* Sums, as sizes: every whole byte and row that is estimated is a pair,   *)
(* and so is every part of one.                                            *)
byteUnits(E) == UNION {{e} \X (1 .. e.bytes) : e \in E}

rowUnits(E) == UNION {{e} \X (1 .. e.rows) : e \in E}

partUnits(E, parts) == UNION {{e} \X (1 .. e[parts]) : e \in E}

cpuUnits(docs, D) == UNION {{d} \X (1 .. docs[d].cpuCost) : d \in D}

bytesOf(E) == Cardinality(byteUnits(E))

rowsOf(E) == Cardinality(rowUnits(E))

partsOf(E, parts) == Cardinality(partUnits(E, parts))

(* The least whole number that is not below a number of parts. *)
roundedUp(parts) == Min({n \in 0 .. parts : n * Unit >= parts})

(* The exact sums, rounded up: limits are whole numbers, and a sum exceeds *)
(* one exactly when the sum rounded up does.                               *)
exactBytesOf(E) == bytesOf(E) + roundedUp(partsOf(E, "byteParts"))

exactRowsOf(E) == rowsOf(E) + roundedUp(partsOf(E, "rowParts"))

scannedTables(E) == {e.table : e \in {x \in E : x.scan}}

scansOf(E, t) == {e \in E : e.scan /\ e.table = t}

(* The plan that estimates E and a CPU cost amount to. *)
exactPlanOf(E, cpu) ==
    [scanBytes |-> exactBytesOf(E), cpuCost |-> cpu,
     scans |-> {[table |-> t, scanBytes |-> exactBytesOf(scansOf(E, t)),
                 rows |-> exactRowsOf(scansOf(E, t))] : t \in scannedTables(E)}]

withCost(docs) == {d \in DOMAIN docs : docs[d].kind \in {"io", "nan"}}

reportedPlan(docs) ==
    exactPlanOf(estimatesOf(docs, DOMAIN docs), Cardinality(cpuUnits(docs, withCost(docs))))

-----------------------------------------------------------------------------
(* Nothing is lost in the reading of such a document: no I/O plan with a   *)
(* NaN in it, no bare operator tree, no CPU cost without a table.          *)
readable(doc) ==
    \/ doc.kind = "io" /\ (doc.infos # <<>> \/ doc.cpuCost = 0)
    \/ doc.kind = "tree" /\ doc.rooted

(* The sums of the whole parts of all the estimates are int64 values. *)
fits(docs) ==
    LET all == estimatesOf(docs, DOMAIN docs)
    IN  bytesOf(all) <= MaxInt /\ rowsOf(all) <= MaxInt

(* The estimates of docs that are no whole number. *)
fractional(E) == {e \in E : e.byteParts # 0 \/ e.rowParts # 0}

(* The limits on bytes and rows of policy p, each n larger. *)
raised(limit, n) == IF limit = 0 THEN 0 ELSE limit + n

lenient(p, n) ==
    [costLimits |->
        {[catalog |-> lim.catalog, schema |-> lim.schema, table |-> lim.table,
          maxScanBytes |-> raised(lim.maxScanBytes, n), maxRows |-> raised(lim.maxRows, n),
          maxScanBytesPerQuery |-> raised(lim.maxScanBytesPerQuery, n),
          maxCPUCostPerQuery |-> lim.maxCPUCostPerQuery] : lim \in p.costLimits}]

(* As long as the sums are int64 values, Tier 2 never rejects what the     *)
(* coordinator's estimates, fractions included, allow, however they were   *)
(* spread over documents and pages.  When the code can read every document *)
(* it never allows more than limits that are larger by one byte and row    *)
(* for each estimate whose fraction it drops: with whole estimates, its    *)
(* verdict is exact.                                                       *)
VerdictExact ==
    result.kind = "plan" /\ fits(reported) =>
        LET exact   == reportedPlan(reported)
            dropped == Cardinality(fractional(estimatesOf(reported, DOMAIN reported)))
        IN  \A p \in CostPolicies :
               /\ evaluateLimits(p, exact) => evaluateLimits(p, result.plan)
               /\ (\A d \in DOMAIN reported : readable(reported[d])) =>
                     (evaluateLimits(p, result.plan) =>
                         evaluateLimits(lenient(p, dropped), exact))
=============================================================================
