---------------------------- MODULE VerdictProofs ----------------------------
(***************************************************************************)
(* Proofs about Verdict.tla: for every sequence of documents and every     *)
(* cost policy, the verdict of Tier 2 is that of the estimates reported,   *)
(* as far as they are whole.                                               *)
(* The loops of the code are recursive functions; what they compute is     *)
(* proved by induction, in the form of a lemma about sets of numbers.      *)
(***************************************************************************)
EXTENDS Verdict, PreflightProofs, FiniteSetTheorems, WellFoundedInduction

-----------------------------------------------------------------------------
(* Induction.                                                              *)

(* A non-empty set of natural numbers has a least element. *)
LEMMA LeastNat ==
    ASSUME NEW T \in SUBSET Nat, T # {}
    PROVE  \E x \in T : \A y \in T : x <= y
<1>1. IsWellFoundedOn(OpToRel(<, Nat), Nat)
  BY NatLessThanWellFounded
<1>2. PICK x \in T : \A y \in T : ~(<<y, x>> \in OpToRel(<, Nat))
  BY <1>1, WFMin
<1>3. \A y \in T : ~(y < x)
  BY <1>2 DEF OpToRel
<1>4. x \in Nat /\ \A y \in T : y \in Nat
  BY <1>2
<1>5. \A y \in T : x <= y
  BY <1>3, <1>4
<1>6. QED BY <1>5

(* A set that holds 0 and the successor of each of its numbers holds them  *)
(* all.                                                                    *)
LEMMA NatSetInduction ==
    ASSUME NEW S, 0 \in S, \A n \in Nat : n \in S => n + 1 \in S
    PROVE  Nat \subseteq S
<1> SUFFICES ASSUME Nat \ S # {} PROVE FALSE
  OBVIOUS
<1>1. PICK x \in Nat \ S : \A y \in Nat \ S : x <= y
  BY LeastNat
<1>2. x # 0 /\ x - 1 \in Nat
  BY <1>1
<1>3. x - 1 \in S
  BY <1>1, <1>2
<1>4. QED BY <1>1, <1>2, <1>3

-----------------------------------------------------------------------------
(* Sums as sizes of sets.                                                  *)

(* The image of a finite set under a function is finite. *)
LEMMA FiniteImage ==
    ASSUME NEW S, IsFiniteSet(S), NEW f, f = [x \in S |-> f[x]]
    PROVE  IsFiniteSet({f[x] : x \in S})
<1> DEFINE T == {f[x] : x \in S}
<1>1. f \in Surjection(S, T)
  BY DEF Surjection
<1>2. QED BY <1>1, FS_Surjection

(* n new units of x add n to the size of a finite set. *)
LEMMA UnitsAdded ==
    ASSUME NEW U, IsFiniteSet(U), NEW x, \A u \in U : u[1] # x, NEW n \in Nat
    PROVE  /\ IsFiniteSet(U \union ({x} \X (1 .. n)))
           /\ Cardinality(U \union ({x} \X (1 .. n))) = Cardinality(U) + n
<1> DEFINE new == {x} \X (1 .. n)
<1>1. IsFiniteSet(1 .. n) /\ Cardinality(1 .. n) = n
  BY FS_Interval
<1>2. IsFiniteSet({x}) /\ Cardinality({x}) = 1
  BY FS_Singleton
<1>3. IsFiniteSet(new) /\ Cardinality(new) = Cardinality({x}) * Cardinality(1 .. n)
  BY <1>1, <1>2, FS_Product
<1>4. Cardinality(new) = n
  BY <1>1, <1>2, <1>3
<1>5. U \intersect new = {}
  <2>1. \A v \in new : v[1] = x
    OBVIOUS
  <2>2. QED BY <2>1
<1> HIDE DEF new
<1>6. /\ IsFiniteSet(U \union new)
      /\ Cardinality(U \union new)
            = Cardinality(U) + Cardinality(new) - Cardinality(U \intersect new)
  BY <1>3, FS_Union
<1>7. Cardinality(U) \in Nat /\ Cardinality(U \intersect new) = 0
  BY <1>5, FS_CardinalityType, FS_EmptySet
<1>8. QED BY <1>4, <1>6, <1>7 DEF new

isEstimate(e) ==
    /\ e.bytes \in Nat /\ e.rows \in Nat
    /\ e.byteParts \in 0 .. Unit - 1 /\ e.rowParts \in 0 .. Unit - 1

Estimates(E) == IsFiniteSet(E) /\ \A e \in E : isEstimate(e)

(* The units of finitely many estimates are finitely many. *)
LEMMA UnitsFinite ==
    ASSUME NEW E, Estimates(E)
    PROVE  /\ IsFiniteSet(byteUnits(E)) /\ IsFiniteSet(rowUnits(E))
           /\ bytesOf(E) \in Nat /\ rowsOf(E) \in Nat
<1>1. IsFiniteSet(byteUnits(E))
  <2> DEFINE f == [e \in E |-> {e} \X (1 .. e.bytes)]
             T == {f[e] : e \in E}
  <2>1. IsFiniteSet(T)
    <3>1. f = [e \in E |-> f[e]]
      OBVIOUS
    <3> HIDE DEF f
    <3>2. QED BY <3>1, FiniteImage DEF Estimates
  <2>2. ASSUME NEW e \in E PROVE IsFiniteSet({e} \X (1 .. e.bytes))
    <3>1. e.bytes \in Int
      BY DEF Estimates, isEstimate
    <3>2. IsFiniteSet(1 .. e.bytes)
      BY <3>1, FS_Interval
    <3>3. IsFiniteSet({e})
      BY FS_Singleton
    <3>4. QED BY <3>2, <3>3, FS_Product
  <2>3. \A t \in T : IsFiniteSet(t)
    BY <2>2
  <2>4. byteUnits(E) = UNION T
    BY DEF byteUnits
  <2> HIDE DEF T
  <2>5. QED BY <2>1, <2>3, <2>4, FS_UNION
<1>2. IsFiniteSet(rowUnits(E))
  <2> DEFINE f == [e \in E |-> {e} \X (1 .. e.rows)]
             T == {f[e] : e \in E}
  <2>1. IsFiniteSet(T)
    <3>1. f = [e \in E |-> f[e]]
      OBVIOUS
    <3> HIDE DEF f
    <3>2. QED BY <3>1, FiniteImage DEF Estimates
  <2>2. ASSUME NEW e \in E PROVE IsFiniteSet({e} \X (1 .. e.rows))
    <3>1. e.rows \in Int
      BY DEF Estimates, isEstimate
    <3>2. IsFiniteSet(1 .. e.rows)
      BY <3>1, FS_Interval
    <3>3. IsFiniteSet({e})
      BY FS_Singleton
    <3>4. QED BY <3>2, <3>3, FS_Product
  <2>3. \A t \in T : IsFiniteSet(t)
    BY <2>2
  <2>4. rowUnits(E) = UNION T
    BY DEF rowUnits
  <2> HIDE DEF T
  <2>5. QED BY <2>1, <2>3, <2>4, FS_UNION
<1>3. QED BY <1>1, <1>2, FS_CardinalityType DEF bytesOf, rowsOf

(* Fewer estimates, smaller sums. *)
LEMMA SumsMonotone ==
    ASSUME NEW E, Estimates(E), NEW F, F \subseteq E
    PROVE  Estimates(F) /\ bytesOf(F) <= bytesOf(E) /\ rowsOf(F) <= rowsOf(E)
<1>1. Estimates(F)
  BY FS_Subset DEF Estimates
<1>2. byteUnits(F) \subseteq byteUnits(E) /\ rowUnits(F) \subseteq rowUnits(E)
  BY DEF byteUnits, rowUnits
<1>3. QED BY <1>1, <1>2, UnitsFinite, FS_Subset DEF bytesOf, rowsOf

(* One estimate more adds its bytes and its rows. *)
LEMMA SumsAdd ==
    ASSUME NEW E, Estimates(E), NEW e, isEstimate(e), e \notin E
    PROVE  /\ Estimates(E \union {e})
           /\ bytesOf(E \union {e}) = bytesOf(E) + e.bytes
           /\ rowsOf(E \union {e}) = rowsOf(E) + e.rows
<1>1. Estimates(E \union {e})
  BY FS_AddElement DEF Estimates
<1>2. bytesOf(E \union {e}) = bytesOf(E) + e.bytes
  <2>1. byteUnits(E \union {e}) = byteUnits(E) \union ({e} \X (1 .. e.bytes))
    BY DEF byteUnits
  <2>2. \A u \in byteUnits(E) : u[1] # e
    BY DEF byteUnits
  <2>3. IsFiniteSet(byteUnits(E)) /\ e.bytes \in Nat
    BY UnitsFinite DEF isEstimate
  <2>4. Cardinality(byteUnits(E) \union ({e} \X (1 .. e.bytes))) = Cardinality(byteUnits(E)) + e.bytes
    BY <2>2, <2>3, UnitsAdded
  <2>5. QED BY <2>1, <2>4 DEF bytesOf
<1>3. rowsOf(E \union {e}) = rowsOf(E) + e.rows
  <2>1. rowUnits(E \union {e}) = rowUnits(E) \union ({e} \X (1 .. e.rows))
    BY DEF rowUnits
  <2>2. \A u \in rowUnits(E) : u[1] # e
    BY DEF rowUnits
  <2>3. IsFiniteSet(rowUnits(E)) /\ e.rows \in Nat
    BY UnitsFinite DEF isEstimate
  <2>4. Cardinality(rowUnits(E) \union ({e} \X (1 .. e.rows))) = Cardinality(rowUnits(E)) + e.rows
    BY <2>2, <2>3, UnitsAdded
  <2>5. QED BY <2>1, <2>4 DEF rowsOf
<1>4. QED BY <1>1, <1>2, <1>3

-----------------------------------------------------------------------------
(* An aggregate that holds exact sums, and one step of the loops.          *)

(* Whole sums that are int64 values are not changed by the width. *)
LEMMA WrapFits == \A n \in 0 .. MaxInt : wrap(n) = n
<1> SUFFICES ASSUME NEW n \in 0 .. MaxInt PROVE wrap(n) = n
  OBVIOUS
<1>1. MaxInt \in Nat /\ MaxInt > 0
  BY MaxIntAssumption
<1> DEFINE a == n + MaxInt + 1
           b == 2 * MaxInt + 2
<1>2. a \in Nat /\ b \in Nat /\ a < b
  BY <1>1
<1>3. a % b = a
  <2> HIDE DEF a, b
  <2> QED BY <1>2
<1>4. n - MinInt = a /\ MinInt = -MaxInt - 1
  BY <1>1 DEF MinInt
<1>5. QED BY <1>1, <1>3, <1>4 DEF wrap

LEMMA Int64Fits ==
    ASSUME NEW n \in 0 .. MaxInt, NEW beyond
    PROVE  /\ \A f : f.whole = n => toInt64(f, beyond) = n
           /\ parsedInt(n) = n
BY MaxIntAssumption DEF toInt64, parsedInt, MinInt

(* The aggregate that holds exactly the sums of E. *)
exactScans(E) ==
    [t \in scannedTables(E) |-> [scanBytes |-> bytesOf(scansOf(E, t)),
                                 rows |-> rowsOf(scansOf(E, t))]]

Exact(E, cpu) ==
    [scanBytes |-> bytesOf(E), rows |-> rowsOf(E), cpuCost |-> cpu, scans |-> exactScans(E)]

SumsFit(E) == bytesOf(E) <= MaxInt /\ rowsOf(E) <= MaxInt

(* Nothing has been read yet. *)
LEMMA ExactNothing == NoEstimates = Exact({}, 0)
<1>1. byteUnits({}) = {} /\ rowUnits({}) = {} /\ scannedTables({}) = {}
  BY DEF byteUnits, rowUnits, scannedTables
<1>2. bytesOf({}) = 0 /\ rowsOf({}) = 0
  BY <1>1, FS_EmptySet DEF bytesOf, rowsOf
<1>3. <<>> = [t \in scannedTables({}) |-> [scanBytes |-> bytesOf(scansOf({}, t)),
                                           rows |-> rowsOf(scansOf({}, t))]]
  BY <1>1
<1>4. QED BY <1>2, <1>3 DEF NoEstimates, Exact, exactScans

(* An estimate added to the totals keeps them exact. *)
LEMMA TotalsExact ==
    ASSUME NEW E, Estimates(E), NEW cpu, NEW e, isEstimate(e), e \notin E,
           SumsFit(E \union {e})
    PROVE  /\ addTotals(Exact(E, cpu), e.bytes, e.rows)
                 = [scanBytes |-> bytesOf(E \union {e}), rows |-> rowsOf(E \union {e}),
                    cpuCost |-> cpu, scans |-> exactScans(E)]
           /\ e.bytes \in 0 .. MaxInt /\ e.rows \in 0 .. MaxInt
<1> DEFINE b == bytesOf(E \union {e})
           r == rowsOf(E \union {e})
<1>1. b = bytesOf(E) + e.bytes /\ r = rowsOf(E) + e.rows
  BY SumsAdd
<1>2. /\ bytesOf(E) \in Nat /\ rowsOf(E) \in Nat /\ e.bytes \in Nat /\ e.rows \in Nat
      /\ MaxInt \in Nat
  BY UnitsFinite, MaxIntAssumption DEF isEstimate
<1>3. b \in 0 .. MaxInt /\ r \in 0 .. MaxInt
  BY <1>1, <1>2 DEF SumsFit
<1>4. wrap(bytesOf(E) + e.bytes) = b /\ wrap(rowsOf(E) + e.rows) = r
  BY <1>1, <1>3, WrapFits
<1>5. e.bytes \in 0 .. MaxInt /\ e.rows \in 0 .. MaxInt
  BY <1>1, <1>2, <1>3
<1>6. Exact(E, cpu).scanBytes = bytesOf(E) /\ Exact(E, cpu).rows = rowsOf(E)
  BY DEF Exact
<1>7. addTotals(Exact(E, cpu), e.bytes, e.rows)
        = [Exact(E, cpu) EXCEPT !.scanBytes = b, !.rows = r]
  BY <1>4, <1>6 DEF addTotals
<1>8. addTotals(Exact(E, cpu), e.bytes, e.rows)
        = [scanBytes |-> b, rows |-> r, cpuCost |-> cpu, scans |-> exactScans(E)]
  BY <1>7 DEF Exact
<1>9. QED BY <1>5, <1>8

(* An estimate that is not one of a table leaves the scans alone. *)
LEMMA OperatorExact ==
    ASSUME NEW E, Estimates(E), NEW cpu, NEW e, isEstimate(e), e \notin E, ~e.scan,
           SumsFit(E \union {e})
    PROVE  addTotals(Exact(E, cpu), e.bytes, e.rows) = Exact(E \union {e}, cpu)
<1>1. scannedTables(E \union {e}) = scannedTables(E)
  BY DEF scannedTables
<1>2. \A t : scansOf(E \union {e}, t) = scansOf(E, t)
  BY DEF scansOf
<1>3. exactScans(E \union {e}) = exactScans(E)
  BY <1>1, <1>2 DEF exactScans
<1>4. addTotals(Exact(E, cpu), e.bytes, e.rows)
        = [scanBytes |-> bytesOf(E \union {e}), rows |-> rowsOf(E \union {e}),
           cpuCost |-> cpu, scans |-> exactScans(E)]
  BY TotalsExact
<1>5. QED BY <1>3, <1>4 DEF Exact

(* One of a table adds to the entry of that table, or makes it. *)
LEMMA ScanExact ==
    ASSUME NEW E, Estimates(E), NEW cpu, NEW e, isEstimate(e), e \notin E, e.scan,
           SumsFit(E \union {e})
    PROVE  addScan(addTotals(Exact(E, cpu), e.bytes, e.rows), e.table, e.bytes, e.rows)
             = Exact(E \union {e}, cpu)
<1> DEFINE N == E \union {e}
           table == e.table
           agg == addTotals(Exact(E, cpu), e.bytes, e.rows)
           entry(F, t) == [scanBytes |-> bytesOf(scansOf(F, t)), rows |-> rowsOf(scansOf(F, t))]
<1>1. agg = [scanBytes |-> bytesOf(N), rows |-> rowsOf(N), cpuCost |-> cpu,
             scans |-> [t \in scannedTables(E) |-> entry(E, t)]]
  BY TotalsExact DEF exactScans
<1>2. scannedTables(N) = scannedTables(E) \union {table}
  BY DEF scannedTables
<1>3. \A t : t # table => scansOf(N, t) = scansOf(E, t)
  BY DEF scansOf
<1>4. scansOf(N, table) = scansOf(E, table) \union {e} /\ e \notin scansOf(E, table)
  BY DEF scansOf
<1>5. scanOf(agg, table) = entry(E, table)
  <2>1. CASE table \in scannedTables(E)
    BY <1>1, <2>1 DEF scanOf
  <2>2. CASE table \notin scannedTables(E)
    <3>1. scansOf(E, table) = {}
      BY <2>2 DEF scansOf, scannedTables
    <3>2. byteUnits({}) = {} /\ rowUnits({}) = {}
      BY DEF byteUnits, rowUnits
    <3>3. bytesOf({}) = 0 /\ rowsOf({}) = 0
      BY <3>2, FS_EmptySet DEF bytesOf, rowsOf
    <3>4. scanOf(agg, table) = [scanBytes |-> 0, rows |-> 0]
      BY <1>1, <2>2 DEF scanOf
    <3>5. QED BY <3>1, <3>3, <3>4
  <2>3. QED BY <2>1, <2>2
<1>6. /\ wrap(bytesOf(scansOf(E, table)) + e.bytes) = bytesOf(scansOf(N, table))
      /\ wrap(rowsOf(scansOf(E, table)) + e.rows) = rowsOf(scansOf(N, table))
  <2>1. Estimates(N) /\ scansOf(N, table) \subseteq N /\ scansOf(E, table) \subseteq E
    BY SumsAdd DEF scansOf
  <2>2. Estimates(scansOf(E, table)) /\ Estimates(scansOf(N, table))
    BY <2>1, SumsMonotone
  <2>3. /\ bytesOf(scansOf(N, table)) = bytesOf(scansOf(E, table)) + e.bytes
        /\ rowsOf(scansOf(N, table)) = rowsOf(scansOf(E, table)) + e.rows
    BY <1>4, <2>2, SumsAdd
  <2>4. /\ bytesOf(scansOf(N, table)) <= bytesOf(N)
        /\ rowsOf(scansOf(N, table)) <= rowsOf(N)
    BY <2>1, SumsMonotone
  <2>5. /\ bytesOf(scansOf(N, table)) \in Nat /\ rowsOf(scansOf(N, table)) \in Nat
        /\ bytesOf(N) \in Nat /\ rowsOf(N) \in Nat /\ MaxInt \in Nat
    BY <2>1, <2>2, UnitsFinite, MaxIntAssumption
  <2>6. /\ bytesOf(scansOf(N, table)) \in 0 .. MaxInt
        /\ rowsOf(scansOf(N, table)) \in 0 .. MaxInt
    BY <2>4, <2>5 DEF SumsFit
  <2>7. QED BY <2>3, <2>6, WrapFits
<1>7. addScan(agg, table, e.bytes, e.rows)
        = [agg EXCEPT !.scans = [t \in DOMAIN agg.scans \union {table} |->
                                   IF t = table THEN entry(N, table) ELSE agg.scans[t]]]
  BY <1>5, <1>6, SMTT(60) DEF addScan
<1>8. [t \in DOMAIN agg.scans \union {table} |->
          IF t = table THEN entry(N, table) ELSE agg.scans[t]]
        = [t \in scannedTables(N) |-> entry(N, t)]
  <2>1. \A t \in scannedTables(E) : t # table => entry(E, t) = entry(N, t)
    BY <1>3
  <2> HIDE DEF N, entry, agg
  <2>2. /\ DOMAIN agg.scans = scannedTables(E)
        /\ \A t \in scannedTables(E) : agg.scans[t] = entry(E, t)
    BY <1>1
  <2>3. QED BY <1>2, <2>1, <2>2
<1>9. addScan(agg, table, e.bytes, e.rows)
        = [scanBytes |-> bytesOf(N), rows |-> rowsOf(N), cpuCost |-> cpu,
           scans |-> [t \in scannedTables(N) |-> entry(N, t)]]
  <2> HIDE DEF agg, N, entry
  <2>1. QED BY <1>1, <1>7, <1>8
<1>10. QED BY <1>9 DEF Exact, exactScans

(* One table info, and one node, of a document. *)
LEMMA InfoExact ==
    ASSUME NEW E, Estimates(E), NEW cpu, NEW info \in TableInfo, NEW d, NEW i, NEW beyond,
           infoEstimate(d, i, info) \notin E, SumsFit(E \union {infoEstimate(d, i, info)})
    PROVE  addInfo(Exact(E, cpu), info, beyond)
             = Exact(E \union {infoEstimate(d, i, info)}, cpu)
<1> DEFINE e == infoEstimate(d, i, info)
<1>1. /\ e.bytes = info.bytes.whole /\ e.rows = info.rows.whole
      /\ e.byteParts = info.bytes.frac /\ e.rowParts = info.rows.frac
      /\ e.table = qualifiedTable(info) /\ e.scan
  BY DEF infoEstimate
<1>2. isEstimate(e)
  <2>1. info.bytes \in Float /\ info.rows \in Float
    BY DEF TableInfo
  <2> HIDE DEF e
  <2> QED BY <1>1, <2>1 DEF isEstimate, Float
<1> HIDE DEF e
<1>3. e.bytes \in 0 .. MaxInt /\ e.rows \in 0 .. MaxInt
  BY <1>2, TotalsExact DEF e
<1>4. toInt64(info.bytes, beyond) = e.bytes /\ toInt64(info.rows, beyond) = e.rows
  BY <1>1, <1>3, Int64Fits
<1>5. addInfo(Exact(E, cpu), info, beyond)
        = addScan(addTotals(Exact(E, cpu), e.bytes, e.rows), e.table, e.bytes, e.rows)
  BY <1>1, <1>4 DEF addInfo
<1>6. QED BY <1>1, <1>2, <1>5, ScanExact DEF e

LEMMA NodeExact ==
    ASSUME NEW E, Estimates(E), NEW cpu, NEW node \in PlanNode, NEW d, NEW i, NEW beyond,
           nodeEstimate(d, i, node) \notin E, SumsFit(E \union {nodeEstimate(d, i, node)})
    PROVE  walkNode(Exact(E, cpu), node, beyond)
             = Exact(E \union {nodeEstimate(d, i, node)}, cpu)
<1> DEFINE e == nodeEstimate(d, i, node)
<1>1. /\ e.bytes = node.keyBytes.whole + node.detailBytes
      /\ e.rows = node.keyRows.whole + node.detailRows
      /\ e.byteParts = node.keyBytes.frac /\ e.rowParts = node.keyRows.frac
      /\ e.table = node.table /\ e.scan = (node.scan /\ node.table # <<>>)
  BY DEF nodeEstimate
<1>2. /\ node.keyBytes.whole \in Nat /\ node.detailBytes \in Nat
      /\ node.keyRows.whole \in Nat /\ node.detailRows \in Nat
      /\ node.keyBytes.frac \in 0 .. Unit - 1 /\ node.keyRows.frac \in 0 .. Unit - 1
  BY DEF PlanNode, Float
<1> HIDE DEF e
<1>3. isEstimate(e)
  BY <1>1, <1>2 DEF isEstimate
<1>4. e.bytes \in 0 .. MaxInt /\ e.rows \in 0 .. MaxInt
  BY <1>3, TotalsExact DEF e
<1>5. /\ node.keyBytes.whole \in 0 .. MaxInt /\ node.detailBytes \in 0 .. MaxInt
      /\ node.keyRows.whole \in 0 .. MaxInt /\ node.detailRows \in 0 .. MaxInt
  <2>1. /\ \A a \in Nat, b \in Nat : a + b \in 0 .. MaxInt => a \in 0 .. MaxInt
        /\ \A a \in Nat, b \in Nat : a + b \in 0 .. MaxInt => b \in 0 .. MaxInt
    BY MaxIntAssumption
  <2>2. /\ node.keyBytes.whole + node.detailBytes \in 0 .. MaxInt
        /\ node.keyRows.whole + node.detailRows \in 0 .. MaxInt
    BY <1>1, <1>4
  <2> QED BY <1>2, <2>1, <2>2
<1>6. /\ toInt64(node.keyBytes, beyond) = node.keyBytes.whole
      /\ toInt64(node.keyRows, beyond) = node.keyRows.whole
      /\ parsedInt(node.detailBytes) = node.detailBytes
      /\ parsedInt(node.detailRows) = node.detailRows
  BY <1>5, Int64Fits
<1>7. /\ wrap(node.keyBytes.whole + node.detailBytes) = e.bytes
      /\ wrap(node.keyRows.whole + node.detailRows) = e.rows
  BY <1>1, <1>4, WrapFits
<1>8. CASE e.scan
  <2>1. walkNode(Exact(E, cpu), node, beyond)
          = addScan(addTotals(Exact(E, cpu), e.bytes, e.rows), e.table, e.bytes, e.rows)
    BY <1>1, <1>6, <1>7, <1>8 DEF walkNode
  <2>2. QED BY <1>3, <1>8, <2>1, ScanExact DEF e
<1>9. CASE ~e.scan
  <2>1. walkNode(Exact(E, cpu), node, beyond) = addTotals(Exact(E, cpu), e.bytes, e.rows)
    BY <1>1, <1>6, <1>7, <1>9 DEF walkNode
  <2>2. QED BY <1>3, <1>9, <2>1, OperatorExact DEF e
<1>10. QED BY <1>8, <1>9

-----------------------------------------------------------------------------
(* The loops.                                                              *)

(* f is the sequence of aggregates of the loop over the first n infos. *)
InfosRun(f, n, agg, infos, beyond) ==
    f = [i \in 0 .. n |-> IF i = 0 THEN agg ELSE addInfo(f[i - 1], infos[i], beyond)]

LEMMA InfosRunExists ==
    ASSUME NEW agg, NEW infos, NEW beyond
    PROVE  \A n \in Nat : \E f : InfosRun(f, n, agg, infos, beyond)
<1> DEFINE S == {n \in Nat : \E f : InfosRun(f, n, agg, infos, beyond)}
<1>1. 0 \in S
  <2>1. InfosRun([i \in 0 .. 0 |-> agg], 0, agg, infos, beyond)
    BY DEF InfosRun
  <2>2. QED BY <2>1
<1>2. ASSUME NEW n \in Nat, n \in S PROVE n + 1 \in S
  <2>1. PICK f : InfosRun(f, n, agg, infos, beyond)
    BY <1>2
  <2> DEFINE last == addInfo(f[n], infos[n + 1], beyond)
             g == [i \in 0 .. (n + 1) |-> IF i = n + 1 THEN last ELSE f[i]]
  <2>2. (\A i \in 0 .. n : g[i] = f[i]) /\ g[n + 1] = last
    OBVIOUS
  <2>3. ASSUME NEW i \in 0 .. (n + 1)
        PROVE  g[i] = IF i = 0 THEN agg ELSE addInfo(g[i - 1], infos[i], beyond)
    <3> HIDE DEF g
    <3>1. CASE i = n + 1
      BY <2>2, <3>1
    <3>2. CASE i \in 0 .. n
      BY <2>1, <2>2, <3>2 DEF InfosRun
    <3>3. QED BY <3>1, <3>2
  <2>4. InfosRun(g, n + 1, agg, infos, beyond)
    BY <2>3 DEF InfosRun
  <2>5. QED BY <2>4
<1>3. Nat \subseteq S
  <2> HIDE DEF S
  <2> QED BY <1>1, <1>2, NatSetInduction
<1>4. QED BY <1>3

LEMMA AddInfosRuns ==
    ASSUME NEW agg, NEW infos, Len(infos) \in Nat, NEW beyond
    PROVE  \E f : /\ InfosRun(f, Len(infos), agg, infos, beyond)
                  /\ addInfos(agg, infos, beyond) = f[Len(infos)]
<1> DEFINE n == Len(infos)
           f == CHOOSE f : f = [i \in 0 .. n |->
                   IF i = 0 THEN agg ELSE addInfo(f[i - 1], infos[i], beyond)]
<1>1. \E g : InfosRun(g, n, agg, infos, beyond)
  BY InfosRunExists
<1>2. \E g : g = [i \in 0 .. n |-> IF i = 0 THEN agg ELSE addInfo(g[i - 1], infos[i], beyond)]
  BY <1>1, Zenon DEF InfosRun
<1>3. InfosRun(f, n, agg, infos, beyond)
  BY <1>2, Zenon DEF InfosRun
<1>4. addInfos(agg, infos, beyond) = f[n]
  BY Zenon DEF addInfos
<1>5. QED BY <1>3, <1>4

(* The first i estimates of document d. *)
infoPrefix(d, infos, i) == {infoEstimate(d, k, infos[k]) : k \in 1 .. i}

(* A loop over table infos that starts with exact sums ends with them. *)
LEMMA InfosExact ==
    ASSUME NEW B, Estimates(B), NEW d, \A e \in B : e.doc # d,
           NEW infos \in Seq(TableInfo), NEW cpu, NEW beyond,
           NEW E, E = B \union infoPrefix(d, infos, Len(infos)), Estimates(E), SumsFit(E)
    PROVE  addInfos(Exact(B, cpu), infos, beyond) = Exact(E, cpu)
<1> DEFINE n == Len(infos)
           part(i) == B \union infoPrefix(d, infos, i)
<1>0. n \in Nat /\ \A i \in 1 .. n : infos[i] \in TableInfo
  OBVIOUS
<1>1. PICK f : /\ InfosRun(f, n, Exact(B, cpu), infos, beyond)
               /\ addInfos(Exact(B, cpu), infos, beyond) = f[n]
  BY <1>0, AddInfosRuns
<1> DEFINE S == {i \in Nat : i <= n => f[i] = Exact(part(i), cpu)}
<1>2. 0 \in S
  <2>1. infoPrefix(d, infos, 0) = {}
    BY DEF infoPrefix
  <2>2. part(0) = B
    BY <2>1
  <2>3. f[0] = Exact(B, cpu)
    BY <1>0, <1>1 DEF InfosRun
  <2>4. QED BY <2>2, <2>3
<1>3. ASSUME NEW i \in Nat, i \in S PROVE i + 1 \in S
  <2> SUFFICES ASSUME i + 1 <= n PROVE f[i + 1] = Exact(part(i + 1), cpu)
    OBVIOUS
  <2> DEFINE e == infoEstimate(d, i + 1, infos[i + 1])
  <2>0. i + 1 \in 1 .. n /\ i <= n
    BY <1>0
  <2>1. f[i + 1] = addInfo(Exact(part(i), cpu), infos[i + 1], beyond)
    <3>1. f[i] = Exact(part(i), cpu)
      BY <1>3, <2>0
    <3> HIDE DEF part
    <3>2. f[i + 1] = addInfo(f[i], infos[i + 1], beyond)
      BY <1>0, <1>1, <2>0 DEF InfosRun
    <3>3. QED BY <3>1, <3>2
  <2>2. part(i + 1) = part(i) \union {e} /\ e \notin part(i)
    <3>1. infoPrefix(d, infos, i + 1) = infoPrefix(d, infos, i) \union {e}
      BY DEF infoPrefix
    <3>2. \A k : infoEstimate(d, k, infos[k]).at = k /\ infoEstimate(d, k, infos[k]).doc = d
      BY DEF infoEstimate
    <3>3. e \notin infoPrefix(d, infos, i)
      BY <3>2, SMTT(60) DEF infoPrefix
    <3>4. e \notin B
      BY <3>2
    <3>5. QED BY <3>1, <3>3, <3>4
  <2>3. part(i + 1) \subseteq E /\ part(i) \subseteq E
    BY <1>0, <2>0 DEF infoPrefix
  <2>4. Estimates(part(i)) /\ SumsFit(part(i + 1))
    <3> HIDE DEF part
    <3>1. Estimates(part(i)) /\ Estimates(part(i + 1))
      BY <2>3, SumsMonotone
    <3>2. bytesOf(part(i + 1)) <= bytesOf(E) /\ rowsOf(part(i + 1)) <= rowsOf(E)
      BY <2>3, SumsMonotone
    <3>3. /\ bytesOf(part(i + 1)) \in Nat /\ rowsOf(part(i + 1)) \in Nat
          /\ bytesOf(E) \in Nat /\ rowsOf(E) \in Nat /\ MaxInt \in Nat
      BY <3>1, UnitsFinite, MaxIntAssumption
    <3>4. QED BY <3>1, <3>2, <3>3 DEF SumsFit
  <2>5. infos[i + 1] \in TableInfo
    BY <1>0, <2>0
  <2> HIDE DEF part, e
  <2>6. QED BY <2>1, <2>2, <2>4, <2>5, InfoExact DEF e
<1>4. Nat \subseteq S
  <2> HIDE DEF S
  <2> QED BY <1>2, <1>3, NatSetInduction
<1>5. f[n] = Exact(part(n), cpu)
  BY <1>0, <1>4
<1>6. QED BY <1>1, <1>5

(* f is the sequence of aggregates of the walk over the first n nodes. *)
NodesRun(f, n, agg, nodes, beyond) ==
    f = [i \in 0 .. n |-> IF i = 0 THEN agg ELSE walkNode(f[i - 1], nodes[i], beyond)]

LEMMA NodesRunExists ==
    ASSUME NEW agg, NEW nodes, NEW beyond
    PROVE  \A n \in Nat : \E f : NodesRun(f, n, agg, nodes, beyond)
<1> DEFINE S == {n \in Nat : \E f : NodesRun(f, n, agg, nodes, beyond)}
<1>1. 0 \in S
  <2>1. NodesRun([i \in 0 .. 0 |-> agg], 0, agg, nodes, beyond)
    BY DEF NodesRun
  <2>2. QED BY <2>1
<1>2. ASSUME NEW n \in Nat, n \in S PROVE n + 1 \in S
  <2>1. PICK f : NodesRun(f, n, agg, nodes, beyond)
    BY <1>2
  <2> DEFINE last == walkNode(f[n], nodes[n + 1], beyond)
             g == [i \in 0 .. (n + 1) |-> IF i = n + 1 THEN last ELSE f[i]]
  <2>2. (\A i \in 0 .. n : g[i] = f[i]) /\ g[n + 1] = last
    OBVIOUS
  <2>3. ASSUME NEW i \in 0 .. (n + 1)
        PROVE  g[i] = IF i = 0 THEN agg ELSE walkNode(g[i - 1], nodes[i], beyond)
    <3> HIDE DEF g
    <3>1. CASE i = n + 1
      BY <2>2, <3>1
    <3>2. CASE i \in 0 .. n
      BY <2>1, <2>2, <3>2 DEF NodesRun
    <3>3. QED BY <3>1, <3>2
  <2>4. NodesRun(g, n + 1, agg, nodes, beyond)
    BY <2>3 DEF NodesRun
  <2>5. QED BY <2>4
<1>3. Nat \subseteq S
  <2> HIDE DEF S
  <2> QED BY <1>1, <1>2, NatSetInduction
<1>4. QED BY <1>3

LEMMA WalkNodesRuns ==
    ASSUME NEW agg, NEW nodes, Len(nodes) \in Nat, NEW beyond
    PROVE  \E f : /\ NodesRun(f, Len(nodes), agg, nodes, beyond)
                  /\ walkNodes(agg, nodes, beyond) = f[Len(nodes)]
<1> DEFINE n == Len(nodes)
           f == CHOOSE f : f = [i \in 0 .. n |->
                   IF i = 0 THEN agg ELSE walkNode(f[i - 1], nodes[i], beyond)]
<1>1. \E g : NodesRun(g, n, agg, nodes, beyond)
  BY NodesRunExists
<1>2. \E g : g = [i \in 0 .. n |-> IF i = 0 THEN agg ELSE walkNode(g[i - 1], nodes[i], beyond)]
  BY <1>1, Zenon DEF NodesRun
<1>3. NodesRun(f, n, agg, nodes, beyond)
  BY <1>2, Zenon DEF NodesRun
<1>4. walkNodes(agg, nodes, beyond) = f[n]
  BY Zenon DEF walkNodes
<1>5. QED BY <1>3, <1>4

(* The first i estimates of an operator tree. *)
nodePrefix(d, nodes, i) == {nodeEstimate(d, k, nodes[k]) : k \in 1 .. i}

(* So does a walk over the nodes of an operator tree. *)
LEMMA NodesExact ==
    ASSUME NEW B, Estimates(B), NEW d, \A e \in B : e.doc # d,
           NEW nodes \in Seq(PlanNode), NEW cpu, NEW beyond,
           NEW E, E = B \union nodePrefix(d, nodes, Len(nodes)), Estimates(E), SumsFit(E)
    PROVE  walkNodes(Exact(B, cpu), nodes, beyond) = Exact(E, cpu)
<1> DEFINE n == Len(nodes)
           part(i) == B \union nodePrefix(d, nodes, i)
<1>0. n \in Nat /\ \A i \in 1 .. n : nodes[i] \in PlanNode
  OBVIOUS
<1>1. PICK f : /\ NodesRun(f, n, Exact(B, cpu), nodes, beyond)
               /\ walkNodes(Exact(B, cpu), nodes, beyond) = f[n]
  BY <1>0, WalkNodesRuns
<1> DEFINE S == {i \in Nat : i <= n => f[i] = Exact(part(i), cpu)}
<1>2. 0 \in S
  <2>1. nodePrefix(d, nodes, 0) = {}
    BY DEF nodePrefix
  <2>2. part(0) = B
    BY <2>1
  <2>3. f[0] = Exact(B, cpu)
    BY <1>0, <1>1 DEF NodesRun
  <2>4. QED BY <2>2, <2>3
<1>3. ASSUME NEW i \in Nat, i \in S PROVE i + 1 \in S
  <2> SUFFICES ASSUME i + 1 <= n PROVE f[i + 1] = Exact(part(i + 1), cpu)
    OBVIOUS
  <2> DEFINE e == nodeEstimate(d, i + 1, nodes[i + 1])
  <2>0. i + 1 \in 1 .. n /\ i <= n
    BY <1>0
  <2>1. f[i + 1] = walkNode(Exact(part(i), cpu), nodes[i + 1], beyond)
    <3>1. f[i] = Exact(part(i), cpu)
      BY <1>3, <2>0
    <3> HIDE DEF part
    <3>2. f[i + 1] = walkNode(f[i], nodes[i + 1], beyond)
      BY <1>0, <1>1, <2>0 DEF NodesRun
    <3>3. QED BY <3>1, <3>2
  <2>2. part(i + 1) = part(i) \union {e} /\ e \notin part(i)
    <3>1. nodePrefix(d, nodes, i + 1) = nodePrefix(d, nodes, i) \union {e}
      BY DEF nodePrefix
    <3>2. \A k : nodeEstimate(d, k, nodes[k]).at = k /\ nodeEstimate(d, k, nodes[k]).doc = d
      BY DEF nodeEstimate
    <3>3. e \notin nodePrefix(d, nodes, i)
      BY <3>2, SMTT(60) DEF nodePrefix
    <3>4. e \notin B
      BY <3>2
    <3>5. QED BY <3>1, <3>3, <3>4
  <2>3. part(i + 1) \subseteq E /\ part(i) \subseteq E
    BY <1>0, <2>0 DEF nodePrefix
  <2>4. Estimates(part(i)) /\ SumsFit(part(i + 1))
    <3> HIDE DEF part
    <3>1. Estimates(part(i)) /\ Estimates(part(i + 1))
      BY <2>3, SumsMonotone
    <3>2. bytesOf(part(i + 1)) <= bytesOf(E) /\ rowsOf(part(i + 1)) <= rowsOf(E)
      BY <2>3, SumsMonotone
    <3>3. /\ bytesOf(part(i + 1)) \in Nat /\ rowsOf(part(i + 1)) \in Nat
          /\ bytesOf(E) \in Nat /\ rowsOf(E) \in Nat /\ MaxInt \in Nat
      BY <3>1, UnitsFinite, MaxIntAssumption
    <3>4. QED BY <3>1, <3>2, <3>3 DEF SumsFit
  <2>5. nodes[i + 1] \in PlanNode
    BY <1>0, <2>0
  <2> HIDE DEF part, e
  <2>6. QED BY <2>1, <2>2, <2>4, <2>5, NodeExact DEF e
<1>4. Nat \subseteq S
  <2> HIDE DEF S
  <2> QED BY <1>2, <1>3, NatSetInduction
<1>5. f[n] = Exact(part(n), cpu)
  BY <1>0, <1>4
<1>6. QED BY <1>1, <1>5

-----------------------------------------------------------------------------
(* The documents.                                                          *)

(* The documents whose estimates the code reads, and whose CPU cost. *)
costed(docs) == {d \in DOMAIN docs : docs[d].kind = "io" /\ docs[d].infos # <<>>}

counted(docs) ==
    costed(docs) \union {d \in DOMAIN docs : docs[d].kind = "tree" /\ docs[d].rooted}

(* A document has a size, and its estimates are natural numbers. *)
LEMMA DocumentEstimates ==
    ASSUME NEW docs \in Seq(Cells), NEW d \in DOMAIN docs
    PROVE  /\ size(docs[d]) \in Nat
           /\ \A i \in 1 .. size(docs[d]) : isEstimate(estimate(docs, d, i))
           /\ \A i : estimate(docs, d, i).doc = d
<1> DEFINE doc == docs[d]
<1>1. isDocument(doc)
  BY VerdictAssumption
<1>2. \A i : estimate(docs, d, i).doc = d
  BY DEF estimate, infoEstimate, nodeEstimate
<1>3. CASE doc.kind = "tree"
  <2>1. doc.nodes \in Seq(PlanNode) /\ size(doc) = Len(doc.nodes)
    BY <1>1, <1>3 DEF isDocument, size
  <2>2. ASSUME NEW i \in 1 .. size(doc) PROVE isEstimate(estimate(docs, d, i))
    <3>1. doc.nodes[i] \in PlanNode
      BY <2>1
    <3>2. estimate(docs, d, i) = nodeEstimate(d, i, doc.nodes[i])
      BY <1>3 DEF estimate
    <3>3. /\ doc.nodes[i].keyBytes \in Float /\ doc.nodes[i].detailBytes \in Nat
          /\ doc.nodes[i].keyRows \in Float /\ doc.nodes[i].detailRows \in Nat
      BY <3>1 DEF PlanNode
    <3> DEFINE e == nodeEstimate(d, i, doc.nodes[i])
               node == doc.nodes[i]
    <3>4. /\ e.bytes = node.keyBytes.whole + node.detailBytes
          /\ e.rows = node.keyRows.whole + node.detailRows
          /\ e.byteParts = node.keyBytes.frac /\ e.rowParts = node.keyRows.frac
      BY DEF nodeEstimate
    <3> HIDE DEF e
    <3>5. isEstimate(e)
      <4> HIDE DEF node, doc
      <4>1. /\ node.keyBytes \in Float /\ node.detailBytes \in Nat
            /\ node.keyRows \in Float /\ node.detailRows \in Nat
        BY <3>3 DEF node
      <4>2. /\ node.keyBytes.whole \in Nat /\ node.keyRows.whole \in Nat
            /\ node.keyBytes.frac \in 0 .. Unit - 1 /\ node.keyRows.frac \in 0 .. Unit - 1
        BY <4>1 DEF Float
      <4> QED BY <3>4, <4>1, <4>2 DEF isEstimate
    <3>6. QED BY <3>2, <3>5 DEF e
  <2>3. QED BY <1>2, <2>1, <2>2
<1>4. CASE doc.kind \in {"io", "nan"}
  <2>1. doc.infos \in Seq(TableInfo) /\ size(doc) = Len(doc.infos)
    BY <1>1, <1>4 DEF isDocument, size
  <2>2. ASSUME NEW i \in 1 .. size(doc) PROVE isEstimate(estimate(docs, d, i))
    <3>1. doc.infos[i] \in TableInfo
      BY <2>1
    <3>2. estimate(docs, d, i) = infoEstimate(d, i, doc.infos[i])
      BY <1>4 DEF estimate
    <3>3. doc.infos[i].bytes \in Float /\ doc.infos[i].rows \in Float
      BY <3>1 DEF TableInfo
    <3>4. QED BY <3>2, <3>3, SMTT(60) DEF infoEstimate, isEstimate, Float
  <2>3. QED BY <1>2, <2>1, <2>2
<1>5. CASE doc.kind = "invalid"
  BY <1>2, <1>5 DEF size
<1>6. QED BY <1>1, <1>3, <1>4, <1>5 DEF isDocument

LEMMA DomainFinite ==
    ASSUME NEW docs \in Seq(Cells) PROVE IsFiniteSet(DOMAIN docs)
<1>1. DOMAIN docs = 1 .. Len(docs) /\ Len(docs) \in Int
  OBVIOUS
<1>2. IsFiniteSet(1 .. Len(docs))
  BY <1>1, FS_Interval
<1>3. QED BY <1>1, <1>2

(* So the estimates of any of the documents are finitely many numbers. *)
LEMMA EstimatesFinite ==
    ASSUME NEW docs \in Seq(Cells), NEW D, D \subseteq DOMAIN docs
    PROVE  Estimates(estimatesOf(docs, D))
<1> DEFINE E == estimatesOf(docs, D)
           of(d) == {estimate(docs, d, i) : i \in 1 .. size(docs[d])}
           f == [d \in D |-> of(d)]
<1>1. \A e \in E : isEstimate(e)
  BY DocumentEstimates DEF estimatesOf
<1>2. ASSUME NEW d \in D PROVE IsFiniteSet(of(d))
  <2> DEFINE I == 1 .. size(docs[d])
             g == [i \in I |-> estimate(docs, d, i)]
  <2>1. size(docs[d]) \in Int
    BY DocumentEstimates
  <2>2. IsFiniteSet(I)
    BY <2>1, FS_Interval
  <2>3. g = [i \in I |-> g[i]]
    OBVIOUS
  <2>4. of(d) = {g[i] : i \in I}
    OBVIOUS
  <2> HIDE DEF g, I, of
  <2>5. QED BY <2>2, <2>3, <2>4, FiniteImage
<1>3. IsFiniteSet(D)
  BY DomainFinite, FS_Subset
<1> DEFINE T == {f[d] : d \in D}
<1>4. IsFiniteSet(T)
  <2>1. f = [d \in D |-> f[d]]
    OBVIOUS
  <2> HIDE DEF f
  <2>2. QED BY <1>3, <2>1, FiniteImage
<1>5. \A t \in T : IsFiniteSet(t)
  BY <1>2
<1>6. E = UNION T
  BY DEF estimatesOf
<1> HIDE DEF T, E
<1>7. QED BY <1>1, <1>4, <1>5, <1>6, FS_UNION DEF Estimates, E

(* The CPU costs of any of the documents that have one. *)
LEMMA CpuFinite ==
    ASSUME NEW docs \in Seq(Cells), NEW D, D \subseteq withCost(docs)
    PROVE  IsFiniteSet(cpuUnits(docs, D)) /\ Cardinality(cpuUnits(docs, D)) \in Nat
<1> DEFINE f == [d \in D |-> {d} \X (1 .. docs[d].cpuCost)]
           T == {f[d] : d \in D}
<1>1. IsFiniteSet(D)
  BY DomainFinite, FS_Subset DEF withCost
<1>2. IsFiniteSet(T)
  <2>1. f = [d \in D |-> f[d]]
    OBVIOUS
  <2> HIDE DEF f
  <2>2. QED BY <1>1, <2>1, FiniteImage
<1>3. ASSUME NEW d \in D PROVE IsFiniteSet({d} \X (1 .. docs[d].cpuCost))
  <2> DEFINE n == docs[d].cpuCost
  <2>1. n \in Int
    BY VerdictAssumption DEF withCost, isDocument
  <2>2. IsFiniteSet(1 .. n)
    <3> HIDE DEF n, f, T
    <3>1. QED BY <2>1, FS_Interval
  <2>3. IsFiniteSet({d})
    BY FS_Singleton
  <2>4. QED BY <2>2, <2>3, FS_Product
<1>4. \A t \in T : IsFiniteSet(t)
  BY <1>3
<1>5. cpuUnits(docs, D) = UNION T
  BY DEF cpuUnits
<1> HIDE DEF T
<1>6. IsFiniteSet(cpuUnits(docs, D))
  BY <1>2, <1>4, <1>5, FS_UNION
<1>7. QED BY <1>6, FS_CardinalityType

(* The exact aggregate of what the code reads in the first n documents. *)
exactPrefix(docs, n) ==
    Exact(estimatesOf(docs, counted(docs) \intersect (1 .. n)),
          Cardinality(cpuUnits(docs, costed(docs) \intersect (1 .. n))))

(* A document more: read, or passed over. *)
LEMMA DocumentExact ==
    ASSUME NEW docs \in Seq(Cells), NEW beyond, NEW n \in Nat, n + 1 \in DOMAIN docs,
           fits(docs)
    PROVE  parsePlanDoc(docs[n + 1], exactPrefix(docs, n), beyond)
             = exactPrefix(docs, n + 1)
<1> DEFINE d == n + 1
           doc == docs[d]
           C == counted(docs) \intersect (1 .. n)
           K == costed(docs) \intersect (1 .. n)
           B == estimatesOf(docs, C)
           E == estimatesOf(docs, counted(docs) \intersect (1 .. d))
           cpu == Cardinality(cpuUnits(docs, K))
<1>0. 1 .. d = (1 .. n) \union {d} /\ d \notin 1 .. n
  OBVIOUS
<1>1. isDocument(doc)
  BY VerdictAssumption
<1>2. Estimates(B) /\ Estimates(E)
  <2>1. C \subseteq DOMAIN docs /\ counted(docs) \intersect (1 .. d) \subseteq DOMAIN docs
    BY DEF counted, costed
  <2> HIDE DEF C, d
  <2>2. QED BY <2>1, EstimatesFinite
<1>3. SumsFit(E)
  <2> DEFINE all == estimatesOf(docs, DOMAIN docs)
  <2>1. E \subseteq all
    BY DEF estimatesOf, counted, costed
  <2>2. Estimates(all)
    BY EstimatesFinite
  <2>3. bytesOf(all) <= MaxInt /\ rowsOf(all) <= MaxInt
    BY DEF fits
  <2> HIDE DEF all, E
  <2>4. bytesOf(E) <= bytesOf(all) /\ rowsOf(E) <= rowsOf(all)
    BY <2>1, <2>2, SumsMonotone
  <2>5. /\ bytesOf(E) \in Nat /\ rowsOf(E) \in Nat
        /\ bytesOf(all) \in Nat /\ rowsOf(all) \in Nat /\ MaxInt \in Nat
    BY <1>2, <2>2, UnitsFinite, MaxIntAssumption
  <2>6. QED BY <2>3, <2>4, <2>5 DEF SumsFit
<1>4. \A e \in B : e.doc # d
  BY <1>0, DocumentEstimates DEF estimatesOf, counted, costed
<1>5. CASE doc.kind = "io" /\ doc.infos # <<>>
  <2>1. d \in costed(docs) /\ d \in counted(docs)
    BY <1>5 DEF costed, counted
  <2>2. /\ counted(docs) \intersect (1 .. d) = C \union {d}
        /\ costed(docs) \intersect (1 .. d) = K \union {d}
    BY <1>0, <2>1
  <2>3. doc.infos \in Seq(TableInfo) /\ doc.cpuCost \in Nat
    BY <1>1, <1>5 DEF isDocument
  <2>4. {estimate(docs, d, i) : i \in 1 .. size(doc)}
          = infoPrefix(d, doc.infos, Len(doc.infos))
    BY <1>5 DEF infoPrefix, size, estimate
  <2>5. E = B \union infoPrefix(d, doc.infos, Len(doc.infos))
    BY <2>2, <2>4 DEF estimatesOf
  <2>6. Cardinality(cpuUnits(docs, K \union {d})) = cpu + doc.cpuCost
    <3>1. cpuUnits(docs, K \union {d}) = cpuUnits(docs, K) \union ({d} \X (1 .. doc.cpuCost))
      BY DEF cpuUnits
    <3>2. \A u \in cpuUnits(docs, K) : u[1] # d
      BY <1>0 DEF cpuUnits
    <3>3. IsFiniteSet(cpuUnits(docs, K))
      <4>1. K \subseteq withCost(docs)
        BY DEF costed, withCost
      <4> HIDE DEF K
      <4>2. QED BY <4>1, CpuFinite
    <3> HIDE DEF d, K, doc
    <3>4. Cardinality(cpuUnits(docs, K) \union ({d} \X (1 .. doc.cpuCost)))
            = Cardinality(cpuUnits(docs, K)) + doc.cpuCost
      BY <2>3, <3>2, <3>3, UnitsAdded
    <3>5. QED BY <3>1, <3>4
  <2>7. [Exact(B, cpu) EXCEPT !.cpuCost = @ + doc.cpuCost] = Exact(B, cpu + doc.cpuCost)
    <3> HIDE DEF B, cpu, doc
    <3>1. QED BY DEF Exact
  <2>8. parsePlanDoc(doc, Exact(B, cpu), beyond)
          = addInfos(Exact(B, cpu + doc.cpuCost), doc.infos, beyond)
    <3> HIDE DEF B, cpu
    <3>1. QED BY <1>5, <2>7 DEF parsePlanDoc
  <2>9. addInfos(Exact(B, cpu + doc.cpuCost), doc.infos, beyond)
          = Exact(E, cpu + doc.cpuCost)
    <3> HIDE DEF B, E, cpu, d, doc
    <3>1. QED BY <1>2, <1>3, <1>4, <2>3, <2>5, InfosExact
  <2>10. QED BY <2>2, <2>6, <2>8, <2>9 DEF exactPrefix
<1>6. CASE doc.kind = "tree" /\ doc.rooted
  <2>1. d \in counted(docs) /\ d \notin costed(docs)
    BY <1>6 DEF costed, counted
  <2>2. /\ counted(docs) \intersect (1 .. d) = C \union {d}
        /\ costed(docs) \intersect (1 .. d) = K
    BY <1>0, <2>1
  <2>3. doc.nodes \in Seq(PlanNode)
    BY <1>1, <1>6 DEF isDocument
  <2>4. {estimate(docs, d, i) : i \in 1 .. size(doc)}
          = nodePrefix(d, doc.nodes, Len(doc.nodes))
    BY <1>6 DEF nodePrefix, size, estimate
  <2>5. E = B \union nodePrefix(d, doc.nodes, Len(doc.nodes))
    BY <2>2, <2>4 DEF estimatesOf
  <2>6. parsePlanDoc(doc, Exact(B, cpu), beyond) = walkNodes(Exact(B, cpu), doc.nodes, beyond)
    <3> HIDE DEF B, cpu
    <3>1. QED BY <1>6 DEF parsePlanDoc
  <2>7. walkNodes(Exact(B, cpu), doc.nodes, beyond) = Exact(E, cpu)
    <3> HIDE DEF B, E, cpu, d, doc
    <3>1. QED BY <1>2, <1>3, <1>4, <2>3, <2>5, NodesExact
  <2>8. QED BY <2>2, <2>6, <2>7 DEF exactPrefix
<1>7. CASE ~(doc.kind = "io" /\ doc.infos # <<>>) /\ ~(doc.kind = "tree" /\ doc.rooted)
  <2>1. d \notin counted(docs) /\ d \notin costed(docs)
    BY <1>7 DEF costed, counted
  <2>2. /\ counted(docs) \intersect (1 .. d) = C
        /\ costed(docs) \intersect (1 .. d) = K
    BY <1>0, <2>1
  <2>3. parsePlanDoc(doc, Exact(B, cpu), beyond) = Exact(B, cpu)
    <3> HIDE DEF B, cpu
    <3>1. QED BY <1>7 DEF parsePlanDoc
  <2>4. QED BY <2>2, <2>3 DEF exactPrefix
<1>8. QED BY <1>5, <1>6, <1>7

(* f is the sequence of aggregates of parsePlanCells over n documents. *)
DocsRun(f, n, docs, beyond) ==
    f = [i \in 0 .. n |-> IF i = 0 THEN NoEstimates
                          ELSE parsePlanDoc(docs[i], f[i - 1], beyond)]

LEMMA DocsRunExists ==
    ASSUME NEW docs, NEW beyond
    PROVE  \A n \in Nat : \E f : DocsRun(f, n, docs, beyond)
<1> DEFINE S == {n \in Nat : \E f : DocsRun(f, n, docs, beyond)}
<1>1. 0 \in S
  <2>1. DocsRun([i \in 0 .. 0 |-> NoEstimates], 0, docs, beyond)
    BY DEF DocsRun
  <2>2. QED BY <2>1
<1>2. ASSUME NEW n \in Nat, n \in S PROVE n + 1 \in S
  <2>1. PICK f : DocsRun(f, n, docs, beyond)
    BY <1>2
  <2> DEFINE last == parsePlanDoc(docs[n + 1], f[n], beyond)
             g == [i \in 0 .. (n + 1) |-> IF i = n + 1 THEN last ELSE f[i]]
  <2>2. (\A i \in 0 .. n : g[i] = f[i]) /\ g[n + 1] = last
    OBVIOUS
  <2>3. ASSUME NEW i \in 0 .. (n + 1)
        PROVE  g[i] = IF i = 0 THEN NoEstimates
                      ELSE parsePlanDoc(docs[i], g[i - 1], beyond)
    <3> HIDE DEF g
    <3>1. CASE i = n + 1
      BY <2>2, <3>1
    <3>2. CASE i \in 0 .. n
      BY <2>1, <2>2, <3>2 DEF DocsRun
    <3>3. QED BY <3>1, <3>2
  <2>4. DocsRun(g, n + 1, docs, beyond)
    BY <2>3 DEF DocsRun
  <2>5. QED BY <2>4
<1>3. Nat \subseteq S
  <2> HIDE DEF S
  <2> QED BY <1>1, <1>2, NatSetInduction
<1>4. QED BY <1>3

LEMMA AggregateRuns ==
    ASSUME NEW docs, Len(docs) \in Nat, NEW beyond
    PROVE  \E f : DocsRun(f, Len(docs), docs, beyond) /\ aggregate(docs, beyond) = f[Len(docs)]
<1> DEFINE n == Len(docs)
           f == CHOOSE f : f = [i \in 0 .. n |->
                   IF i = 0 THEN NoEstimates ELSE parsePlanDoc(docs[i], f[i - 1], beyond)]
<1>1. \E g : DocsRun(g, n, docs, beyond)
  BY DocsRunExists
<1>2. \E g : g = [i \in 0 .. n |-> IF i = 0 THEN NoEstimates
                                   ELSE parsePlanDoc(docs[i], g[i - 1], beyond)]
  BY <1>1, Zenon DEF DocsRun
<1>3. DocsRun(f, n, docs, beyond)
  BY <1>2, Zenon DEF DocsRun
<1>4. aggregate(docs, beyond) = f[n]
  BY Zenon DEF aggregate
<1>5. QED BY <1>3, <1>4

(* For every sequence of documents whose sums are int64 values, the        *)
(* aggregate of parsePlanCells has the sums of the whole parts of the      *)
(* estimates of the documents it reads: fractions are dropped one by one,  *)
(* and nothing else is lost or added, whatever the processor does with a   *)
(* number that is no int64.                                                *)
THEOREM AggregateExact ==
    ASSUME NEW docs \in Seq(Cells), fits(docs), NEW beyond
    PROVE  aggregate(docs, beyond) = exactPrefix(docs, Len(docs))
<1> DEFINE n == Len(docs)
<1>0. n \in Nat /\ DOMAIN docs = 1 .. n
  OBVIOUS
<1>1. PICK f : DocsRun(f, n, docs, beyond) /\ aggregate(docs, beyond) = f[n]
  BY <1>0, AggregateRuns
<1> DEFINE S == {i \in Nat : i <= n => f[i] = exactPrefix(docs, i)}
<1>2. 0 \in S
  <2>1. 1 .. 0 = {}
    OBVIOUS
  <2>2. estimatesOf(docs, {}) = {} /\ cpuUnits(docs, {}) = {}
    BY DEF estimatesOf, cpuUnits
  <2>3. exactPrefix(docs, 0) = Exact({}, 0)
    BY <2>1, <2>2, FS_EmptySet DEF exactPrefix
  <2>4. f[0] = NoEstimates
    BY <1>0, <1>1 DEF DocsRun
  <2>5. QED BY <2>3, <2>4, ExactNothing
<1>3. ASSUME NEW i \in Nat, i \in S PROVE i + 1 \in S
  <2> SUFFICES ASSUME i + 1 <= n PROVE f[i + 1] = exactPrefix(docs, i + 1)
    OBVIOUS
  <2>1. i + 1 \in DOMAIN docs /\ f[i] = exactPrefix(docs, i)
    BY <1>0, <1>3
  <2>2. f[i + 1] = parsePlanDoc(docs[i + 1], f[i], beyond)
    BY <1>0, <1>1, <2>1 DEF DocsRun
  <2>3. QED BY <2>1, <2>2, DocumentExact
<1>4. Nat \subseteq S
  <2> HIDE DEF S
  <2> QED BY <1>2, <1>3, NatSetInduction
<1>5. QED BY <1>0, <1>1, <1>4

-----------------------------------------------------------------------------
(* The verdict.                                                            *)

(* The plan that the whole parts of estimates E and a CPU cost amount to. *)
planOf(E, cpu) ==
    [scanBytes |-> bytesOf(E), cpuCost |-> cpu,
     scans |-> {[table |-> t, scanBytes |-> bytesOf(scansOf(E, t)),
                 rows |-> rowsOf(scansOf(E, t))] : t \in scannedTables(E)}]

readPlan(docs) ==
    planOf(estimatesOf(docs, counted(docs)), Cardinality(cpuUnits(docs, costed(docs))))

(* The plan that Evaluate gets is that of the documents read. *)
LEMMA PlanExact ==
    ASSUME NEW docs \in Seq(Cells), fits(docs), NEW beyond
    PROVE  parsePlanCells(docs, beyond) = readPlan(docs)
<1> DEFINE n == Len(docs)
           E == estimatesOf(docs, counted(docs))
           cpu == Cardinality(cpuUnits(docs, costed(docs)))
           agg == Exact(E, cpu)
<1>1. DOMAIN docs = 1 .. n
  OBVIOUS
<1>2. counted(docs) \intersect (1 .. n) = counted(docs)
      /\ costed(docs) \intersect (1 .. n) = costed(docs)
  BY <1>1 DEF counted, costed
<1>3. aggregate(docs, beyond) = agg
  <2>1. aggregate(docs, beyond) = exactPrefix(docs, n)
    BY AggregateExact
  <2>2. QED BY <1>2, <2>1 DEF exactPrefix
<1> HIDE DEF E, cpu
<1>4. /\ agg.scanBytes = bytesOf(E) /\ agg.cpuCost = cpu /\ agg.scans = exactScans(E)
  BY DEF Exact
<1>5. /\ DOMAIN exactScans(E) = scannedTables(E)
      /\ \A t \in scannedTables(E) :
            /\ exactScans(E)[t].scanBytes = bytesOf(scansOf(E, t))
            /\ exactScans(E)[t].rows = rowsOf(scansOf(E, t))
  BY DEF exactScans
<1> HIDE DEF agg
<1>6. {[table |-> t, scanBytes |-> agg.scans[t].scanBytes, rows |-> agg.scans[t].rows] :
          t \in DOMAIN agg.scans}
        = {[table |-> t, scanBytes |-> bytesOf(scansOf(E, t)),
            rows |-> rowsOf(scansOf(E, t))] : t \in scannedTables(E)}
  BY <1>4, <1>5
<1>7. QED BY <1>3, <1>4, <1>6 DEF parsePlanCells, readPlan, planOf, E, cpu

(* A limit that a plan exceeds is exceeded by every plan with as much of   *)
(* everything.                                                             *)
LEMMA LimitsMonotone ==
    ASSUME NEW E, Estimates(E), NEW F, F \subseteq E,
           NEW c \in Nat, NEW k \in Nat, k <= c,
           NEW p, \A lim \in p.costLimits : isLimit(lim),
           evaluateLimits(p, planOf(E, c))
    PROVE  evaluateLimits(p, planOf(F, k))
<1> SUFFICES ASSUME NEW lim \in p.costLimits, breaches(planOf(F, k), lim)
             PROVE  breaches(planOf(E, c), lim)
  BY DEF evaluateLimits
<1>0. isLimit(lim)
  OBVIOUS
<1>1. Estimates(F) /\ bytesOf(F) <= bytesOf(E)
  BY SumsMonotone
<1>2. bytesOf(F) \in Nat /\ bytesOf(E) \in Nat
  BY <1>1, UnitsFinite
<1>3. /\ planOf(E, c).scanBytes = bytesOf(E) /\ planOf(F, k).scanBytes = bytesOf(F)
      /\ planOf(E, c).cpuCost = c /\ planOf(F, k).cpuCost = k
  BY DEF planOf
<1>4. CASE exceeds(planOf(F, k).scanBytes, lim.maxScanBytesPerQuery)
  <2>1. exceeds(planOf(E, c).scanBytes, lim.maxScanBytesPerQuery)
    BY <1>0, <1>1, <1>2, <1>3, <1>4 DEF exceeds, isLimit
  <2>2. QED BY <2>1 DEF breaches
<1>5. CASE exceeds(planOf(F, k).cpuCost, lim.maxCPUCostPerQuery)
  <2>1. exceeds(planOf(E, c).cpuCost, lim.maxCPUCostPerQuery)
    BY <1>0, <1>3, <1>5 DEF exceeds, isLimit
  <2>2. QED BY <2>1 DEF breaches
<1>6. CASE /\ tableScoped(lim)
           /\ \E s \in planOf(F, k).scans :
                 /\ tableMatches(s.table, lim)
                 /\ exceeds(s.scanBytes, lim.maxScanBytes) \/ exceeds(s.rows, lim.maxRows)
  <2>1. PICK s \in planOf(F, k).scans :
           /\ tableMatches(s.table, lim)
           /\ exceeds(s.scanBytes, lim.maxScanBytes) \/ exceeds(s.rows, lim.maxRows)
    BY <1>6
  <2>2. PICK t \in scannedTables(F) :
           s = [table |-> t, scanBytes |-> bytesOf(scansOf(F, t)),
                rows |-> rowsOf(scansOf(F, t))]
    BY DEF planOf
  <2> DEFINE u == [table |-> t, scanBytes |-> bytesOf(scansOf(E, t)),
                   rows |-> rowsOf(scansOf(E, t))]
  <2>3. u \in planOf(E, c).scans
    <3>1. t \in scannedTables(E)
      BY DEF scannedTables
    <3>2. QED BY <3>1 DEF planOf
  <2>4. scansOf(F, t) \subseteq scansOf(E, t) /\ scansOf(E, t) \subseteq E
    BY DEF scansOf
  <2>5. Estimates(scansOf(E, t))
    BY <2>4, SumsMonotone
  <2>6. /\ Estimates(scansOf(F, t))
        /\ bytesOf(scansOf(F, t)) <= bytesOf(scansOf(E, t))
        /\ rowsOf(scansOf(F, t)) <= rowsOf(scansOf(E, t))
    BY <2>4, <2>5, SumsMonotone
  <2>7. /\ bytesOf(scansOf(F, t)) \in Nat /\ bytesOf(scansOf(E, t)) \in Nat
        /\ rowsOf(scansOf(F, t)) \in Nat /\ rowsOf(scansOf(E, t)) \in Nat
    BY <2>5, <2>6, UnitsFinite
  <2>8. exceeds(u.scanBytes, lim.maxScanBytes) \/ exceeds(u.rows, lim.maxRows)
    BY <1>0, <2>1, <2>2, <2>6, <2>7 DEF exceeds, isLimit
  <2>9. u.table = s.table
    BY <2>2
  <2> HIDE DEF u
  <2>10. QED BY <1>6, <2>1, <2>3, <2>8, <2>9 DEF breaches
<1>7. QED BY <1>4, <1>5, <1>6 DEF breaches

(* What the code reads is part of what was reported, and all of it when    *)
(* every document is readable.                                             *)
LEMMA ReadPart ==
    ASSUME NEW docs \in Seq(Cells)
    PROVE  /\ estimatesOf(docs, counted(docs)) \subseteq estimatesOf(docs, DOMAIN docs)
           /\ cpuUnits(docs, costed(docs)) \subseteq cpuUnits(docs, withCost(docs))
           /\ costed(docs) \subseteq withCost(docs)
<1>1. counted(docs) \subseteq DOMAIN docs /\ costed(docs) \subseteq withCost(docs)
  BY DEF counted, costed, withCost
<1>2. estimatesOf(docs, counted(docs)) \subseteq estimatesOf(docs, DOMAIN docs)
  BY <1>1 DEF estimatesOf
<1>3. cpuUnits(docs, costed(docs)) \subseteq cpuUnits(docs, withCost(docs))
  BY <1>1 DEF cpuUnits
<1>4. QED BY <1>1, <1>2, <1>3

LEMMA ReadAll ==
    ASSUME NEW docs \in Seq(Cells), \A d \in DOMAIN docs : readable(docs[d])
    PROVE  /\ estimatesOf(docs, counted(docs)) = estimatesOf(docs, DOMAIN docs)
           /\ cpuUnits(docs, costed(docs)) = cpuUnits(docs, withCost(docs))
<1>1. estimatesOf(docs, DOMAIN docs) \subseteq estimatesOf(docs, counted(docs))
  <2> SUFFICES ASSUME NEW d \in DOMAIN docs, NEW i \in 1 .. size(docs[d])
               PROVE  d \in counted(docs)
    BY DEF estimatesOf
  <2>1. CASE docs[d].kind = "io" /\ docs[d].infos # <<>>
    BY <2>1 DEF counted, costed
  <2>2. CASE docs[d].kind = "tree" /\ docs[d].rooted
    BY <2>2 DEF counted
  <2>3. CASE docs[d].kind = "io" /\ docs[d].infos = <<>>
    <3>1. size(docs[d]) = Len(docs[d].infos)
      BY <2>3 DEF size
    <3>2. size(docs[d]) = 0
      BY <2>3, <3>1
    <3>3. QED BY <3>2
  <2>4. QED BY <2>1, <2>2, <2>3 DEF readable
<1>2. cpuUnits(docs, withCost(docs)) \subseteq cpuUnits(docs, costed(docs))
  <2> SUFFICES ASSUME NEW d \in withCost(docs), NEW i \in 1 .. docs[d].cpuCost
               PROVE  d \in costed(docs)
    BY DEF cpuUnits
  <2>1. d \in DOMAIN docs /\ docs[d].kind = "io"
    BY DEF withCost, readable
  <2>2. docs[d].cpuCost # 0
    OBVIOUS
  <2>3. QED BY <2>1, <2>2 DEF readable, costed
<1>3. /\ estimatesOf(docs, DOMAIN docs) = estimatesOf(docs, counted(docs))
      /\ cpuUnits(docs, withCost(docs)) = cpuUnits(docs, costed(docs))
  BY <1>1, <1>2, ReadPart
<1>4. QED BY <1>3

-----------------------------------------------------------------------------
(* The fractions.                                                          *)

LEMMA MulMono ==
    ASSUME NEW a \in Nat, NEW b \in Nat, a <= b, NEW u \in Nat
    PROVE  a * u \in Nat /\ b * u \in Nat /\ a * u <= b * u
<1>1. PICK d \in Nat : b = a + d
  <2> WITNESS b - a \in Nat
  <2> QED OBVIOUS
<1>2. (a + d) * u = a * u + d * u
  OBVIOUS
<1>3. a * u \in Nat /\ d * u \in Nat
  OBVIOUS
<1>4. QED BY <1>1, <1>2, <1>3

(* A number of parts rounded up is at most n if the parts are those of n   *)
(* whole ones at most.                                                     *)
LEMMA RoundedUp ==
    ASSUME NEW parts \in Nat
    PROVE  /\ roundedUp(parts) \in Nat
           /\ \A n \in Nat : parts <= n * Unit => roundedUp(parts) <= n
<1> DEFINE S == {n \in 0 .. parts : n * Unit >= parts}
<1>u. Unit \in Nat /\ 1 <= Unit
  BY UnitAssumption
<1>1. parts \in S
  <2>1. 1 * parts <= Unit * parts
    BY <1>u, MulMono
  <2>2. parts * Unit = Unit * parts
    BY <1>u
  <2>3. parts * Unit >= parts
    BY <1>u, <2>1, <2>2
  <2> QED BY <2>3
<1>2. S \in SUBSET Nat
  OBVIOUS
<1> HIDE DEF S
<1>3. PICK x \in S : \A y \in S : x <= y
  BY <1>1, <1>2, LeastNat
<1>4. Min(S) \in S /\ \A y \in S : Min(S) <= y
  BY <1>3 DEF Min
<1>5. ASSUME NEW n \in Nat, parts <= n * Unit PROVE Min(S) <= n
  <2>1. CASE n <= parts
    <3>1. n \in S
      BY <1>u, <1>5, <2>1 DEF S
    <3> QED BY <1>4, <3>1
  <2>2. CASE parts < n
    <3>1. Min(S) <= parts /\ Min(S) \in Nat
      BY <1>1, <1>2, <1>4
    <3> QED BY <2>2, <3>1
  <2> QED BY <2>1, <2>2
<1>6. roundedUp(parts) = Min(S)
  BY DEF roundedUp, S
<1>7. Min(S) \in Nat
  BY <1>2, <1>4
<1> QED BY <1>5, <1>6, <1>7

PartNames == {"byteParts", "rowParts"}

(* The parts of some of finitely many estimates are fewer than those of a  *)
(* whole one for each that has a fraction.                                 *)
LEMMA PartsBounded ==
    ASSUME NEW E, Estimates(E), NEW F, F \subseteq E, NEW parts \in PartNames
    PROVE  /\ partsOf(F, parts) \in Nat /\ Cardinality(fractional(E)) \in Nat
           /\ partsOf(F, parts) <= Cardinality(fractional(E)) * Unit
<1> DEFINE R == fractional(E)
           all == R \X (1 .. Unit)
           U == partUnits(F, parts)
<1>1. IsFiniteSet(R) /\ Cardinality(R) \in Nat
  <2>1. R \subseteq E
    BY DEF fractional
  <2> QED BY <2>1, FS_Subset, FS_CardinalityType DEF Estimates
<1>2. IsFiniteSet(1 .. Unit) /\ Cardinality(1 .. Unit) = Unit
  <2>1. 1 \in Int /\ Unit \in Int /\ Unit >= 1
    BY UnitAssumption
  <2> QED BY <2>1, FS_Interval
<1>3. IsFiniteSet(all) /\ Cardinality(all) = Cardinality(R) * Unit
  <2> HIDE DEF R
  <2> QED BY <1>1, <1>2, FS_Product
<1>4. U \subseteq all
  <2> SUFFICES ASSUME NEW e \in F, NEW i \in 1 .. e[parts]
               PROVE  e \in R /\ i \in 1 .. Unit
    BY DEF partUnits
  <2>1. isEstimate(e) /\ e \in E
    BY DEF Estimates
  <2>2. e[parts] = e.byteParts \/ e[parts] = e.rowParts
    BY DEF PartNames
  <2>3. e[parts] \in 0 .. Unit - 1
    BY <2>1, <2>2 DEF isEstimate
  <2>4. i \in 1 .. Unit /\ e[parts] # 0
    BY <2>3, UnitAssumption
  <2>5. e.byteParts # 0 \/ e.rowParts # 0
    BY <2>2, <2>4
  <2> QED BY <2>1, <2>4, <2>5 DEF fractional
<1> HIDE DEF all, U, R
<1>5. IsFiniteSet(U) /\ Cardinality(U) <= Cardinality(all) /\ Cardinality(U) \in Nat
  BY <1>3, <1>4, FS_Subset, FS_CardinalityType
<1> QED BY <1>1, <1>3, <1>5 DEF partsOf, U, R

(* The exact sums are those of the whole parts, and at most one more for   *)
(* each estimate with a fraction.                                          *)
LEMMA ExactSums ==
    ASSUME NEW E, Estimates(E), NEW F, F \subseteq E
    PROVE  LET n == Cardinality(fractional(E))
           IN  /\ n \in Nat
               /\ bytesOf(F) \in Nat /\ rowsOf(F) \in Nat
               /\ exactBytesOf(F) \in Nat /\ exactRowsOf(F) \in Nat
               /\ bytesOf(F) <= exactBytesOf(F) /\ exactBytesOf(F) <= bytesOf(F) + n
               /\ rowsOf(F) <= exactRowsOf(F) /\ exactRowsOf(F) <= rowsOf(F) + n
<1> DEFINE n == Cardinality(fractional(E))
           b == roundedUp(partsOf(F, "byteParts"))
           r == roundedUp(partsOf(F, "rowParts"))
<1>1. bytesOf(F) \in Nat /\ rowsOf(F) \in Nat
  BY SumsMonotone, UnitsFinite
<1>2. n \in Nat /\ b \in Nat /\ b <= n /\ r \in Nat /\ r <= n
  <2>1. "byteParts" \in PartNames /\ "rowParts" \in PartNames
    BY DEF PartNames
  <2>2. \A parts \in PartNames :
           /\ partsOf(F, parts) \in Nat /\ n \in Nat
           /\ partsOf(F, parts) <= n * Unit
    BY PartsBounded
  <2>3. \A parts \in PartNames :
           roundedUp(partsOf(F, parts)) \in Nat /\ roundedUp(partsOf(F, parts)) <= n
    <3> HIDE DEF n
    <3> QED BY <2>2, RoundedUp
  <2> QED BY <2>1, <2>2, <2>3
<1>3. exactBytesOf(F) = bytesOf(F) + b /\ exactRowsOf(F) = rowsOf(F) + r
  BY DEF exactBytesOf, exactRowsOf
<1> HIDE DEF n, b, r
<1>4. /\ exactBytesOf(F) \in Nat /\ exactRowsOf(F) \in Nat
      /\ bytesOf(F) <= exactBytesOf(F) /\ exactBytesOf(F) <= bytesOf(F) + n
      /\ rowsOf(F) <= exactRowsOf(F) /\ exactRowsOf(F) <= rowsOf(F) + n
  BY <1>1, <1>2, <1>3
<1> QED BY <1>1, <1>2, <1>4 DEF n

(* The scans of the two plans of the same estimates. *)
LEMMA ScansOfPlans ==
    ASSUME NEW E, NEW c
    PROVE  /\ planOf(E, c).scanBytes = bytesOf(E) /\ planOf(E, c).cpuCost = c
           /\ exactPlanOf(E, c).scanBytes = exactBytesOf(E) /\ exactPlanOf(E, c).cpuCost = c
           /\ \A s : s \in planOf(E, c).scans <=>
                 \E t \in scannedTables(E) :
                    s = [table |-> t, scanBytes |-> bytesOf(scansOf(E, t)),
                         rows |-> rowsOf(scansOf(E, t))]
           /\ \A s : s \in exactPlanOf(E, c).scans <=>
                 \E t \in scannedTables(E) :
                    s = [table |-> t, scanBytes |-> exactBytesOf(scansOf(E, t)),
                         rows |-> exactRowsOf(scansOf(E, t))]
BY DEF planOf, exactPlanOf

(* Dropping the fractions makes the verdict no stricter. *)
LEMMA DroppingLenient ==
    ASSUME NEW E, Estimates(E), NEW c \in Nat,
           NEW p, \A lim \in p.costLimits : isLimit(lim),
           evaluateLimits(p, exactPlanOf(E, c))
    PROVE  evaluateLimits(p, planOf(E, c))
<1> SUFFICES ASSUME NEW lim \in p.costLimits, breaches(planOf(E, c), lim)
             PROVE  breaches(exactPlanOf(E, c), lim)
  BY DEF evaluateLimits
<1>0. isLimit(lim)
  OBVIOUS
<1>1. \A F \in SUBSET E :
         /\ bytesOf(F) \in Nat /\ rowsOf(F) \in Nat
         /\ exactBytesOf(F) \in Nat /\ exactRowsOf(F) \in Nat
         /\ bytesOf(F) <= exactBytesOf(F) /\ rowsOf(F) <= exactRowsOf(F)
  BY ExactSums
<1>2. CASE exceeds(planOf(E, c).scanBytes, lim.maxScanBytesPerQuery)
  <2>1. E \in SUBSET E
    OBVIOUS
  <2>2. exceeds(exactPlanOf(E, c).scanBytes, lim.maxScanBytesPerQuery)
    BY <1>0, <1>1, <1>2, <2>1, ScansOfPlans DEF exceeds, isLimit
  <2> QED BY <2>2 DEF breaches
<1>3. CASE exceeds(planOf(E, c).cpuCost, lim.maxCPUCostPerQuery)
  <2>1. exceeds(exactPlanOf(E, c).cpuCost, lim.maxCPUCostPerQuery)
    BY <1>3, ScansOfPlans
  <2> QED BY <2>1 DEF breaches
<1>4. CASE /\ tableScoped(lim)
           /\ \E s \in planOf(E, c).scans :
                 /\ tableMatches(s.table, lim)
                 /\ exceeds(s.scanBytes, lim.maxScanBytes) \/ exceeds(s.rows, lim.maxRows)
  <2>1. PICK s \in planOf(E, c).scans :
           /\ tableMatches(s.table, lim)
           /\ exceeds(s.scanBytes, lim.maxScanBytes) \/ exceeds(s.rows, lim.maxRows)
    BY <1>4
  <2>2. PICK t \in scannedTables(E) :
           s = [table |-> t, scanBytes |-> bytesOf(scansOf(E, t)),
                rows |-> rowsOf(scansOf(E, t))]
    BY ScansOfPlans
  <2> DEFINE F == scansOf(E, t)
             u == [table |-> t, scanBytes |-> exactBytesOf(F), rows |-> exactRowsOf(F)]
  <2>3. u \in exactPlanOf(E, c).scans
    BY ScansOfPlans
  <2>4. F \in SUBSET E
    BY DEF scansOf
  <2>5. /\ u.table = t /\ u.scanBytes = exactBytesOf(F) /\ u.rows = exactRowsOf(F)
        /\ s.table = t /\ s.scanBytes = bytesOf(F) /\ s.rows = rowsOf(F)
    BY <2>2
  <2> HIDE DEF u, F
  <2>6. exceeds(u.scanBytes, lim.maxScanBytes) \/ exceeds(u.rows, lim.maxRows)
    BY <1>0, <1>1, <2>1, <2>4, <2>5 DEF exceeds, isLimit
  <2> QED BY <1>4, <2>1, <2>3, <2>5, <2>6 DEF breaches
<1> QED BY <1>2, <1>3, <1>4 DEF breaches

(* What is allowed without the fractions is allowed with them under limits *)
(* that are larger by the number of fractions dropped.                     *)
LEMMA DroppingBounded ==
    ASSUME NEW E, Estimates(E), NEW c \in Nat,
           NEW p, \A lim \in p.costLimits : isLimit(lim),
           evaluateLimits(p, planOf(E, c))
    PROVE  evaluateLimits(lenient(p, Cardinality(fractional(E))), exactPlanOf(E, c))
<1> DEFINE n == Cardinality(fractional(E))
           wider(lim) ==
               [catalog |-> lim.catalog, schema |-> lim.schema, table |-> lim.table,
                maxScanBytes |-> raised(lim.maxScanBytes, n),
                maxRows |-> raised(lim.maxRows, n),
                maxScanBytesPerQuery |-> raised(lim.maxScanBytesPerQuery, n),
                maxCPUCostPerQuery |-> lim.maxCPUCostPerQuery]
<1>a. lenient(p, n).costLimits = {wider(lim) : lim \in p.costLimits}
  BY DEF lenient
<1> SUFFICES ASSUME NEW lim \in p.costLimits, breaches(exactPlanOf(E, c), wider(lim))
             PROVE  breaches(planOf(E, c), lim)
  BY <1>a DEF evaluateLimits
<1> DEFINE w == wider(lim)
<1>0. isLimit(lim)
  OBVIOUS
<1>w. /\ w.catalog = lim.catalog /\ w.schema = lim.schema /\ w.table = lim.table
      /\ w.maxScanBytes = raised(lim.maxScanBytes, n) /\ w.maxRows = raised(lim.maxRows, n)
      /\ w.maxScanBytesPerQuery = raised(lim.maxScanBytesPerQuery, n)
      /\ w.maxCPUCostPerQuery = lim.maxCPUCostPerQuery
  OBVIOUS
<1>s. (tableScoped(w) <=> tableScoped(lim)) /\ \A t : tableMatches(t, w) <=> tableMatches(t, lim)
  BY <1>w DEF tableScoped, tableMatches
<1>b. breaches(exactPlanOf(E, c), w)
  OBVIOUS
<1> HIDE DEF w
<1>1. /\ n \in Nat
      /\ \A F \in SUBSET E :
            /\ bytesOf(F) \in Nat /\ rowsOf(F) \in Nat
            /\ exactBytesOf(F) \in Nat /\ exactRowsOf(F) \in Nat
            /\ exactBytesOf(F) <= bytesOf(F) + n /\ exactRowsOf(F) <= rowsOf(F) + n
  BY ExactSums
<1> HIDE DEF n
<1>x. \A a \in Nat, e \in Nat, l \in Nat : e <= a + n /\ exceeds(e, raised(l, n)) => exceeds(a, l)
  BY <1>1 DEF exceeds, raised
<1>2. CASE exceeds(exactPlanOf(E, c).scanBytes, w.maxScanBytesPerQuery)
  <2>1. E \in SUBSET E
    OBVIOUS
  <2>2. exceeds(planOf(E, c).scanBytes, lim.maxScanBytesPerQuery)
    BY <1>0, <1>1, <1>2, <1>w, <1>x, <2>1, ScansOfPlans DEF isLimit
  <2> QED BY <2>2 DEF breaches
<1>3. CASE exceeds(exactPlanOf(E, c).cpuCost, w.maxCPUCostPerQuery)
  <2>1. exceeds(planOf(E, c).cpuCost, lim.maxCPUCostPerQuery)
    BY <1>3, <1>w, ScansOfPlans
  <2> QED BY <2>1 DEF breaches
<1>4. CASE /\ tableScoped(w)
           /\ \E s \in exactPlanOf(E, c).scans :
                 /\ tableMatches(s.table, w)
                 /\ exceeds(s.scanBytes, w.maxScanBytes) \/ exceeds(s.rows, w.maxRows)
  <2>1. PICK s \in exactPlanOf(E, c).scans :
           /\ tableMatches(s.table, w)
           /\ exceeds(s.scanBytes, w.maxScanBytes) \/ exceeds(s.rows, w.maxRows)
    BY <1>4
  <2>2. PICK t \in scannedTables(E) :
           s = [table |-> t, scanBytes |-> exactBytesOf(scansOf(E, t)),
                rows |-> exactRowsOf(scansOf(E, t))]
    BY ScansOfPlans
  <2> DEFINE F == scansOf(E, t)
             u == [table |-> t, scanBytes |-> bytesOf(F), rows |-> rowsOf(F)]
  <2>3. u \in planOf(E, c).scans
    BY ScansOfPlans
  <2>4. F \in SUBSET E
    BY DEF scansOf
  <2>5. /\ u.table = t /\ u.scanBytes = bytesOf(F) /\ u.rows = rowsOf(F)
        /\ s.table = t /\ s.scanBytes = exactBytesOf(F) /\ s.rows = exactRowsOf(F)
    BY <2>2
  <2> HIDE DEF u, F
  <2>6. exceeds(u.scanBytes, lim.maxScanBytes) \/ exceeds(u.rows, lim.maxRows)
    BY <1>0, <1>1, <1>w, <1>x, <2>1, <2>4, <2>5 DEF isLimit
  <2>7. tableScoped(lim) /\ tableMatches(u.table, lim)
    BY <1>4, <1>s, <2>1, <2>5
  <2> QED BY <2>3, <2>6, <2>7 DEF breaches
<1> QED BY <1>2, <1>3, <1>4, <1>b DEF breaches

-----------------------------------------------------------------------------

(* The verdict on what is read, against the verdict on what was reported.  *)
LEMMA VerdictOnDocuments ==
    ASSUME NEW docs \in Seq(Cells), NEW p \in CostPolicies
    PROVE  LET n == Cardinality(fractional(estimatesOf(docs, DOMAIN docs)))
           IN  /\ evaluateLimits(p, reportedPlan(docs)) => evaluateLimits(p, readPlan(docs))
               /\ (\A d \in DOMAIN docs : readable(docs[d])) =>
                     (evaluateLimits(p, readPlan(docs)) =>
                         evaluateLimits(lenient(p, n), reportedPlan(docs)))
<1> DEFINE E == estimatesOf(docs, DOMAIN docs)
           F == estimatesOf(docs, counted(docs))
           U == cpuUnits(docs, withCost(docs))
           V == cpuUnits(docs, costed(docs))
           c == Cardinality(U)
           k == Cardinality(V)
<1>1. F \subseteq E /\ V \subseteq U /\ costed(docs) \subseteq withCost(docs)
  BY ReadPart
<1>2. Estimates(E)
  BY EstimatesFinite
<1>3. IsFiniteSet(U) /\ c \in Nat /\ k \in Nat
  BY <1>1, CpuFinite
<1>4. k <= c
  <2> HIDE DEF U, V
  <2> QED BY <1>1, <1>3, FS_Subset
<1>5. \A lim \in p.costLimits : isLimit(lim)
  BY VerdictAssumption
<1>6. reportedPlan(docs) = exactPlanOf(E, c) /\ readPlan(docs) = planOf(F, k)
  BY DEF reportedPlan, readPlan
<1>a. (\A d \in DOMAIN docs : readable(docs[d])) => F = E /\ k = c
  BY ReadAll
<1> HIDE DEF E, F, c, k
<1>7. evaluateLimits(p, exactPlanOf(E, c)) => evaluateLimits(p, planOf(F, k))
  BY <1>1, <1>2, <1>3, <1>4, <1>5, DroppingLenient, LimitsMonotone
<1>8. evaluateLimits(p, planOf(E, c)) =>
         evaluateLimits(lenient(p, Cardinality(fractional(E))), exactPlanOf(E, c))
  BY <1>2, <1>3, <1>5, DroppingBounded
<1>9. QED BY <1>6, <1>7, <1>8, <1>a DEF E

(* A plan is one of those of the documents reported. *)
PlanInv == result.kind = "plan" => result \in plansOf(reported)

LEMMA KindsApart == Pending.kind # "plan" /\ Failed.kind # "plan"
  BY DEF Pending, Failed

LEMMA PlanStep == TypeOK /\ ChainInv /\ PlanInv /\ [Next]_vars => PlanInv'
<1> SUFFICES ASSUME TypeOK, ChainInv, PlanInv, [Next]_vars, result'.kind = "plan"
             PROVE  result' \in plansOf(reported')
  BY DEF PlanInv
<1>0. pc # "done" => result = Pending
  BY DEF ChainInv
<1>1. CASE Read
  <2>1. result = Pending
    BY <1>0, <1>1 DEF Read
  <2>2. result' # Failed /\ result' # result
    BY <2>1, KindsApart
  <2>3. /\ ~badReply(reply) /\ result' \in plansOf(collected(reply.page))
        /\ reported' = reported
    BY <1>1, <2>2 DEF Read
  <2>4. reported = collected(reply.page)
    BY <1>1, <2>3 DEF Read, ChainInv
  <2>5. QED BY <2>3, <2>4
<1>2. CASE Abort
  BY <1>2, KindsApart DEF Abort
<1>3. CASE reported' = reported /\ result' = result
  BY <1>3 DEF PlanInv
<1>4. ASSUME NEW page \in Pages, Answer(page) PROVE FALSE
  BY <1>0, <1>4, KindsApart DEF Answer, Reply
<1>5. CASE Send \/ Expire \/ UNCHANGED vars
  <2>1. reported' = reported /\ result' = result
    BY <1>5 DEF Send, Expire, vars
  <2>2. QED BY <1>3, <2>1
<1>6. CASE \/ \E page \in Pages : Cut(page)
           \/ Refuse(SomePage)
           \/ \E status \in {0, 503} : Down(status, SomePage)
  <2>1. reported' = reported /\ result' = result
    BY <1>6 DEF Cut, Refuse, Down, Reply
  <2>2. QED BY <1>3, <2>1
<1>7. QED BY <1>1, <1>2, <1>4, <1>5, <1>6 DEF Next

(* Tier 2 decides on the estimates the coordinator reported, for any       *)
(* number of documents, pages, tables and limits: pages, maps, partial     *)
(* sums and the integer width leave no trace in the verdict as long as the *)
(* sums are int64 values.  It is never stricter than the exact estimates   *)
(* call for; on documents that can be read it is more lenient by at most   *)
(* one byte or row for each estimate whose fraction is dropped, so that    *)
(* for whole estimates it is exact.                                        *)
THEOREM VerdictCorrect == Spec => []VerdictExact
<1>1. Init => PlanInv
  BY KindsApart DEF Init, PlanInv
<1>2. Spec => []PlanInv
  BY <1>1, PlanStep, TypeCorrect, ChainCorrect, PTL DEF Spec
<1>3. TypeOK /\ PlanInv => VerdictExact
  <2> SUFFICES ASSUME TypeOK, PlanInv, result.kind = "plan", fits(reported),
                      NEW p \in CostPolicies
               PROVE  LET n == Cardinality(fractional(estimatesOf(reported, DOMAIN reported)))
                      IN  /\ evaluateLimits(p, reportedPlan(reported)) =>
                                 evaluateLimits(p, result.plan)
                          /\ (\A d \in DOMAIN reported : readable(reported[d])) =>
                                (evaluateLimits(p, result.plan) =>
                                   evaluateLimits(lenient(p, n), reportedPlan(reported)))
    BY DEF VerdictExact
  <2>1. reported \in Seq(Cells)
    BY DEF TypeOK
  <2>2. PICK beyond : result = Planned(parsePlanCells(reported, beyond))
    BY DEF PlanInv, plansOf
  <2>3. parsePlanCells(reported, beyond) = readPlan(reported)
    BY <2>1, PlanExact
  <2>4. result.plan = readPlan(reported)
    BY <2>2, <2>3 DEF Planned
  <2>5. QED BY <2>1, <2>4, VerdictOnDocuments
<1>4. QED BY <1>2, <1>3, TypeCorrect, PTL
==============================================================================
