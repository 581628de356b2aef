---------------------------- MODULE MCPreflight -----------------------------
(***************************************************************************)
(* An instance of Preflight.tla for TLC, with the verdict that Tier 2      *)
(* reaches on the plan (Verdict.tla).                                      *)
(***************************************************************************)
EXTENDS Verdict

(* Numbers in halves. *)
Halves(n) == [whole |-> n \div 2, frac |-> n % 2]

Info(table, bytes, rows) ==
    [catalog |-> "hive", schema |-> "s", table |-> table, bytes |-> Halves(2 * bytes),
     rows |-> Halves(2 * rows)]

(* Two documents with estimates for the same table, so that only their sum *)
(* breaks a limit, and one whose estimate is no int64.                     *)
Small == [kind |-> "io", cpuCost |-> 1, infos |-> <<Info("a", 3, 2), Info("b", 1, 1)>>]
Again == [kind |-> "io", cpuCost |-> 2, infos |-> <<Info("a", 2, 1), Info("a", 1, 1)>>]
Vast  == [kind |-> "io", cpuCost |-> 0, infos |-> <<Info("b", 9, 1)>>]
(* Two and a half bytes, twice: together they are five. *)
Half  == [kind |-> "io", cpuCost |-> 0,
          infos |-> <<[Info("a", 2, 1) EXCEPT !.bytes = Halves(5)]>>]
NaN   == [Small EXCEPT !.kind = "nan"]
Empty == [kind |-> "io", cpuCost |-> 3, infos |-> <<>>]
Junk  == [kind |-> "invalid"]

Node(scan, table, halves, rows) ==
    [scan |-> scan, table |-> table, keyBytes |-> Halves(halves), keyRows |-> Halves(0),
     detailBytes |-> 0, detailRows |-> rows]

(* A scan under an operator with an estimate of its own, of a byte and a   *)
(* half.                                                                   *)
Tree == [kind |-> "tree", rooted |-> TRUE,
         nodes |-> <<Node(FALSE, <<>>, 3, 1), Node(TRUE, <<"s", "a">>, 4, 3)>>]
Bare == [Tree EXCEPT !.rooted = FALSE]

MCCells == {Small, Again, Half, Vast, NaN, Empty, Junk, Tree, Bare}

Page(rows, state, error, more) ==
    [rows |-> rows, state |-> state, error |-> error, more |-> more]

MCPages ==
    {Page(rows, state, FALSE, more) :
        rows \in {<<>>, <<NoCell, Small>>} \union {<<c>> : c \in MCCells},
        state \in {"RUNNING", "FINISHED"}, more \in BOOLEAN}
    \union {Page(rows, "FAILED", error, FALSE) :
               rows \in {<<>>, <<Small>>}, error \in BOOLEAN}
    \union {Page(<<Small>>, "RUNNING", TRUE, TRUE)}

MCClientHeaders ==
    {{"authorization", "x-trino-user"},
     {"authorization", "x-trino-user", "x-forwarded-for", "accept-encoding"},
     {"x-trino-user"}}

NoLimit == [catalog |-> "", schema |-> "", table |-> "", maxScanBytes |-> 0,
            maxRows |-> 0, maxScanBytesPerQuery |-> 0, maxCPUCostPerQuery |-> 0]

LimitPolicies ==
    {[costLimits |-> {lim}] : lim \in
        {[NoLimit EXCEPT !.maxScanBytesPerQuery = 5],
         [NoLimit EXCEPT !.maxCPUCostPerQuery = 2],
         [NoLimit EXCEPT !.schema = "s", !.table = "a", !.maxScanBytes = 4],
         [NoLimit EXCEPT !.table = "a", !.maxRows = 3]}}
=============================================================================
