-------------------------------- MODULE Tier1 --------------------------------
(***************************************************************************)
(* Tier 1, the static checks of internal/proxy/handler.go.  A statement is *)
(* seen through its parser.AnalysisResult (Analysis.tla), a record with    *)
(*   class      the statement class,                                       *)
(*   tables     the dotted names the token scanner found (sequences),      *)
(*   refs       the WHERE/ON column references [table, column], table = "" *)
(*              for an unqualified one,                                    *)
(*   aliases    a function from table aliases to bare table names,         *)
(*   functions  the function names called,                                 *)
(*   selectAll  whether some projection is a star.                         *)
(***************************************************************************)
EXTENDS Names

(* A dot-free entry matches the trailing component of a table; a qualified *)
(* entry must match the whole name.                                        *)
tableBlocklisted(table, entry) ==
    \/ EqualFoldName(table, entry)
    \/ Len(entry) = 1 /\ EqualFold(lastComponent(table), entry[1])

(* Strict scoping: schema and table must both be written in the reference, *)
(* the catalog too when the entry names one.                               *)
requiredFilterMatches(table, rf) ==
    LET n == Len(table)
    IN  /\ n >= 2
        /\ EqualFold(table[n], rf.table)
        /\ EqualFold(table[n - 1], rf.schema)
        /\ rf.catalog # "" => n >= 3 /\ EqualFold(table[n - 2], rf.catalog)

requiredFilterMode(rf) == IF rf.mode = "any-of" THEN "any-of" ELSE "all-of"

(* What a qualifier stands for: the alias map is looked up as written,     *)
(* with no case folding.                                                   *)
resolved(res, qualifier) ==
    IF qualifier \in DOMAIN res.aliases THEN res.aliases[qualifier]
    ELSE qualifier

(* Mutant: a column counts whichever table it is written against. *)
tableHasFilter_AnyTable(res, table, column) ==
    \E ref \in res.refs : EqualFold(ref.column, column)

(* A qualifier is a single component, so it equals the guarded table's     *)
(* full name only when that name is bare.                                  *)
tableHasFilter(res, table, column) ==
    \E ref \in res.refs :
        /\ EqualFold(ref.column, column)
        /\ \/ ref.table = ""
           \/ EqualFold(resolved(res, ref.table), lastComponent(table))

missingRequiredColumns(res, table, rf) ==
    LET missing == {c \in rf.columns : ~tableHasFilter(res, table, c)}
    IN  IF requiredFilterMode(rf) = "any-of" /\ missing # rf.columns
        THEN {}
        ELSE missing

statementBlocked(p, res) ==
    \E blocked \in p.statementBlocklist : EqualFold(blocked, res.class)

tableBlocked(p, res) ==
    \E bad \in p.tableBlocklist : \E t \in res.tables : tableBlocklisted(t, bad)

functionBlocked(p, res) ==
    \E fn \in res.functions : \E bad \in p.functionBlocklist : EqualFold(fn, bad)

selectStarBlocked(p, res) ==
    /\ res.selectAll
    /\ \E bad \in p.selectStarBlockedTables :
          \E t \in res.tables : tableBlocklisted(t, bad)

requiredFilterMissing(p, res) ==
    \E rf \in p.requiredFilters : \E t \in res.tables :
        /\ requiredFilterMatches(t, rf)
        /\ missingRequiredColumns(res, t, rf) # {}

Tier1Reasons == {"STATEMENT_BLOCKLIST", "TABLE_BLOCKLIST",
                 "FUNCTION_BLOCKLIST", "SELECT_STAR_BLOCKED",
                 "REQUIRED_FILTER_MISSING"}

(* The verdict of Handler.tier1: the first category that is broken, in the *)
(* order of the code, or "ALLOW".                                          *)
tier1(p, res) ==
    IF statementBlocked(p, res) THEN "STATEMENT_BLOCKLIST"
    ELSE IF tableBlocked(p, res) THEN "TABLE_BLOCKLIST"
    ELSE IF functionBlocked(p, res) THEN "FUNCTION_BLOCKLIST"
    ELSE IF selectStarBlocked(p, res) THEN "SELECT_STAR_BLOCKED"
    ELSE IF requiredFilterMissing(p, res) THEN "REQUIRED_FILTER_MISSING"
    ELSE "ALLOW"
=============================================================================
