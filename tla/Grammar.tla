------------------------------- MODULE Grammar -------------------------------
(***************************************************************************)
(* The statements a client may send, and what the analyser and Tier 1 owe  *)
(* them.  A behaviour derives a statement from the bottom up: an action    *)
(* applies one production of the grammar to nodes built before, the last   *)
(* one issues a statement.  Every statement over the given names has such  *)
(* a derivation; the bounds are there for TLC.                             *)
(***************************************************************************)
EXTENDS Parser, Tier1

CONSTANTS Columns,       \* columns as written, with or without a qualifier
          Functions,     \* names of functions that are called
          Named,         \* items of FROM: the name of a table or CTE, and its alias
          Targets,       \* tables that statements change
          Aliases,       \* aliases of derived tables; "" is none
          CTENames,      \* names that a WITH clause defines
          Layouts,       \* dialects of a statement and beginnings of its text
          Entries,       \* table entries of policies
          Filters,       \* required filters of policies
          MaxBuilt,      \* nodes kept for later productions
          MaxSteps,      \* productions of a derivation
          MaxExpr,       \* lexemes of an expression that is not a subquery
          MaxClauses     \* optional clauses of one SELECT

VARIABLES built,         \* the nodes that are ready for use
          issued,        \* the statement, once it is complete
          result,        \* its AnalysisResult
          steps          \* number of productions applied

vars == <<built, issued, result, steps>>

(* A name that is written into a statement: never a mark. *)
Plain == Ident \ Marks

Dotted == Seq(Ident) \ ({<<>>} \union {<<m>> : m \in Marks})

RequiredFilter == [catalog : Ident \union {""}, schema : Ident, table : Ident,
                   mode : {"any-of", "all-of", ""}, columns : SUBSET Ident]

Layout == [mysql : BOOLEAN, commented : BOOLEAN, glued : BOOLEAN]

ASSUME NamesAssumption ==
    /\ "" \notin Ident
    /\ \A c \in Columns : c \in Dotted
    /\ \A t \in Named : t[1] \in Dotted /\ t[2] \in Plain \union {""}
    /\ \A t \in Targets : t \in Dotted
    /\ Functions \subseteq Plain /\ CTENames \subseteq Plain
    /\ Aliases \subseteq Plain \union {""}
    /\ Layouts \subseteq Layout

ASSUME RulesAssumption ==
    /\ \A e \in Entries : e \in Dotted
    /\ \A rf \in Filters : rf \in RequiredFilter

-----------------------------------------------------------------------------
ExprKinds == {"col", "literal", "func", "op", "opaque", "subquery"}
TableKinds == {"table", "derived", "join", "paren"}

of(kinds) == {n \in built : n.kind \in kinds}

Leaves == {Expr(Col(c)) : c \in Columns} \union {Expr(Literal)}
NamedTables == {TableExpr(TableName(t[1], t[2])) : t \in Named}

exprs == of(ExprKinds) \union Leaves
lists == exprs \union of({"exprs"})
items == of(TableKinds) \union NamedTables
froms == items \union of({"tables"})
queries == of({"select", "union"})
withs == of({"with"}) \union {NoWith}
(* A predicate is never just a leaf. *)
predicates == of(ExprKinds) \union {NoExpr}

-----------------------------------------------------------------------------
(* Productions.                                                            *)

Init == built = {} /\ issued = {} /\ result = <<>> /\ steps = 0

(* Only the operands may be given up; a production is left for Issue. *)
Build(n, operands) ==
    /\ steps' = steps + 1 /\ steps' < MaxSteps /\ UNCHANGED <<issued, result>>
    /\ \E rest \in SUBSET built :
          /\ built \ operands \subseteq rest /\ Cardinality(rest) < MaxBuilt
          /\ built' = rest \union {n}

BuildExpr(e, operands) == Len(exprText(e)) <= MaxExpr /\ Build(Expr(e), operands)

Call(f, args) == BuildExpr(FuncExpr(f, args), {args})
Operate(left, right) == BuildExpr(Operator(left, right), {left, right})
Hide(e) == BuildExpr(Opaque(e), {e})
ListExprs(left, e) == BuildExpr(ExprList(left, e), {left, e})
Nest(q) == Build(Expr(Subquery(q)), {q})

Derive(q, as) == Build(TableExpr(DerivedTable(q, as)), {q})
(* A join without a condition is a CROSS JOIN. *)
JoinWords(on) == IF absent(on) THEN {Word("CROSS")} ELSE {<<>>, Word("LEFT") \o Word("OUTER")}
Join(left, right, on) ==
    \E words \in JoinWords(on) :
        Build(TableExpr(JoinTableExpr(words, left, right, on)), {left, right, on})
Parenthesise(te) == Build(TableExpr(ParenTableExpr(te)), {te})
Comma(left, te) == Build(TableExpr(TableList(left, te)), {left, te})

DefineCTE(with, name, q) == Build(With(CTE(with, name, q)), {with, q})
clauses(with, star, projection, where) ==
    {c \in {"with", "star", "projection", "where"} :
        CASE c = "with"       -> ~absent(with)
          [] c = "star"       -> star
          [] c = "projection" -> projection # Expr(Literal) /\ ~absent(projection)
          [] c = "where"      -> ~absent(where)}
MakeSelect(with, star, projection, from, where) ==
    /\ absent(projection) => star
    /\ Cardinality(clauses(with, star, projection, where)) <= MaxClauses
    /\ Build(Query(Select(with, star, projection, from, where)),
             {with, projection, from, where})
Unite(left, right) == Build(Query(Union(left, right)), {left, right})

(* Nothing is left over. *)
Issue(verb, with, target, query, where) ==
    /\ steps' = steps + 1 /\ steps' <= MaxSteps
    /\ built \subseteq {with, query, where} /\ built' = {}
    /\ \E layout \in Layouts :
          LET s == Statement(verb, with, target, query, where, layout)
          IN  issued' = {s} /\ result' = Analyze(analysed(s))

IssueQuery(q) == Issue("SELECT", NoWith, <<>>, q, NoExpr)
Insert(t, q) == Issue("INSERT", NoWith, t, q, NoExpr)
CreateAs(t, q) == Issue("CREATE", NoWith, t, q, NoExpr)
Delete(with, t, where) == Issue("DELETE", with, t, NoQuery, where)
Update(t, where) == Issue("UPDATE", NoWith, t, NoQuery, where)
Drop(t) == Issue("DROP", NoWith, t, NoQuery, NoExpr)

(* A derivation ends with the statement it issues. *)
Next ==
    /\ issued = {}
    /\ \/ \E f \in Functions, args \in lists \union {NoExpr} : Call(f, args)
       \/ \E left, right \in exprs : Operate(left, right)
       \/ \E e \in exprs : Hide(e)
       \/ \E left \in lists, e \in exprs : ListExprs(left, e)
       \/ \E left, right \in items, on \in predicates : Join(left, right, on)
       \/ \E te \in items : Parenthesise(te)
       \/ \E left \in froms, te \in items : Comma(left, te)
       \/ \E with \in withs, star \in BOOLEAN, projection \in lists \union {NoExpr},
             from \in froms, where \in predicates :
                MakeSelect(with, star, projection, from, where)
       \/ \E q \in queries :
             \/ Nest(q)
             \/ \E as \in Aliases : Derive(q, as)
             \/ \E with \in withs, name \in CTENames : DefineCTE(with, name, q)
             \/ \E right \in queries : Unite(q, right)
             \/ IssueQuery(q)
             \/ \E t \in Targets : Insert(t, q) \/ CreateAs(t, q)
       \/ \E t \in Targets :
             \/ \E with \in withs, where \in predicates : Delete(with, t, where)
             \/ \E where \in predicates : Update(t, where)
             \/ Drop(t)

Spec == Init /\ [][Next]_vars

-----------------------------------------------------------------------------
NoRules == [tableBlocklist |-> {}, requiredFilters |-> {}, statementBlocklist |-> {},
            functionBlocklist |-> {}, selectStarBlockedTables |-> {}]

verdict(p) == tier1(p, result)

usesFor(s, what) == {u \in usesOf(s) : u.what = what}

(* A statement whose WITH clauses define no name that is itself a verb. *)
NoVerbNames(s) == \A u \in usesFor(s, "cte") : Lower[u.name[1]] \notin Verbs

(* Qualified tables written right after FROM or JOIN, or that the          *)
(* statement changes, at any depth; not the later items of a               *)
(* comma-separated list, nor the first one inside parentheses.             *)
leadingIn(uses) ==
    {u.name : u \in {v \in uses : /\ v.what = "table" /\ "unintroduced" \notin v.path
                                  /\ Len(v.name) >= 2}}

leading(s) == leadingIn(usesOf(s))

(* The class is that of the outermost verb: neither a leading comment, a   *)
(* WITH clause, nor the statements nested in it are taken for it.          *)
ClassIsOutermost ==
    \A s \in issued :
        NoVerbNames(s) /\ ~s.glued => result.class = s.verb

(* A blocked table in a leading position is found and rejected, however    *)
(* deep it is nested, under any alias, next to CTEs of the same name, and  *)
(* whether or not vitess parses the statement.                             *)
BlockedTableRejected ==
    \A s \in issued : \A entry \in Entries :
        NoVerbNames(s) /\ (\E t \in leading(s) : tableBlocklisted(t, entry))
        => verdict([NoRules EXCEPT !.tableBlocklist = {entry}]) = "TABLE_BLOCKLIST"

Requiring(rf) == [NoRules EXCEPT !.requiredFilters = {rf}]

guarded(s, rf) == \E t \in leading(s) : requiredFilterMatches(t, rf)

(* The references to column c in the predicates of s, anywhere in it. *)
mentions(s, c) == {u \in usesFor(s, "filter") : EqualFold(lastComponent(u.name), c)}

(* A guarded table passes only when the predicates of the statement name   *)
(* its columns (one of them, with mode any-of): neither a projection, a    *)
(* CTE nor a statement that cannot be parsed gets round the filter.        *)
FilterEnforced ==
    \A s \in issued : \A rf \in Filters :
        /\ NoVerbNames(s) /\ guarded(s, rf)
        /\ IF rf.mode = "any-of"
           THEN rf.columns # {} /\ \A c \in rf.columns : mentions(s, c) = {}
           ELSE \E c \in rf.columns : mentions(s, c) = {}
        => verdict(Requiring(rf)) = "REQUIRED_FILTER_MISSING"

(* A predicate on another table does not count: with every reference to    *)
(* the column qualified, one of the qualifiers is the guarded table's name *)
(* or an alias of it somewhere in the statement.  Tables are told apart by *)
(* their bare names only, so those of one statement have to differ.        *)
FilterAttributed ==
    \A s \in issued : \A rf \in Filters : \A c \in rf.columns :
        /\ NoVerbNames(s) /\ guarded(s, rf) /\ rf.mode # "any-of"
        /\ \A v \in usesFor(s, "table") :
              EqualFold(lastComponent(v.name), rf.table) => requiredFilterMatches(v.name, rf)
        /\ \A u \in mentions(s, c) : Len(u.name) >= 2
        /\ verdict(Requiring(rf)) = "ALLOW"
        => \E u \in mentions(s, c) :
              LET qualifier == u.name[Len(u.name) - 1]
              IN  \/ EqualFold(qualifier, rf.table)
                  \/ \E v \in usesFor(s, "table") :
                        v.as = qualifier /\ requiredFilterMatches(v.name, rf)

-----------------------------------------------------------------------------
(* The constructs that the walk does not enter: CASE and the like,         *)
(* subqueries in expressions, UNIONs, derived tables inside joins and      *)
(* parentheses, the query of a CREATE and the WITH of a DELETE.  For       *)
(* functions also ON clauses, and the WHERE of UPDATE and DELETE.          *)
Blind == {"opaque", "subquery", "union", "joined", "created", "prefix"}
BlindForCalls == Blind \union {"on", "change"}

outside(uses, constructs) == {u \in uses : u.path \intersect constructs = {}}

callsIn(uses) == {Lower[u.name[1]] : u \in {v \in uses : v.what = "call"}}
calls(uses) == callsIn(outside(uses, BlindForCalls))

refsOf(uses, what) == {WhereRef(u.name) : u \in {v \in uses : v.what = what}}
refsIn(uses, what) == refsOf(outside(uses, Blind), what)

hasStar(uses) == \E u \in outside(uses, BlindForCalls) : u.what = "star"

Between(least, found, most) == least \subseteq found /\ found \subseteq most

(* Outside these constructs the walk misses no call, no column reference   *)
(* of a WHERE or ON clause and no star of a projection, however the        *)
(* results of its passes are merged; and it makes none up.  Whether it     *)
(* also finds some of those inside is left open (CallsComplete).           *)
WalkSound ==
    \A s \in issued :
        NoVerbNames(s) /\ parses(s) =>
           /\ Between(calls(usesOf(s)), result.functions, callsIn(usesOf(s)))
           /\ Between(refsIn(usesOf(s), "filter"), result.refs, refsOf(usesOf(s), "filter"))
           /\ hasStar(usesOf(s)) => result.selectAll
           /\ result.selectAll => usesFor(s, "star") # {}

(* A blocked function, or a star over a table that forbids it, is found    *)
(* outside these constructs, in any letter case, in every statement whose  *)
(* syntax vitess shares: names of three components do not get in its way.  *)
VisibleUseRejected ==
    \A s \in issued :
        NoVerbNames(s) /\ s.mysql /\ (\A u \in usesOf(s) : Len(u.name) <= 3) =>
        /\ \A f \in Functions : Lower[f] \in calls(usesOf(s)) =>
              verdict([NoRules EXCEPT !.functionBlocklist = {f}]) = "FUNCTION_BLOCKLIST"
        /\ \A entry \in Entries :
              hasStar(usesOf(s)) /\ (\E t \in leading(s) : tableBlocklisted(t, entry)) =>
              verdict([NoRules EXCEPT !.selectStarBlockedTables = {entry}])
                 = "SELECT_STAR_BLOCKED"

(* ast.go: "Tables is the set of physical table names referenced". *)
TablesComplete ==
    \A s \in issued : \A u \in usesFor(s, "table") :
        Len(u.name) >= 2 => u.name \in result.tables

(* ast.go: "Functions lists function/UDF names (lowercased) appearing in   *)
(* the SELECT projections or WHERE/ON clauses, including inside CTEs and   *)
(* subqueries."                                                            *)
CallsComplete ==
    \A s \in issued : parses(s) => callsIn(usesOf(s)) \subseteq result.functions
==============================================================================
