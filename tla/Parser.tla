------------------------------- MODULE Parser --------------------------------
(***************************************************************************)
(* The statement analyser of internal/parser beyond the token scan of      *)
(* Scanner.tla: normalize.go and the walk of ast.go.  analysed(s) is what  *)
(* the modules Analysis and Tier1 work on, so that their definitions apply *)
(* to a statement of Sql.tla from its text to its verdict.                 *)
(*                                                                         *)
(* A function of ast.go is an operator on a node; where the code calls     *)
(* itself on a child, the operator takes the attribute of the child.  The  *)
(* nodes that stand for the lists of vitess do what the loops over these   *)
(* lists do.                                                               *)
(***************************************************************************)
EXTENDS Sql

-----------------------------------------------------------------------------
(* normalize.go and vitess                                                 *)

(* Mutant: the catalog is only stripped from names of four components. *)
normalizeForVitess_Late(name) == IF Len(name) >= 4 THEN Tail(name) ELSE name

(* A name of three components or more loses the first. *)
normalizeForVitess(name) == IF Len(name) >= 3 THEN Tail(name) ELSE name

(* sqlparser.Parse accepts at most schema.table and schema.table.column. *)
parses(s) ==
    /\ s.mysql
    /\ \A u \in usesOf(s) :
          Len(normalizeForVitess(u.name)) <= IF u.what = "table" THEN 2 ELSE 3

-----------------------------------------------------------------------------
(* Expressions.                                                            *)

WhereRef(name) ==
    [table  |-> IF Len(name) = 1 THEN "" ELSE name[Len(name) - 1],
     column |-> lastComponent(name)]

collectFunctionsFromExpr(e) ==
    CASE e.kind = "func"            -> {Lower[e.name]} \union e.args.functions
      [] e.kind \in {"op", "exprs"} -> e.left.functions \union e.right.functions
      [] OTHER                      -> {}

(* Mutant: the arguments of a function are not looked into. *)
extractColumnsFromExpr_Shallow(e) ==
    CASE e.kind = "col"             -> {WhereRef(e.name)}
      [] e.kind \in {"op", "exprs"} -> e.left.columns \union e.right.columns
      [] OTHER                      -> {}

extractColumnsFromExpr(e) ==
    CASE e.kind = "col"             -> {WhereRef(e.name)}
      [] e.kind = "func"            -> e.args.columns
      [] e.kind \in {"op", "exprs"} -> e.left.columns \union e.right.columns
      [] OTHER                      -> {}

Expr(e) ==
    [kind |-> e.kind, text |-> exprText(e), uses |-> exprUses(e),
     columns |-> extractColumnsFromExpr(e), functions |-> collectFunctionsFromExpr(e)]

NoExpr == [kind |-> "none", text |-> <<>>, uses |-> {}, columns |-> {}, functions |-> {}]

-----------------------------------------------------------------------------
(* What a walk adds to the result.                                         *)

NoResult == [refs |-> {}, aliases |-> <<>>, functions |-> {}, selectAll |-> FALSE]

(* A later alias replaces an earlier one of the same name. *)
replacing(old, new) ==
    [a \in DOMAIN old \union DOMAIN new |-> IF a \in DOMAIN new THEN new[a] ELSE old[a]]

(* One walk after another. *)
followedBy(a, b) ==
    [refs |-> a.refs \union b.refs, aliases |-> replacing(a.aliases, b.aliases),
     functions |-> a.functions \union b.functions, selectAll |-> a.selectAll \/ b.selectAll]

-----------------------------------------------------------------------------
(* Table expressions.                                                      *)

collectTableAliases(te) ==
    CASE te.kind = "table" /\ te.as # "" ->
             [a \in {te.as} |-> lastComponent(normalizeForVitess(te.name))]
      [] te.kind \in {"join", "tables"} -> replacing(te.left.aliases, te.right.aliases)
      [] te.kind = "paren" -> te.inner.aliases
      [] OTHER -> <<>>

extractOnClauseColumns(te) ==
    CASE te.kind = "join"   -> te.on.columns \union te.left.columns \union te.right.columns
      [] te.kind = "tables" -> te.left.columns \union te.right.columns
      [] te.kind = "paren"  -> te.inner.columns
      [] OTHER              -> {}

(* Into the items of FROM that are themselves derived tables; one inside a *)
(* join or parentheses is not looked into.                                 *)
derivedWalk(te) ==
    CASE te.kind = "derived" -> te.query.walk
      [] te.kind = "tables"  -> followedBy(te.left.derived, te.right.derived)
      [] OTHER               -> NoResult

derivedCTEs(te) ==
    CASE te.kind = "derived" -> te.query.ctes
      [] te.kind = "tables"  -> te.left.ctes \union te.right.ctes
      [] OTHER               -> {}

TableExpr(te) ==
    [kind |-> te.kind, text |-> tableText(te), first |-> firstTable(te),
     uses |-> tableUses(te), aliases |-> collectTableAliases(te),
     columns |-> extractOnClauseColumns(te), derived |-> derivedWalk(te),
     ctes |-> derivedCTEs(te)]

-----------------------------------------------------------------------------
(* Queries.  A UNION is walked nowhere: the code asks for a plain Select.  *)

With(w) ==
    [kind |-> "with", text |-> withText(w), uses |-> withUses(w),
     walk |-> followedBy(w.with.walk, w.query.walk),
     ctes |-> w.with.ctes \union {w.name} \union w.query.ctes]

NoWith == [kind |-> "none", text |-> <<>>, uses |-> {}, walk |-> NoResult, ctes |-> {}]

collectCTEAliases(q) == IF isSelect(q) THEN q.with.ctes \union q.from.ctes ELSE {}

collectFunctionsAndStars(sel) ==
    [refs |-> {}, aliases |-> <<>>, selectAll |-> sel.star,
     functions |-> sel.exprs.functions \union sel.where.functions]

(* The CTEs, the clauses of sel itself, the derived tables of its FROM.    *)
analyzeSelect(sel) ==
    LET own == [refs |-> sel.where.columns \union sel.from.columns,
                aliases |-> sel.from.aliases, functions |-> {}, selectAll |-> FALSE]
    IN  followedBy(followedBy(followedBy(sel.with.walk, own), sel.from.derived),
                   collectFunctionsAndStars(sel))

Query(q) ==
    [kind |-> q.kind, text |-> queryText(q), uses |-> queryUses(q),
     walk |-> IF isSelect(q) THEN analyzeSelect(q) ELSE NoResult,
     ctes |-> collectCTEAliases(q)]

NoQuery == [kind |-> "none", text |-> <<>>, uses |-> {}, walk |-> NoResult, ctes |-> {}]

-----------------------------------------------------------------------------
(* The type switch of Analyze: SELECT and the query of an INSERT are       *)
(* walked; UPDATE and DELETE give their WHERE; a CREATE ... AS and other   *)
(* DDL give nothing.                                                       *)
walked(s) ==
    CASE s.verb \in {"SELECT", "INSERT"} -> s.query.walk
      [] s.verb \in {"UPDATE", "DELETE"} ->
             [refs |-> s.where.columns, aliases |-> <<>>, functions |-> {},
              selectAll |-> FALSE]
      [] OTHER -> NoResult

aliasesOf(s) == IF s.verb \in {"SELECT", "INSERT"} THEN s.query.ctes ELSE {}

(* The statement in the form that Analysis.Analyze takes. *)
analysed(s) ==
    [class |-> Classify(Text(s)), parses |-> parses(s),
     scanned |-> extractTableNamesRaw(tokenizeRaw(Text(s))),
     ctes |-> aliasesOf(s), refs |-> walked(s).refs, aliases |-> walked(s).aliases,
     functions |-> walked(s).functions, selectAll |-> walked(s).selectAll]
==============================================================================
