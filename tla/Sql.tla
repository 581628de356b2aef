--------------------------------- MODULE Sql ---------------------------------
(***************************************************************************)
(* SQL statements, as the analyser of internal/parser meets them: twice.   *)
(* tokenizeRaw sees their text, and the walk of ast.go the tree that       *)
(* vitess builds from it.                                                  *)
(*                                                                         *)
(* Instead of recursive functions over trees, every node of a tree carries *)
(* its attributes, computed from those of its children: here its text and  *)
(* its uses, in Parser.tla what the walk collects in it.                   *)
(*                                                                         *)
(* A dotted name is one lexeme, a sequence of components; so is every      *)
(* keyword and punctuation mark, of length 1.  Quoted identifiers, and the *)
(* uses of FROM inside function calls or after IS DISTINCT, are left out.  *)
(***************************************************************************)
EXTENDS Scanner

(* The keywords and marks that are written into a text. *)
Marks == {" ", "--", "(", ")"}

Words ==
    Marks \union
    {"'", ",", "=", "*", "x", "AS", "CASE", "END", "ON", "WITH", "WHERE", "SELECT", "FROM",
     "UNION", "INSERT", "INTO", "CREATE", "TABLE", "DELETE", "UPDATE", "SET",
     "DROP", "JOIN", "LEFT", "OUTER", "CROSS"}

(* They are identifiers like others, and their own folded forms. *)
ASSUME WordsAssumption == Words \subseteq Ident /\ \A w \in Words : Lower[w] = w

-----------------------------------------------------------------------------
(* The node types of vitess that ast.go tells apart.  The lists of vitess  *)
(* (arguments, projections, items of FROM, CTEs) are nodes too.            *)

Col(name) == [kind |-> "col", name |-> name]   \* qualifier and column
Literal == [kind |-> "literal"]
FuncExpr(name, args) == [kind |-> "func", name |-> name, args |-> args]
(* =, <, AND, OR, NOT, IS, BETWEEN, arithmetic: the walk enters them.      *)
Operator(left, right) == [kind |-> "op", left |-> left, right |-> right]
(* CASE, CAST, value lists: the walk stops at them.                        *)
Opaque(arg) == [kind |-> "opaque", arg |-> arg]
Subquery(q) == [kind |-> "subquery", query |-> q]
ExprList(left, right) == [kind |-> "exprs", left |-> left, right |-> right]

TableName(name, as) == [kind |-> "table", name |-> name, as |-> as]
DerivedTable(q, as) == [kind |-> "derived", query |-> q, as |-> as]
JoinTableExpr(words, left, right, on) ==
    [kind |-> "join", words |-> words, left |-> left, right |-> right, on |-> on]
ParenTableExpr(te) == [kind |-> "paren", inner |-> te]
TableList(left, right) == [kind |-> "tables", left |-> left, right |-> right]

CTE(with, name, q) == [kind |-> "with", with |-> with, name |-> name, query |-> q]
Select(with, star, exprs, from, where) ==
    [kind |-> "select", with |-> with, star |-> star, exprs |-> exprs, from |-> from,
     where |-> where]
Union(left, right) == [kind |-> "union", left |-> left, right |-> right]

isSelect(q) == q.kind = "select"

(* An optional clause that is not there. *)
absent(n) == n.kind = "none"

-----------------------------------------------------------------------------
(* The text of a node, as a sequence of lexemes.                           *)

Word(w) == <<<<w>>>>

Parens(text) == Word("(") \o text \o Word(")")

As(as) == IF as = "" THEN <<>> ELSE Word("AS") \o Word(as)

exprText(e) ==
    CASE e.kind = "col"      -> <<e.name>>
      [] e.kind = "literal"  -> Word("'")
      [] e.kind = "func"     -> Word(e.name) \o Parens(e.args.text)
      [] e.kind = "op"       -> e.left.text \o Word("=") \o e.right.text
      [] e.kind = "exprs"    -> e.left.text \o Word(",") \o e.right.text
      [] e.kind = "opaque"   -> Word("CASE") \o e.arg.text \o Word("END")
      [] e.kind = "subquery" -> Parens(e.query.text)

onText(on) == IF absent(on) THEN <<>> ELSE Word("ON") \o on.text

tableText(te) ==
    CASE te.kind = "table"   -> <<te.name>> \o As(te.as)
      [] te.kind = "derived" -> Parens(te.query.text) \o As(te.as)
      [] te.kind = "join"    -> te.left.text \o te.words \o Word("JOIN") \o te.right.text
                                \o onText(te.on)
      [] te.kind = "paren"   -> Parens(te.inner.text)
      [] te.kind = "tables"  -> te.left.text \o Word(",") \o te.right.text

withText(w) ==
    (IF absent(w.with) THEN Word("WITH") ELSE w.with.text \o Word(","))
    \o Word(w.name) \o Word("AS") \o Parens(w.query.text)

whereText(where) == IF absent(where) THEN <<>> ELSE Word("WHERE") \o where.text

projectionText(q) ==
    IF ~q.star THEN q.exprs.text
    ELSE IF absent(q.exprs) THEN Word("*")
    ELSE Word("*") \o Word(",") \o q.exprs.text

(* The right operand of a UNION is in parentheses. *)
queryText(q) ==
    IF isSelect(q)
    THEN q.with.text \o Word("SELECT") \o projectionText(q) \o Word("FROM") \o q.from.text
         \o whereText(q.where)
    ELSE q.left.text \o Word("UNION") \o Parens(q.right.text)

-----------------------------------------------------------------------------
(* What a node means: its uses of names, wherever they are nested.  A use  *)
(* of a column, a function, a table (with its alias), a CTE or a star has  *)
(* the constructs it is inside of, as far as they make a difference.       *)

Use(what, name, as) == {[what |-> what, name |-> name, as |-> as, path |-> {}]}

through(construct, uses) ==
    {[what |-> u.what, name |-> u.name, as |-> u.as,
      path |-> u.path \union {construct}] : u \in uses}

(* A column is part of the clause that its expression is written in. *)
placed(clause, uses) ==
    {[what |-> IF u.what = "column" THEN clause ELSE u.what, name |-> u.name,
      as |-> u.as, path |-> u.path] : u \in uses}

exprUses(e) ==
    CASE e.kind = "col"             -> Use("column", e.name, "")
      [] e.kind = "literal"         -> {}
      [] e.kind = "func"            -> Use("call", <<e.name>>, "") \union e.args.uses
      [] e.kind \in {"op", "exprs"} -> e.left.uses \union e.right.uses
      [] e.kind = "opaque"          -> through("opaque", e.arg.uses)
      [] e.kind = "subquery"        -> through("subquery", e.query.uses)

(* The table that a table expression begins with, if it does. *)
firstTable(te) ==
    CASE te.kind = "table"              -> Use("table", te.name, te.as)
      [] te.kind \in {"join", "tables"} -> te.left.first
      [] OTHER                          -> {}

(* An operand of a join, or what is in parentheses. *)
joined(te) == IF te.kind = "derived" THEN through("joined", te.uses) ELSE te.uses

(* The rest of its uses. *)
tableUses(te) ==
    CASE te.kind = "table"   -> {}
      [] te.kind = "derived" -> te.query.uses
      [] te.kind = "join"    -> joined(te.left) \union te.right.first \union joined(te.right)
                                \union through("on", placed("filter", te.on.uses))
      [] te.kind = "paren"   -> through("unintroduced", te.inner.first) \union joined(te.inner)
      [] te.kind = "tables"  -> te.left.uses \union through("unintroduced", te.right.first)
                                \union te.right.uses

withUses(w) == w.with.uses \union Use("cte", <<w.name>>, "") \union w.query.uses

queryUses(q) ==
    IF isSelect(q)
    THEN q.with.uses \union (IF q.star THEN Use("star", <<"*">>, "") ELSE {})
         \union placed("output", q.exprs.uses) \union q.from.first \union q.from.uses
         \union placed("filter", q.where.uses)
    ELSE through("union", q.left.uses \union q.right.uses)

-----------------------------------------------------------------------------
(* A statement: its verb, the WITH clause of a DELETE, the table it        *)
(* changes, its query, its WHERE; whether the syntax is one that MySQL     *)
(* shares; and how its text begins: after a comment, or with no white      *)
(* space behind the verb.                                                  *)
Statement(verb, with, target, query, where, layout) ==
    [verb |-> verb, with |-> with, target |-> target, query |-> query, where |-> where,
     mysql |-> layout.mysql, commented |-> layout.commented, glued |-> layout.glued]

bodyText(verb, target) ==
    CASE verb = "SELECT" -> <<>>
      [] verb = "INSERT" -> Word("INSERT") \o Word("INTO") \o <<target>>
      [] verb = "CREATE" -> Word("CREATE") \o Word("TABLE") \o <<target>> \o Word("AS")
      [] verb = "DELETE" -> Word("DELETE") \o Word("FROM") \o <<target>>
      [] verb = "UPDATE" -> Word("UPDATE") \o <<target>> \o Word("SET") \o Word("x")
                            \o Word("=") \o Word("'")
      [] verb = "DROP"   -> Word("DROP") \o Word("TABLE") \o <<target>>

lexemes(s) ==
    s.with.text \o bodyText(s.verb, s.target) \o s.query.text \o whereText(s.where)

(* Only the white space behind the first word makes a difference. *)
Text(s) ==
    (IF s.commented THEN <<Comment, Blank>> ELSE <<>>)
    \o <<Head(lexemes(s))>> \o (IF s.glued THEN <<>> ELSE <<Blank>>) \o Tail(lexemes(s))

usesOf(s) ==
    (IF s.verb = "SELECT" THEN {} ELSE Use("table", s.target, ""))
    \union through("prefix", s.with.uses)
    \union (IF s.verb = "CREATE" THEN through("created", s.query.uses) ELSE s.query.uses)
    \union through("change", placed("filter", s.where.uses))
==============================================================================
