------------------------------ MODULE Analysis ------------------------------
(***************************************************************************)
(* parser.Analyze (internal/parser/ast.go), seen from the proxy.  The      *)
(* parts of a statement it works on are fields of the statement:           *)
(*   class                     the verb, classified,                       *)
(*   parses                    whether vitess accepts the normalised text, *)
(*   scanned                   the table names of the raw token scan,      *)
(*   ctes, refs, aliases, functions, selectAll                             *)
(*                             what the walk over the AST collects.        *)
(***************************************************************************)
EXTENDS Names

StatementClass ==
    {"UNKNOWN", "SELECT", "INSERT", "UPDATE", "DELETE", "CREATE", "ALTER",
     "DROP", "CALL", "SHOW", "DESCRIBE", "EXPLAIN", "USE", "SET", "TRUNCATE",
     "OTHER"}

IsBypass(class) == class \in {"SHOW", "DESCRIBE", "EXPLAIN", "USE", "SET"}

(* Mutant: only the last component is compared with the aliases. *)
withoutAliases_Last(tables, ctes) ==
    {t \in tables : \A c \in ctes : ~EqualFold(lastComponent(t), c)}

(* extractTableNamesRaw leaves out the names that are CTE aliases; a       *)
(* dotted token is never one.                                              *)
withoutAliases(tables, ctes) ==
    {t \in tables : \A c \in ctes : ~EqualFoldName(t, <<c>>)}

(* Mutant: a statement that does not parse has no tables either. *)
Analyze_FailOpen(s) ==
    IF IsBypass(s.class) \/ ~s.parses
    THEN [class |-> s.class, tables |-> {},
          refs |-> {}, aliases |-> <<>>, functions |-> {}, selectAll |-> FALSE]
    ELSE [class |-> s.class, tables |-> withoutAliases(s.scanned, s.ctes),
          refs |-> s.refs, aliases |-> s.aliases,
          functions |-> s.functions, selectAll |-> s.selectAll]

(* Never an error: a statement that does not parse keeps its class and all *)
(* the names of the scan, and has no columns, functions or stars.          *)
Analyze(s) ==
    IF IsBypass(s.class) \/ ~s.parses
    THEN [class |-> s.class,
          tables |-> IF IsBypass(s.class) THEN {} ELSE s.scanned,
          refs |-> {}, aliases |-> <<>>, functions |-> {}, selectAll |-> FALSE]
    ELSE [class |-> s.class, tables |-> withoutAliases(s.scanned, s.ctes),
          refs |-> s.refs, aliases |-> s.aliases,
          functions |-> s.functions, selectAll |-> s.selectAll]
=============================================================================
