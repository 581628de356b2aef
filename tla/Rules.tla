-------------------------------- MODULE Rules --------------------------------
(***************************************************************************)
(* What the static rules of a policy ask of a statement: the promise of    *)
(* Tier 1, stated on the statement itself, without the order of the checks *)
(* and without the intermediate results of the analyser.                   *)
(***************************************************************************)
EXTENDS Tier1

(* The tables of s: the names of its scan that are not CTEs of its own.    *)
(* The CTEs of a statement that does not parse are not known.              *)
tablesIn(s) ==
    {t \in s.scanned : \/ ~s.parses \/ Len(t) >= 2
                       \/ \A c \in s.ctes : ~EqualFold(t[1], c)}

(* Column c is used in a WHERE or ON of s for table t: without a qualifier *)
(* or with one that stands for a table of the same bare name.              *)
filters(s, t, c) ==
    \E ref \in s.refs :
        /\ EqualFold(ref.column, c)
        /\ \/ ref.table = ""
           \/ /\ ref.table \in DOMAIN s.aliases
              /\ EqualFold(s.aliases[ref.table], lastComponent(t))
           \/ /\ ref.table \notin DOMAIN s.aliases
              /\ EqualFold(ref.table, lastComponent(t))

(* The filter that rf requires on t is there: on all of its columns, or on *)
(* one of them with mode any-of.  Only a parsed statement can have one.    *)
filtered(s, t, rf) ==
    /\ s.parses
    /\ IF rf.mode = "any-of" THEN \E c \in rf.columns : filters(s, t, c)
       ELSE \A c \in rf.columns : filters(s, t, c)

obeys(p, s) ==
    /\ \A verb \in p.statementBlocklist : ~EqualFold(verb, s.class)
    /\ \A t \in tablesIn(s) :
          /\ \A entry \in p.tableBlocklist : ~tableBlocklisted(t, entry)
          /\ \A rf \in p.requiredFilters : requiredFilterMatches(t, rf) => filtered(s, t, rf)
          /\ s.parses /\ s.selectAll =>
                \A entry \in p.selectStarBlockedTables : ~tableBlocklisted(t, entry)
    /\ s.parses => \A fn \in s.functions : \A bad \in p.functionBlocklist : ~EqualFold(fn, bad)
==============================================================================
