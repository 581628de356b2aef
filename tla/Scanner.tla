------------------------------ MODULE Scanner -------------------------------
(***************************************************************************)
(* The token scan of internal/parser: classifier.go, which finds the class *)
(* of a statement, and tables.go, which finds the names of its tables.     *)
(* Neither needs the statement to parse.                                   *)
(*                                                                         *)
(* A text is a sequence of lexemes.  A dotted name is one lexeme, the      *)
(* sequence of its components; so is every keyword and punctuation mark,   *)
(* of length 1.                                                            *)
(***************************************************************************)
EXTENDS Analysis, FiniteSetsExt, SequencesExt

Blank == <<" ">>      \* a run of white space
Comment == <<"--">>   \* a comment of either kind

(* strings.ToUpper of a token; a dotted one equals no word. *)
upper(tok) == IF Len(tok) = 1 THEN Lower[tok[1]] ELSE ""

(* White space and comments separate tokens and are dropped. *)
tokenizeRaw(text) ==
    LET kept[i \in 0 .. Len(text)] ==
            IF i = 0 THEN <<>>
            ELSE IF text[i] \in {Blank, Comment} THEN kept[i - 1]
            ELSE Append(kept[i - 1], text[i])
    IN  kept[Len(text)]

-----------------------------------------------------------------------------
(* classifier.go                                                           *)

Verbs == (StatementClass \ {"UNKNOWN", "OTHER"}) \union {"DESC"}

verbClass(verb) == IF verb = "DESC" THEN "DESCRIBE" ELSE verb

(* The run of characters up to the next white space: a verb only when      *)
(* nothing, not even a dot, a parenthesis or a comment, is attached to it. *)
extractVerb(text) ==
    LET starts == {i \in DOMAIN text : text[i] \notin {Blank, Comment}}
        first  == Min(starts)
    IN  IF starts = {} THEN ""
        ELSE IF Len(text[first]) # 1 \/ (first < Len(text) /\ text[first + 1] # Blank)
             THEN "attached"
        ELSE upper(text[first])

depth(tokens, i) ==
    Cardinality({j \in 1 .. i : tokens[j] = <<"(">>})
    - Cardinality({j \in 1 .. i : tokens[j] = <<")">>})

(* Mutant: parentheses are not counted. *)
classifyWith_Flat(tokens) ==
    LET verbs == {i \in 2 .. Len(tokens) : upper(tokens[i]) \in Verbs}
    IN  IF verbs = {} THEN "SELECT" ELSE verbClass(upper(tokens[Min(verbs)]))

(* The first verb outside parentheses after WITH, wherever it stands. *)
classifyWith(tokens) ==
    LET verbs == {i \in 2 .. Len(tokens) :
                    depth(tokens, i) <= 0 /\ upper(tokens[i]) \in Verbs}
    IN  IF verbs = {} THEN "SELECT" ELSE verbClass(upper(tokens[Min(verbs)]))

Classify(text) ==
    LET verb == extractVerb(text)
    IN  CASE verb = ""       -> "UNKNOWN"
          [] verb = "WITH"   -> classifyWith(tokenizeRaw(text))
          [] verb \in Verbs  -> verbClass(verb)
          [] OTHER           -> "OTHER"

-----------------------------------------------------------------------------
(* tables.go                                                               *)

Keywords ==
    {"SELECT", "WHERE", "AND", "OR", "NOT", "IN", "IS", "NULL", "AS", "ON", "SET",
     "VALUES", "GROUP", "ORDER", "BY", "HAVING", "LIMIT", "OFFSET", "UNION", "ALL",
     "DISTINCT", "CASE", "WHEN", "THEN", "ELSE", "END", "EXISTS", "BETWEEN", "LIKE",
     "AT", "WITH", "RECURSIVE", "TABLE", "FROM", "INTO", "JOIN", "LEFT", "RIGHT",
     "INNER", "OUTER", "CROSS", "FULL", "NATURAL", "LATERAL", "USING", "EXCEPT",
     "INTERSECT", "MINUS", "FOR", "DESC", "ASC", "TRUE", "FALSE", "TIMESTAMP", "DATE",
     "TIME", "INTERVAL", "CAST", "TRY_CAST", "ROW", "ARRAY", "MAP", "STRUCT",
     "CREATE", "ALTER", "DROP", "TRUNCATE", "INSERT", "UPDATE", "DELETE", "REPLACE",
     "MERGE", "CALL", "SHOW", "DESCRIBE", "EXPLAIN", "USE", "GRANT", "REVOKE",
     "COMMIT", "ROLLBACK", "BEGIN", "START", "TRANSACTION", "SESSION", "UNNEST"}

isKeyword(tok) == upper(tok) \in Keywords

(* Mutant: only the words that qualify a JOIN are looked for. *)
isJoinPrefix_Qualified(tok) == upper(tok) \in {"LEFT", "RIGHT", "FULL", "INNER", "CROSS",
                                               "NATURAL", "LATERAL"}

isJoinPrefix(tok) == upper(tok) \in {"JOIN", "LEFT", "RIGHT", "FULL", "INNER", "CROSS",
                                     "NATURAL", "LATERAL"}

(* Where the table of a JOIN is expected; 0 when the prefix is none. *)
findJoinIdx(tokens, i) ==
    LET at(j) == IF j <= Len(tokens) THEN upper(tokens[j]) ELSE ""
    IN  CASE at(i) \in {"JOIN", "LATERAL"} -> i + 1
          [] at(i) \in {"LEFT", "RIGHT", "FULL"} /\ at(i + 2) = "JOIN" ->
                 IF at(i + 1) = "OUTER" THEN i + 3 ELSE i + 2
          [] at(i) \in {"INNER", "CROSS", "NATURAL"} /\ at(i + 1) = "JOIN" -> i + 2
          [] OTHER -> 0

(* FROM, INTO, TABLE and UPDATE take the next token unless it is           *)
(* punctuation or a keyword; a JOIN takes it unless it is a keyword.       *)
tableAfter(tokens, i) ==
    CASE upper(tokens[i]) \in {"FROM", "INTO", "TABLE", "UPDATE"} ->
             {tokens[j] : j \in {k \in {i + 1} \intersect DOMAIN tokens :
                /\ tokens[k] \notin {<<",">>, <<"(">>, <<")">>, <<";">>}
                /\ ~isKeyword(tokens[k])}}
      [] isJoinPrefix(tokens[i]) ->
             {tokens[j] : j \in {k \in {findJoinIdx(tokens, i)} \intersect DOMAIN tokens :
                ~isKeyword(tokens[k])}}
      [] OTHER -> {}

(* Before CTE aliases are left out (Analysis.withoutAliases). *)
extractTableNamesRaw(tokens) == UNION {tableAfter(tokens, i) : i \in DOMAIN tokens}
=============================================================================
