------------------------------ MODULE MCParser -------------------------------
(***************************************************************************)
(* A small instance of Grammar.tla: a guarded table in two spellings,      *)
(* another table, a CTE with the bare name of the guarded one, and a       *)
(* column that predicates may or may not qualify.                          *)
(***************************************************************************)
EXTENDS Grammar

MCIdent ==
    Words \union {"hive", "sales", "orders", "ORDERS", "hr", "people", "region", "o", "p",
                  "now", "NOW"}

MCLower == [i \in MCIdent |-> CASE i = "ORDERS" -> "orders"
                                [] i = "NOW" -> "now"
                                [] OTHER -> i]

MCColumns == {<<"o", "region">>, <<"p", "region">>, <<"region">>}

MCNamed == {<<<<"hive", "sales", "ORDERS">>, "o">>, <<<<"hr", "people">>, "p">>,
            <<<<"orders">>, "">>}

OneNamed == {<<<<"hive", "sales", "ORDERS">>, "o">>}

MCTargets == {<<"sales", "orders">>}

MCLayouts == {[mysql |-> TRUE, commented |-> TRUE, glued |-> FALSE],
              [mysql |-> FALSE, commented |-> FALSE, glued |-> TRUE]}

PlainLayout == {[mysql |-> TRUE, commented |-> FALSE, glued |-> FALSE]}

MCEntries == {<<"orders">>, <<"sales", "orders">>, <<"hive", "sales", "orders">>}

MCFilters == {[catalog |-> "", schema |-> "sales", table |-> "orders", mode |-> "",
               columns |-> {"region"}],
              [catalog |-> "hive", schema |-> "sales", table |-> "orders", mode |-> "any-of",
               columns |-> {"region", "x"}]}
==============================================================================
