---------------------------- MODULE StaticProofs -----------------------------
(***************************************************************************)
(* Proofs about the token scan (Scanner.tla) and the static checks that    *)
(* rest on it (Analysis.tla, Tier1.tla) against what the rules ask for     *)
(* (Rules.tla), for every text, set of identifiers and policy.             *)
(***************************************************************************)
EXTENDS Scanner, Rules, FiniteSetTheorems, TLAPS

-----------------------------------------------------------------------------
(* The class of a WITH statement.                                          *)

opens(tokens) == {j \in DOMAIN tokens : tokens[j] = <<"(">>}

closes(tokens) == {j \in DOMAIN tokens : tokens[j] = <<")">>}

(* m pairs every opening parenthesis with a closing one behind it, and     *)
(* none is left over.                                                      *)
Matching(tokens, m) ==
    /\ m \in [opens(tokens) -> closes(tokens)]
    /\ \A j, k \in opens(tokens) : m[j] = m[k] => j = k
    /\ \A c \in closes(tokens) : \E j \in opens(tokens) : m[j] = c
    /\ \A j \in opens(tokens) : j < m[j]

(* The pairs around position i. *)
around(tokens, m, i) == {j \in opens(tokens) : j <= i /\ i < m[j]}

(* The counter of classifyWith is the number of pairs around a token. *)
LEMMA DepthIsNesting ==
    ASSUME NEW tokens \in Seq(Seq(Ident)), NEW m, Matching(tokens, m),
           NEW i \in DOMAIN tokens
    PROVE  /\ IsFiniteSet(around(tokens, m, i))
           /\ depth(tokens, i) = Cardinality(around(tokens, m, i))
<1> DEFINE O == {j \in 1 .. i : tokens[j] = <<"(">>}
           C == {j \in 1 .. i : tokens[j] = <<")">>}
           A == {j \in opens(tokens) : m[j] <= i}
           B == around(tokens, m, i)
           f == [j \in A |-> m[j]]
<1>1. DOMAIN tokens = 1 .. Len(tokens) /\ Len(tokens) \in Nat /\ i \in Nat
  OBVIOUS
<1>2. /\ \A j \in opens(tokens) : j \in Nat /\ m[j] \in Nat /\ j < m[j]
      /\ \A j \in opens(tokens) : m[j] \in closes(tokens)
  BY <1>1 DEF Matching, opens, closes
<1>3. O = A \union B
  <2>1. ASSUME NEW j \in O PROVE j \in A \union B
    <3>1. j \in opens(tokens) /\ j <= i
      BY <1>1 DEF opens
    <3>2. m[j] <= i \/ i < m[j]
      BY <1>1, <1>2, <3>1
    <3> QED BY <3>1, <3>2 DEF around
  <2>2. ASSUME NEW j \in A \union B PROVE j \in O
    <3>1. j \in opens(tokens) /\ j <= i /\ j \in Nat
      BY <1>1, <1>2 DEF around
    <3> QED BY <1>1, <3>1 DEF opens
  <2> QED BY <2>1, <2>2
<1>4. A \intersect B = {}
  BY <1>1, <1>2 DEF around
<1>5. IsFiniteSet(O) /\ IsFiniteSet(C)
  <2>1. IsFiniteSet(1 .. i)
    BY <1>1, FS_Interval
  <2> QED BY <2>1, FS_Subset
<1>6. IsFiniteSet(A) /\ IsFiniteSet(B)
  <2> HIDE DEF O, A, B
  <2> QED BY <1>3, <1>5, FS_Subset
<1>7. Cardinality(O) = Cardinality(A) + Cardinality(B)
  <2> HIDE DEF O, A, B
  <2>1. Cardinality(A \union B)
          = Cardinality(A) + Cardinality(B) - Cardinality(A \intersect B)
    BY <1>6, FS_Union
  <2>2. Cardinality(A \intersect B) = 0
    BY <1>4, FS_EmptySet
  <2>3. Cardinality(A) \in Nat /\ Cardinality(B) \in Nat
    BY <1>6, FS_CardinalityType
  <2> QED BY <1>3, <2>1, <2>2, <2>3
<1>8. Cardinality(C) = Cardinality(A)
  <2>1. f \in [A -> C]
    BY <1>1, <1>2 DEF closes
  <2>2. \A j, k \in A : f[j] = f[k] => j = k
    BY DEF Matching
  <2>3. \A c \in C : \E j \in A : f[j] = c
    <3> SUFFICES ASSUME NEW c \in C PROVE \E j \in A : f[j] = c
      OBVIOUS
    <3>1. c \in closes(tokens) /\ c <= i
      BY <1>1 DEF closes
    <3>2. PICK j \in opens(tokens) : m[j] = c
      BY <3>1 DEF Matching
    <3> QED BY <3>1, <3>2
  <2> HIDE DEF f, A, C
  <2>4. f \in Bijection(A, C)
    BY <2>1, <2>2, <2>3 DEF Bijection, Injection, Surjection, IsInjective
  <2>5. ExistsBijection(A, C)
    BY <2>4 DEF ExistsBijection
  <2> QED BY <1>6, <2>5, FS_Bijection
<1>9. Cardinality(A) \in Nat /\ Cardinality(B) \in Nat
  BY <1>6, FS_CardinalityType
<1> HIDE DEF A, B
<1>10. depth(tokens, i) = Cardinality(B)
  BY <1>7, <1>8, <1>9 DEF depth
<1> QED BY <1>6, <1>10 DEF B

(* The verbs after WITH that no pair of parentheses surrounds. *)
outerVerbs(tokens, m) ==
    {i \in 2 .. Len(tokens) : upper(tokens[i]) \in Verbs /\ around(tokens, m, i) = {}}

(* However its CTEs are nested, a WITH statement whose parentheses pair up *)
(* has the class of its first verb outside all of them, and is a SELECT    *)
(* when there is none: no statement inside a CTE or a subquery is taken    *)
(* for it.                                                                 *)
THEOREM OutermostVerb ==
    ASSUME NEW tokens \in Seq(Seq(Ident)), NEW m, Matching(tokens, m)
    PROVE  /\ outerVerbs(tokens, m) = {} => classifyWith(tokens) = "SELECT"
           /\ \A i \in outerVerbs(tokens, m) :
                 (\A k \in outerVerbs(tokens, m) : i <= k) =>
                    classifyWith(tokens) = verbClass(upper(tokens[i]))
<1> DEFINE V == {i \in 2 .. Len(tokens) :
                   depth(tokens, i) <= 0 /\ upper(tokens[i]) \in Verbs}
<1>1. ASSUME NEW i \in 2 .. Len(tokens)
      PROVE  depth(tokens, i) <= 0 <=> around(tokens, m, i) = {}
  <2> DEFINE B == around(tokens, m, i)
  <2>1. i \in DOMAIN tokens
    OBVIOUS
  <2>2. IsFiniteSet(B) /\ depth(tokens, i) = Cardinality(B)
    BY <2>1, DepthIsNesting
  <2> HIDE DEF B
  <2>3. Cardinality(B) \in Nat /\ (Cardinality(B) = 0 <=> B = {})
    BY <2>2, FS_CardinalityType, FS_EmptySet
  <2>4. depth(tokens, i) <= 0 <=> B = {}
    BY <2>2, <2>3
  <2> QED BY <2>4 DEF B
<1>2. V = outerVerbs(tokens, m)
  BY <1>1 DEF outerVerbs
<1>3. classifyWith(tokens)
        = IF V = {} THEN "SELECT" ELSE verbClass(upper(tokens[Min(V)]))
  BY DEF classifyWith
<1>4. ASSUME NEW i \in V, \A k \in V : i <= k PROVE Min(V) = i
  <2>1. \A k \in V : k \in Int
    OBVIOUS
  <2> HIDE DEF V
  <2>2. Min(V) \in V /\ \A k \in V : Min(V) <= k
    BY <1>4 DEF Min
  <2>3. i <= Min(V) /\ Min(V) <= i
    BY <1>4, <2>2
  <2> QED BY <2>1, <2>2, <2>3
<1> HIDE DEF V
<1>5. QED BY <1>2, <1>3, <1>4

-----------------------------------------------------------------------------
(* The table names.                                                        *)

(* The word that introduces a table is written right before position k. *)
introduced(tokens, k) ==
    /\ k \in DOMAIN tokens /\ k - 1 \in DOMAIN tokens
    /\ upper(tokens[k - 1]) \in {"FROM", "INTO", "TABLE", "UPDATE", "JOIN"}

(* Qualified names that such a word introduces. *)
leadingNames(tokens) ==
    {tokens[k] : k \in {i \in DOMAIN tokens : introduced(tokens, i) /\ Len(tokens[i]) >= 2}}

(* A dotted token is neither a keyword nor a punctuation mark. *)
LEMMA DottedIsNoWord ==
    ASSUME NEW tok \in Seq(Ident), Len(tok) >= 2
    PROVE  ~isKeyword(tok) /\ tok \notin {<<",">>, <<"(">>, <<")">>, <<";">>}
<1>1. Len(tok) # 1
  <2>1. PICK n \in Nat : n = Len(tok)
    OBVIOUS
  <2>2. n >= 2 => n # 1
    OBVIOUS
  <2> QED BY <2>1, <2>2
<1>2. upper(tok) = ""
  BY <1>1 DEF upper
<1>3. "" \notin Keywords
  BY DEF Keywords
<1>4. Len(<<",">>) = 1 /\ Len(<<"(">>) = 1 /\ Len(<<")">>) = 1 /\ Len(<<";">>) = 1
  OBVIOUS
<1>5. tok \notin {<<",">>, <<"(">>, <<")">>, <<";">>}
  BY <1>1, <1>4
<1> QED BY <1>2, <1>3, <1>5 DEF isKeyword

(* The scan finds every qualified name in a leading position, at whatever  *)
(* depth and in whatever context it is written.                            *)
THEOREM LeadingNamesScanned ==
    ASSUME NEW tokens \in Seq(Seq(Ident))
    PROVE  leadingNames(tokens) \subseteq extractTableNamesRaw(tokens)
<1> SUFFICES ASSUME NEW k \in DOMAIN tokens, introduced(tokens, k), Len(tokens[k]) >= 2
             PROVE  tokens[k] \in extractTableNamesRaw(tokens)
  BY DEF leadingNames
<1> DEFINE i == k - 1
<1>1. i \in DOMAIN tokens /\ i + 1 = k
  BY DEF introduced
<1>2. /\ ~isKeyword(tokens[k])
      /\ tokens[k] \notin {<<",">>, <<"(">>, <<")">>, <<";">>}
  <2>1. tokens[k] \in Seq(Ident)
    OBVIOUS
  <2> QED BY <2>1, DottedIsNoWord
<1>3. tokens[k] \in tableAfter(tokens, i)
  <2>1. CASE upper(tokens[i]) \in {"FROM", "INTO", "TABLE", "UPDATE"}
    <3>1. tableAfter(tokens, i)
            = {tokens[j] : j \in {n \in {i + 1} \intersect DOMAIN tokens :
                 /\ tokens[n] \notin {<<",">>, <<"(">>, <<")">>, <<";">>}
                 /\ ~isKeyword(tokens[n])}}
      BY <2>1 DEF tableAfter, isJoinPrefix
    <3>2. k \in {i + 1} \intersect DOMAIN tokens
      BY <1>1
    <3> HIDE DEF i
    <3> QED BY <1>2, <3>1, <3>2
  <2>2. CASE upper(tokens[i]) = "JOIN"
    <3>1. findJoinIdx(tokens, i) = k
      <4>1. i <= Len(tokens)
        BY <1>1
      <4> QED BY <1>1, <2>2, <4>1 DEF findJoinIdx
    <3>2. tableAfter(tokens, i)
            = {tokens[j] : j \in {n \in {findJoinIdx(tokens, i)} \intersect DOMAIN tokens :
                 ~isKeyword(tokens[n])}}
      BY <2>2 DEF tableAfter, isJoinPrefix
    <3> HIDE DEF i
    <3> QED BY <1>2, <3>1, <3>2
  <2> QED BY <2>1, <2>2 DEF introduced
<1> QED BY <1>1, <1>3 DEF extractTableNamesRaw

-----------------------------------------------------------------------------
(* The verdict of Tier 1.                                                  *)

(* The analyser keeps exactly the tables of a statement. *)
LEMMA TablesKept ==
    ASSUME NEW s, ~IsBypass(s.class), s.scanned \subseteq Seq(Ident) \ {<<>>}
    PROVE  Analyze(s).tables = tablesIn(s)
<1>1. ASSUME NEW t \in s.scanned, NEW c
      PROVE  EqualFoldName(t, <<c>>) <=> Len(t) < 2 /\ EqualFold(t[1], c)
  <2>1. PICK n \in Nat \ {0} : n = Len(t)
    OBVIOUS
  <2>2. n < 2 <=> n = 1
    OBVIOUS
  <2>3. Len(<<c>>) = 1 /\ <<c>>[1] = c
    OBVIOUS
  <2> QED BY <2>1, <2>2, <2>3 DEF EqualFoldName
<1>2. \A t \in s.scanned : Len(t) >= 2 <=> ~(Len(t) < 2)
  OBVIOUS
<1>3. CASE s.parses
  <2>1. Analyze(s).tables = withoutAliases(s.scanned, s.ctes)
    BY <1>3 DEF Analyze
  <2> QED BY <1>1, <1>2, <1>3, <2>1 DEF withoutAliases, tablesIn
<1>4. CASE ~s.parses
  BY <1>4 DEF Analyze, tablesIn
<1> QED BY <1>3, <1>4

(* missingRequiredColumns reports a table exactly when its filter is not   *)
(* there.                                                                  *)
LEMMA MissingMeansUnfiltered ==
    ASSUME NEW s, ~IsBypass(s.class), NEW t, NEW rf, rf.columns # {}
    PROVE  missingRequiredColumns(Analyze(s), t, rf) = {} <=> filtered(s, t, rf)
<1> DEFINE res == Analyze(s)
           missing == {c \in rf.columns : ~tableHasFilter(res, t, c)}
<1>1. CASE s.parses
  <2>1. res.refs = s.refs /\ res.aliases = s.aliases
    BY <1>1 DEF Analyze
  <2> HIDE DEF res
  <2>2. ASSUME NEW c PROVE tableHasFilter(res, t, c) <=> filters(s, t, c)
    BY <2>1 DEF tableHasFilter, resolved, filters
  <2>3. missingRequiredColumns(res, t, rf)
          = IF rf.mode = "any-of" /\ missing # rf.columns THEN {} ELSE missing
    BY DEF missingRequiredColumns, requiredFilterMode
  <2>4. missing = {} <=> \A c \in rf.columns : filters(s, t, c)
    BY <2>2
  <2>5. missing # rf.columns <=> \E c \in rf.columns : filters(s, t, c)
    BY <2>2
  <2> HIDE DEF missing
  <2> QED BY <1>1, <2>3, <2>4, <2>5 DEF filtered, res
<1>2. CASE ~s.parses
  <2>1. res.refs = {}
    BY <1>2 DEF Analyze
  <2> HIDE DEF res
  <2>2. missing = rf.columns
    BY <2>1 DEF tableHasFilter
  <2>3. missingRequiredColumns(res, t, rf) = missing
    BY <2>2 DEF missingRequiredColumns
  <2> QED BY <1>2, <2>2, <2>3 DEF filtered, res
<1> QED BY <1>1, <1>2

(* Tier 1 lets a statement pass exactly when it obeys the static rules of  *)
(* the policy, for every statement and every policy: its five checks, in   *)
(* their order and on the results of the analyser, leave no gap and add    *)
(* nothing.  One that vitess refuses cannot satisfy a required filter.     *)
THEOREM Tier1Exact ==
    ASSUME NEW s, ~IsBypass(s.class), s.scanned \subseteq Seq(Ident) \ {<<>>},
           NEW p, \A rf \in p.requiredFilters : rf.columns # {}
    PROVE  tier1(p, Analyze(s)) = "ALLOW" <=> obeys(p, s)
<1> DEFINE res == Analyze(s)
<1>1. res.tables = tablesIn(s)
  BY TablesKept
<1>2. /\ res.class = s.class
      /\ res.selectAll <=> s.parses /\ s.selectAll
      /\ ~s.parses => res.functions = {}
      /\ s.parses => res.functions = s.functions
  BY DEF Analyze
<1>3. \A t, rf : rf \in p.requiredFilters =>
         (missingRequiredColumns(res, t, rf) = {} <=> filtered(s, t, rf))
  BY MissingMeansUnfiltered
<1> HIDE DEF res
<1>4. tier1(p, res) = "ALLOW" <=>
         /\ ~statementBlocked(p, res) /\ ~tableBlocked(p, res) /\ ~functionBlocked(p, res)
         /\ ~selectStarBlocked(p, res) /\ ~requiredFilterMissing(p, res)
  BY DEF tier1
<1>5. ~statementBlocked(p, res) <=> \A verb \in p.statementBlocklist : ~EqualFold(verb, s.class)
  BY <1>2 DEF statementBlocked
<1>6. ~tableBlocked(p, res) <=>
         \A t \in tablesIn(s) : \A entry \in p.tableBlocklist : ~tableBlocklisted(t, entry)
  BY <1>1 DEF tableBlocked
<1>7. ~functionBlocked(p, res) <=>
         (s.parses => \A fn \in s.functions : \A bad \in p.functionBlocklist : ~EqualFold(fn, bad))
  BY <1>2 DEF functionBlocked
<1>8. ~selectStarBlocked(p, res) <=>
         \A t \in tablesIn(s) : s.parses /\ s.selectAll =>
            \A entry \in p.selectStarBlockedTables : ~tableBlocklisted(t, entry)
  BY <1>1, <1>2 DEF selectStarBlocked
<1>9. ~requiredFilterMissing(p, res) <=>
         \A t \in tablesIn(s) : \A rf \in p.requiredFilters :
            requiredFilterMatches(t, rf) => filtered(s, t, rf)
  BY <1>1, <1>3 DEF requiredFilterMissing
<1>10. QED BY <1>4, <1>5, <1>6, <1>7, <1>8, <1>9 DEF obeys, res

(* From the text to the verdict: a table that a passing statement names,   *)
(* qualified and in a leading position at any depth, is not blocked, and   *)
(* has the filter on it that the policy requires; a CTE of the same bare   *)
(* name makes no difference.                                               *)
THEOREM LeadingTableGuarded ==
    ASSUME NEW tokens \in Seq(Seq(Ident) \ {<<>>}), NEW s, ~IsBypass(s.class),
           s.scanned = extractTableNamesRaw(tokens),
           NEW p, \A rf \in p.requiredFilters : rf.columns # {},
           tier1(p, Analyze(s)) = "ALLOW",
           NEW t \in leadingNames(tokens)
    PROVE  /\ \A entry \in p.tableBlocklist : ~tableBlocklisted(t, entry)
           /\ \A rf \in p.requiredFilters :
                 requiredFilterMatches(t, rf) => filtered(s, t, rf)
<1>1. tokens \in Seq(Seq(Ident))
  OBVIOUS
<1>2. s.scanned \subseteq Seq(Ident) \ {<<>>}
  <2>1. ASSUME NEW i \in DOMAIN tokens, NEW x \in tableAfter(tokens, i)
        PROVE  \E j \in DOMAIN tokens : x = tokens[j]
    BY <2>1 DEF tableAfter
  <2>2. \A j \in DOMAIN tokens : tokens[j] \in Seq(Ident) \ {<<>>}
    OBVIOUS
  <2> QED BY <2>1, <2>2 DEF extractTableNamesRaw
<1>3. obeys(p, s)
  BY <1>2, Tier1Exact
<1>4. t \in s.scanned /\ Len(t) >= 2
  BY <1>1, LeadingNamesScanned DEF leadingNames
<1>5. t \in tablesIn(s)
  BY <1>4 DEF tablesIn
<1> QED BY <1>3, <1>5 DEF obeys

-----------------------------------------------------------------------------
(* Table names and function names that differ in letter case at most. *)
respelledNames(T, U) ==
    /\ \A t \in T : \E u \in U : EqualFoldName(t, u)
    /\ \A u \in U : \E t \in T : EqualFoldName(t, u)

respelled(F, G) ==
    /\ \A f \in F : \E g \in G : EqualFold(f, g)
    /\ \A g \in G : \E f \in F : EqualFold(f, g)

(* Entries, filters and columns match a name in any spelling. *)
LEMMA SpellingsMatch ==
    ASSUME NEW t \in Seq(Ident), NEW u \in Seq(Ident), t # <<>>, EqualFoldName(t, u)
    PROVE  /\ \A entry : tableBlocklisted(t, entry) <=> tableBlocklisted(u, entry)
           /\ \A rf : requiredFilterMatches(t, rf) <=> requiredFilterMatches(u, rf)
           /\ \A res, c : tableHasFilter(res, t, c) <=> tableHasFilter(res, u, c)
           /\ EqualFoldName(u, t)
<1>1. PICK n \in Nat \ {0} : n = Len(t) /\ n = Len(u)
  BY DEF EqualFoldName
<1>2. \A i \in 1 .. n : Lower[t[i]] = Lower[u[i]]
  BY <1>1 DEF EqualFoldName, EqualFold
<1>3. Lower[lastComponent(t)] = Lower[lastComponent(u)]
  BY <1>1, <1>2 DEF lastComponent
<1>4. ASSUME NEW entry PROVE tableBlocklisted(t, entry) <=> tableBlocklisted(u, entry)
  <2>1. EqualFoldName(t, entry) <=> EqualFoldName(u, entry)
    BY <1>1, <1>2 DEF EqualFoldName, EqualFold
  <2> QED BY <1>3, <2>1 DEF tableBlocklisted, EqualFold
<1>5. ASSUME NEW rf PROVE requiredFilterMatches(t, rf) <=> requiredFilterMatches(u, rf)
  <2>1. /\ n \in 1 .. n
        /\ n >= 2 => n - 1 \in 1 .. n
        /\ n >= 3 => n - 2 \in 1 .. n
    OBVIOUS
  <2> QED BY <1>1, <1>2, <2>1 DEF requiredFilterMatches, EqualFold
<1>6. ASSUME NEW res, NEW c PROVE tableHasFilter(res, t, c) <=> tableHasFilter(res, u, c)
  BY <1>3 DEF tableHasFilter, EqualFold
<1>7. EqualFoldName(u, t)
  BY <1>1, <1>2 DEF EqualFoldName, EqualFold
<1> QED BY <1>4, <1>5, <1>6, <1>7

(* The letter case in which a statement writes its tables and functions    *)
(* never changes the verdict, under any policy.                            *)
THEOREM LetterCaseIrrelevant ==
    ASSUME NEW a, NEW b, NEW p,
           a.tables \subseteq Seq(Ident) \ {<<>>}, b.tables \subseteq Seq(Ident) \ {<<>>},
           respelledNames(a.tables, b.tables), respelled(a.functions, b.functions),
           a.class = b.class, a.refs = b.refs, a.aliases = b.aliases,
           a.selectAll = b.selectAll
    PROVE  tier1(p, a) = tier1(p, b)
<1>1. \A t \in a.tables : \E u \in b.tables :
         /\ \A entry : tableBlocklisted(t, entry) <=> tableBlocklisted(u, entry)
         /\ \A rf : requiredFilterMatches(t, rf) <=> requiredFilterMatches(u, rf)
         /\ \A res, c : tableHasFilter(res, t, c) <=> tableHasFilter(res, u, c)
  BY SpellingsMatch DEF respelledNames
<1>2. \A u \in b.tables : \E t \in a.tables :
         /\ \A entry : tableBlocklisted(t, entry) <=> tableBlocklisted(u, entry)
         /\ \A rf : requiredFilterMatches(t, rf) <=> requiredFilterMatches(u, rf)
         /\ \A res, c : tableHasFilter(res, t, c) <=> tableHasFilter(res, u, c)
  BY SpellingsMatch DEF respelledNames
<1>3. statementBlocked(p, a) <=> statementBlocked(p, b)
  BY DEF statementBlocked
<1>4. tableBlocked(p, a) <=> tableBlocked(p, b)
  BY <1>1, <1>2 DEF tableBlocked
<1>5. functionBlocked(p, a) <=> functionBlocked(p, b)
  BY DEF functionBlocked, respelled, EqualFold
<1>6. selectStarBlocked(p, a) <=> selectStarBlocked(p, b)
  BY <1>1, <1>2 DEF selectStarBlocked
<1>7. ASSUME NEW t, NEW u, NEW rf,
             \A res, c : tableHasFilter(res, t, c) <=> tableHasFilter(res, u, c)
      PROVE  missingRequiredColumns(a, t, rf) = missingRequiredColumns(b, u, rf)
  <2>1. \A c : tableHasFilter(a, u, c) <=> tableHasFilter(b, u, c)
    BY DEF tableHasFilter, resolved
  <2>2. {c \in rf.columns : ~tableHasFilter(a, t, c)}
          = {c \in rf.columns : ~tableHasFilter(b, u, c)}
    BY <1>7, <2>1
  <2> QED BY <2>2 DEF missingRequiredColumns
<1>8. requiredFilterMissing(p, a) <=> requiredFilterMissing(p, b)
  <2>1. ASSUME requiredFilterMissing(p, a) PROVE requiredFilterMissing(p, b)
    <3>1. PICK rf \in p.requiredFilters, t \in a.tables :
             requiredFilterMatches(t, rf) /\ missingRequiredColumns(a, t, rf) # {}
      BY <2>1 DEF requiredFilterMissing
    <3>2. PICK u \in b.tables :
             /\ requiredFilterMatches(t, rf) <=> requiredFilterMatches(u, rf)
             /\ \A res, c : tableHasFilter(res, t, c) <=> tableHasFilter(res, u, c)
      BY <1>1
    <3>3. missingRequiredColumns(a, t, rf) = missingRequiredColumns(b, u, rf)
      BY <1>7, <3>2
    <3> QED BY <3>1, <3>2, <3>3 DEF requiredFilterMissing
  <2>2. ASSUME requiredFilterMissing(p, b) PROVE requiredFilterMissing(p, a)
    <3>1. PICK rf \in p.requiredFilters, u \in b.tables :
             requiredFilterMatches(u, rf) /\ missingRequiredColumns(b, u, rf) # {}
      BY <2>2 DEF requiredFilterMissing
    <3>2. PICK t \in a.tables :
             /\ requiredFilterMatches(t, rf) <=> requiredFilterMatches(u, rf)
             /\ \A res, c : tableHasFilter(res, t, c) <=> tableHasFilter(res, u, c)
      BY <1>2
    <3>3. missingRequiredColumns(a, t, rf) = missingRequiredColumns(b, u, rf)
      BY <1>7, <3>2
    <3> QED BY <3>1, <3>2, <3>3 DEF requiredFilterMissing
  <2> QED BY <2>1, <2>2
<1> QED BY <1>3, <1>4, <1>5, <1>6, <1>8 DEF tier1
==============================================================================
