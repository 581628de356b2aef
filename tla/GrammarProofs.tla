---------------------------- MODULE GrammarProofs ----------------------------
(***************************************************************************)
(* Proofs about Grammar.tla: what the analyser and Tier 1 owe a statement  *)
(* holds for every statement of the grammar, over any names.  A derivation *)
(* is an induction over the nodes of the tree: the invariant says of every *)
(* node built so far that its text is well formed and that the walk has    *)
(* collected from it what its uses say.                                    *)
(***************************************************************************)
EXTENDS Grammar, StaticProofs, SequenceTheorems, WellFoundedInduction

-----------------------------------------------------------------------------
(* Texts.                                                                  *)

Lexeme == Seq(Ident) \ {<<>>}

Clean(t) == \A i \in DOMAIN t : t[i] \notin {Blank, Comment}

(* Parentheses are closed after they are opened, and all of them are. *)
Balanced(t) == depth(t, Len(t)) = 0 /\ \A i \in 0 .. Len(t) : depth(t, i) >= 0

Fit(t) == t \in Seq(Lexeme) /\ Clean(t) /\ Balanced(t)

(* No verb outside parentheses. *)
OuterFree(t) == \A i \in 1 .. Len(t) : upper(t[i]) \in Verbs => depth(t, i) > 0

count(t, x, i) == Cardinality({j \in 1 .. i : t[j] = x})

(* A count is a natural number. *)
LEMMA CountType ==
    ASSUME NEW t, NEW x, NEW i \in Nat
    PROVE  count(t, x, i) \in Nat
<1>1. IsFiniteSet(1 .. i)
  BY FS_Interval
<1>2. IsFiniteSet({j \in 1 .. i : t[j] = x})
  BY <1>1, FS_Subset
<1> QED BY <1>2, FS_CardinalityType DEF count

(* The counts in a text add up from those of its parts. *)
LEMMA CountConcat ==
    ASSUME NEW a \in Seq(Lexeme), NEW b \in Seq(Lexeme), NEW x
    PROVE  /\ \A i \in 0 .. Len(a) : count(a \o b, x, i) = count(a, x, i)
           /\ \A k \in 0 .. Len(b) :
                 count(a \o b, x, Len(a) + k) = count(a, x, Len(a)) + count(b, x, k)
<1> DEFINE n == Len(a)
           c == a \o b
<1>1. /\ n \in Nat /\ Len(b) \in Nat
      /\ \A i \in 1 .. n : c[i] = a[i]
      /\ \A i \in 1 .. Len(b) : c[n + i] = b[i]
  <2>1. \A i \in 1 .. Len(a) + Len(b) : c[i] = IF i <= Len(a) THEN a[i] ELSE b[i - Len(a)]
    BY ConcatProperties
  <2>2. n \in Nat /\ Len(b) \in Nat
    BY LenProperties
  <2>3. \A i \in 1 .. n : c[i] = a[i]
    BY <2>1, <2>2
  <2>4. ASSUME NEW i \in 1 .. Len(b) PROVE c[n + i] = b[i]
    <3>1. n + i \in 1 .. n + Len(b) /\ ~(n + i <= n) /\ n + i - n = i
      BY <2>2
    <3> QED BY <2>1, <3>1
  <2> QED BY <2>2, <2>3, <2>4
<1> HIDE DEF n, c
<1>2. ASSUME NEW i \in 0 .. n PROVE count(c, x, i) = count(a, x, i)
  <2>1. {j \in 1 .. i : c[j] = x} = {j \in 1 .. i : a[j] = x}
    BY <1>1
  <2> QED BY <2>1 DEF count
<1>3. ASSUME NEW k \in 0 .. Len(b)
      PROVE  count(c, x, n + k) = count(a, x, n) + count(b, x, k)
  <2> DEFINE A == {j \in 1 .. n : a[j] = x}
             B == {j \in 1 .. k : b[j] = x}
             C == {j \in n + 1 .. n + k : c[j] = x}
             f == [j \in B |-> n + j]
  <2>0. k \in Nat /\ n \in Nat
    BY <1>1
  <2>1. {j \in 1 .. n + k : c[j] = x} = A \union C
    <3>1. ASSUME NEW j \in 1 .. n + k, c[j] = x PROVE j \in A \union C
      <4>1. CASE j <= n
        BY <1>1, <2>0, <3>1, <4>1
      <4>2. CASE j > n
        BY <2>0, <3>1, <4>2
      <4> QED BY <2>0, <4>1, <4>2
    <3>2. ASSUME NEW j \in A \union C PROVE j \in 1 .. n + k /\ c[j] = x
      BY <1>1, <2>0
    <3> QED BY <3>1, <3>2
  <2>2. A \intersect C = {}
    BY <2>0
  <2>3. IsFiniteSet(A) /\ IsFiniteSet(B) /\ IsFiniteSet(C)
    <3>1. IsFiniteSet(1 .. n) /\ IsFiniteSet(1 .. k) /\ IsFiniteSet(n + 1 .. n + k)
      BY <2>0, FS_Interval
    <3> QED BY <3>1, FS_Subset
  <2>4. f \in Bijection(B, C)
    <3>1. ASSUME NEW j \in B PROVE n + j \in C
      <4>1. c[n + j] = b[j]
        BY <1>1, <2>0
      <4> QED BY <2>0, <4>1
    <3>2. ASSUME NEW j \in C PROVE \E m \in B : f[m] = j
      <4>1. j - n \in 1 .. k /\ n + (j - n) = j
        BY <2>0
      <4>2. b[j - n] = x
        <5>1. j - n \in 1 .. Len(b)
          BY <1>1, <2>0, <4>1
        <5>2. c[n + (j - n)] = b[j - n]
          BY <1>1, <5>1
        <5> QED BY <4>1, <5>2
      <4>3. j - n \in B
        BY <4>1, <4>2
      <4> QED BY <4>1, <4>3
    <3>3. \A j, m \in B : f[j] = f[m] => j = m
      BY <2>0
    <3>4. f \in [B -> C]
      BY <3>1
    <3> QED BY <3>2, <3>3, <3>4 DEF Bijection, Injection, Surjection, IsInjective
  <2> HIDE DEF A, B, C, f
  <2>5. Cardinality(B) = Cardinality(C)
    <3>1. ExistsBijection(B, C)
      BY <2>4 DEF ExistsBijection
    <3> QED BY <2>3, <3>1, FS_Bijection
  <2>6. Cardinality(A \union C) = Cardinality(A) + Cardinality(C) - Cardinality(A \intersect C)
    BY <2>3, FS_Union
  <2>7. /\ Cardinality(A \intersect C) = 0
        /\ Cardinality(A) \in Nat /\ Cardinality(B) \in Nat
    BY <2>2, <2>3, FS_EmptySet, FS_CardinalityType
  <2>8. Cardinality(A \union C) = Cardinality(A) + Cardinality(B)
    BY <2>5, <2>6, <2>7
  <2> QED BY <2>1, <2>8 DEF count, A, B
<1> QED BY <1>2, <1>3 DEF c, n

(* So does the depth of parentheses. *)
LEMMA DepthConcat ==
    ASSUME NEW a \in Seq(Lexeme), NEW b \in Seq(Lexeme)
    PROVE  /\ \A i \in 0 .. Len(a) : depth(a \o b, i) = depth(a, i)
           /\ \A k \in 0 .. Len(b) :
                 depth(a \o b, Len(a) + k) = depth(a, Len(a)) + depth(b, k)
           /\ \A i \in 0 .. Len(a) : depth(a, i) \in Int
           /\ \A i \in 0 .. Len(b) : depth(b, i) \in Int
<1>1. \A t, i : depth(t, i) = count(t, <<"(">>, i) - count(t, <<")">>, i)
  BY DEF depth, count
<1>2. Len(a) \in Nat /\ Len(b) \in Nat
  BY LenProperties
<1>3. ASSUME NEW i \in 0 .. Len(a) PROVE depth(a \o b, i) = depth(a, i)
  <2>1. \A x : /\ \A j \in 0 .. Len(a) : count(a \o b, x, j) = count(a, x, j)
               /\ \A k \in 0 .. Len(b) :
                     count(a \o b, x, Len(a) + k) = count(a, x, Len(a)) + count(b, x, k)
    BY CountConcat
  <2> QED BY <1>1, <2>1
<1>4. ASSUME NEW k \in 0 .. Len(b)
      PROVE  depth(a \o b, Len(a) + k) = depth(a, Len(a)) + depth(b, k)
  <2>1. \A x : count(a \o b, x, Len(a) + k) = count(a, x, Len(a)) + count(b, x, k)
    BY CountConcat
  <2>2. \A x : count(a, x, Len(a)) \in Nat /\ count(b, x, k) \in Nat
    BY <1>2, CountType
  <2> QED BY <1>1, <2>1, <2>2
<1>5. \A t : \A i \in Nat : depth(t, i) \in Int
  BY <1>1, CountType
<1> QED BY <1>2, <1>3, <1>4, <1>5

(* A text with a length of at least one is not empty. *)
LEMMA NonEmpty ==
    ASSUME NEW t \in Seq(Lexeme), Len(t) >= 1
    PROVE  t # <<>>
<1> SUFFICES ASSUME t = <<>> PROVE FALSE
  OBVIOUS
<1>1. Len(t) = 0
  OBVIOUS
<1> QED BY <1>1

(* Words and names fit, whatever fits may follow on, or be put in          *)
(* parentheses.                                                            *)
LEMMA FitEmpty == Fit(<<>>) /\ OuterFree(<<>>)
<1>1. <<>> \in Seq(Lexeme) /\ Len(<<>>) = 0 /\ DOMAIN <<>> = {}
  BY EmptySeq
<1>2. count(<<>>, <<"(">>, 0) = 0 /\ count(<<>>, <<")">>, 0) = 0
  <2>1. \A x : {j \in 1 .. 0 : <<>>[j] = x} = {}
    OBVIOUS
  <2> QED BY <2>1, FS_EmptySet DEF count
<1>3. depth(<<>>, 0) = 0
  BY <1>2 DEF depth, count
<1> QED BY <1>1, <1>3 DEF Fit, Clean, Balanced, OuterFree

(* Well-formed texts, one after the other, are well formed; no verb is     *)
(* outside parentheses when none is in either.                             *)
LEMMA FitConcat ==
    ASSUME NEW a, Fit(a), NEW b, Fit(b)
    PROVE  /\ Fit(a \o b)
           /\ OuterFree(a) /\ OuterFree(b) => OuterFree(a \o b)
<1> DEFINE c == a \o b
<1>1. a \in Seq(Lexeme) /\ b \in Seq(Lexeme)
  BY DEF Fit
<1>2. /\ c \in Seq(Lexeme) /\ Len(c) = Len(a) + Len(b)
      /\ \A i \in 1 .. Len(a) + Len(b) : c[i] = IF i <= Len(a) THEN a[i] ELSE b[i - Len(a)]
  BY <1>1, ConcatProperties
<1>3. /\ Len(a) \in Nat /\ Len(b) \in Nat
      /\ DOMAIN a = 1 .. Len(a) /\ DOMAIN b = 1 .. Len(b) /\ DOMAIN c = 1 .. Len(c)
  BY <1>1, <1>2, LenProperties
<1>4. /\ \A i \in 0 .. Len(a) : depth(c, i) = depth(a, i)
      /\ \A k \in 0 .. Len(b) : depth(c, Len(a) + k) = depth(a, Len(a)) + depth(b, k)
      /\ \A i \in 0 .. Len(a) : depth(a, i) \in Int
      /\ \A i \in 0 .. Len(b) : depth(b, i) \in Int
  BY <1>1, DepthConcat
<1> HIDE DEF c
<1>5. /\ depth(a, Len(a)) = 0 /\ \A i \in 0 .. Len(a) : depth(a, i) >= 0
      /\ depth(b, Len(b)) = 0 /\ \A i \in 0 .. Len(b) : depth(b, i) >= 0
  BY DEF Fit, Balanced
<1>6. Clean(c)
  <2> SUFFICES ASSUME NEW i \in 1 .. Len(a) + Len(b) PROVE c[i] \notin {Blank, Comment}
    BY <1>2, <1>3 DEF Clean
  <2>1. CASE i <= Len(a)
    BY <1>2, <1>3, <2>1 DEF Fit, Clean
  <2>2. CASE i > Len(a)
    <3>1. i - Len(a) \in DOMAIN b /\ c[i] = b[i - Len(a)]
      BY <1>2, <1>3, <2>2
    <3> QED BY <3>1 DEF Fit, Clean
  <2> QED BY <1>3, <2>1, <2>2
<1>7. \A k \in 0 .. Len(b) : depth(c, Len(a) + k) = depth(b, k)
  BY <1>4, <1>5
<1>8. Balanced(c)
  <2>1. depth(c, Len(c)) = 0
    BY <1>2, <1>3, <1>5, <1>7
  <2>2. ASSUME NEW i \in 0 .. Len(c) PROVE depth(c, i) >= 0
    <3>1. CASE i <= Len(a)
      BY <1>3, <1>4, <1>5, <3>1
    <3>2. CASE i > Len(a)
      <4>1. i - Len(a) \in 0 .. Len(b) /\ i = Len(a) + (i - Len(a))
        BY <1>2, <1>3, <3>2
      <4>2. depth(c, Len(a) + (i - Len(a))) = depth(b, i - Len(a))
        BY <1>7, <4>1
      <4> QED BY <1>5, <4>1, <4>2
    <3> QED BY <1>2, <1>3, <3>1, <3>2
  <2> QED BY <2>1, <2>2 DEF Balanced
<1>9. ASSUME OuterFree(a), OuterFree(b) PROVE OuterFree(c)
  <2> SUFFICES ASSUME NEW i \in 1 .. Len(a) + Len(b), upper(c[i]) \in Verbs
               PROVE  depth(c, i) > 0
    BY <1>2 DEF OuterFree
  <2>1. CASE i <= Len(a)
    <3>1. i \in 1 .. Len(a) /\ i \in 0 .. Len(a) /\ c[i] = a[i]
      BY <1>2, <1>3, <2>1
    <3> QED BY <1>4, <1>9, <3>1 DEF OuterFree
  <2>2. CASE i > Len(a)
    <3>1. /\ i - Len(a) \in 0 .. Len(b) /\ i - Len(a) \in 1 .. Len(b)
          /\ i = Len(a) + (i - Len(a)) /\ c[i] = b[i - Len(a)]
      BY <1>2, <1>3, <2>2
    <3>2. depth(c, Len(a) + (i - Len(a))) = depth(b, i - Len(a))
      BY <1>7, <3>1
    <3>3. depth(b, i - Len(a)) > 0
      BY <1>9, <3>1 DEF OuterFree
    <3> QED BY <3>1, <3>2, <3>3
  <2> QED BY <1>3, <2>1, <2>2
<1> QED BY <1>2, <1>6, <1>8, <1>9 DEF Fit, c

(* The depth of a single lexeme. *)
LEMMA DepthOne ==
    ASSUME NEW x \in Lexeme
    PROVE  /\ <<x>> \in Seq(Lexeme) /\ Len(<<x>>) = 1 /\ <<x>>[1] = x
           /\ depth(<<x>>, 0) = 0
           /\ depth(<<x>>, 1) = IF x = <<"(">> THEN 1 ELSE IF x = <<")">> THEN -1 ELSE 0
<1>1. <<x>> \in Seq(Lexeme) /\ Len(<<x>>) = 1 /\ <<x>>[1] = x
  OBVIOUS
<1>2. \A y : count(<<x>>, y, 0) = 0
  <2>1. \A y : {j \in 1 .. 0 : <<x>>[j] = y} = {}
    OBVIOUS
  <2> QED BY <2>1, FS_EmptySet DEF count
<1>3. ASSUME NEW y PROVE count(<<x>>, y, 1) = IF x = y THEN 1 ELSE 0
  <2>1. CASE x = y
    <3>1. {j \in 1 .. 1 : <<x>>[j] = y} = {1}
      BY <2>1
    <3> QED BY <2>1, <3>1, FS_Singleton DEF count
  <2>2. CASE x # y
    <3>1. {j \in 1 .. 1 : <<x>>[j] = y} = {}
      BY <2>2
    <3> QED BY <2>2, <3>1, FS_EmptySet DEF count
  <2> QED BY <2>1, <2>2
<1>4. \A i : depth(<<x>>, i) = count(<<x>>, <<"(">>, i) - count(<<x>>, <<")">>, i)
  BY DEF depth, count
<1>5. <<"(">> # <<")">>
  OBVIOUS
<1> QED BY <1>1, <1>2, <1>3, <1>4, <1>5

(* A word is a text of one lexeme. *)
LEMMA WordSeq ==
    ASSUME NEW w \in Ident
    PROVE  Word(w) \in Seq(Lexeme) /\ Len(Word(w)) = 1 /\ Word(w)[1] = <<w>>
<1>1. <<w>> \in Lexeme
  BY DEF Lexeme
<1> QED BY <1>1, DepthOne DEF Word

(* A dotted name is a well-formed text. *)
LEMMA FitOne ==
    ASSUME NEW x \in Dotted
    PROVE  Fit(<<x>>) /\ (upper(x) \notin Verbs => OuterFree(<<x>>))
<1>1. x \in Lexeme /\ x # <<"(">> /\ x # <<")">> /\ x # Blank /\ x # Comment
  BY DEF Dotted, Lexeme, Marks, Blank, Comment
<1>2. /\ <<x>> \in Seq(Lexeme) /\ Len(<<x>>) = 1 /\ <<x>>[1] = x
      /\ depth(<<x>>, 0) = 0 /\ depth(<<x>>, 1) = 0
  BY <1>1, DepthOne
<1>3. DOMAIN <<x>> = {1}
  OBVIOUS
<1> QED BY <1>1, <1>2, <1>3 DEF Fit, Clean, Balanced, OuterFree

(* So is a word that is not a mark. *)
LEMMA FitWord ==
    ASSUME NEW w \in Plain
    PROVE  Fit(Word(w)) /\ (Lower[w] \notin Verbs => OuterFree(Word(w)))
<1>1. <<w>> \in Dotted /\ Len(<<w>>) = 1 /\ <<w>>[1] = w
  BY DEF Plain, Dotted
<1> QED BY <1>1, FitOne DEF Word, upper

(* Parentheses keep a text well formed and hide its verbs. *)
LEMMA FitParens ==
    ASSUME NEW t, Fit(t)
    PROVE  Fit(Parens(t)) /\ OuterFree(Parens(t))
<1> DEFINE o == Word("(")
           c == Word(")")
           p == o \o t
           q == p \o c
           n == Len(t)
<1>1. /\ <<"(">> \in Lexeme /\ <<")">> \in Lexeme
      /\ upper(<<"(">>) = "(" /\ upper(<<")">>) = ")"
  <2>1. "(" \in Ident /\ ")" \in Ident /\ Lower["("] = "(" /\ Lower[")"] = ")"
    BY WordsAssumption DEF Words, Marks
  <2> QED BY <2>1 DEF Lexeme, upper
<1>2. /\ o \in Seq(Lexeme) /\ Len(o) = 1 /\ o[1] = <<"(">>
      /\ depth(o, 0) = 0 /\ depth(o, 1) = 1
  BY <1>1, DepthOne DEF Word
<1>3. /\ c \in Seq(Lexeme) /\ Len(c) = 1 /\ c[1] = <<")">>
      /\ depth(c, 0) = 0 /\ depth(c, 1) = -1
  <2>1. <<")">> # <<"(">>
    OBVIOUS
  <2> QED BY <1>1, <2>1, DepthOne DEF Word
<1>4. /\ t \in Seq(Lexeme) /\ n \in Nat /\ DOMAIN t = 1 .. n
      /\ depth(t, n) = 0 /\ \A i \in 0 .. n : depth(t, i) >= 0
  BY LenProperties DEF Fit, Balanced
<1> HIDE DEF o, c, n
<1>5. /\ p \in Seq(Lexeme) /\ Len(p) = n + 1 /\ p[1] = <<"(">>
      /\ \A i \in 1 .. n : p[i + 1] = t[i]
  <2>0. /\ p \in Seq(Lexeme) /\ Len(p) = Len(o) + Len(t)
        /\ \A i \in 1 .. Len(o) + Len(t) : p[i] = IF i <= Len(o) THEN o[i] ELSE t[i - Len(o)]
    BY <1>2, <1>4, ConcatProperties
  <2> HIDE DEF p
  <2>1. /\ p \in Seq(Lexeme) /\ Len(p) = 1 + n
        /\ \A i \in 1 .. 1 + n : p[i] = IF i <= 1 THEN o[i] ELSE t[i - 1]
    BY <1>2, <2>0 DEF n
  <2>2. p[1] = <<"(">>
    BY <1>2, <1>4, <2>1
  <2>3. ASSUME NEW i \in 1 .. n PROVE p[i + 1] = t[i]
    <3>1. i + 1 \in 1 .. 1 + n /\ ~(i + 1 <= 1) /\ i + 1 - 1 = i
      BY <1>4
    <3> QED BY <2>1, <3>1
  <2> QED BY <1>4, <2>1, <2>2, <2>3
<1>6. /\ depth(p, 0) = 0
      /\ \A i \in 0 .. n : /\ depth(p, i + 1) = 1 + depth(t, i) /\ depth(p, i + 1) >= 1
                           /\ depth(p, i + 1) \in Int
  <2>0. /\ \A i \in 0 .. Len(o) : depth(p, i) = depth(o, i)
        /\ \A k \in 0 .. Len(t) : depth(p, Len(o) + k) = depth(o, Len(o)) + depth(t, k)
        /\ \A k \in 0 .. Len(t) : depth(t, k) \in Int
    BY <1>2, <1>4, DepthConcat
  <2> HIDE DEF p
  <2>1. depth(p, 0) = 0
    BY <1>2, <2>0
  <2>2. ASSUME NEW i \in 0 .. n
        PROVE  /\ depth(p, i + 1) = 1 + depth(t, i) /\ depth(p, i + 1) >= 1
               /\ depth(p, i + 1) \in Int
    <3>1. /\ depth(p, 1 + i) = 1 + depth(t, i) /\ depth(t, i) \in Int
          /\ depth(t, i) >= 0 /\ 1 + i = i + 1
      BY <1>2, <1>4, <2>0 DEF n
    <3> QED BY <3>1
  <2> QED BY <2>1, <2>2
<1> HIDE DEF p
<1>7. /\ q \in Seq(Lexeme) /\ Len(q) = n + 2 /\ q[n + 2] = <<")">>
      /\ \A i \in 1 .. n + 1 : q[i] = p[i]
  <2>0. /\ q \in Seq(Lexeme) /\ Len(q) = Len(p) + Len(c)
        /\ \A i \in 1 .. Len(p) + Len(c) : q[i] = IF i <= Len(p) THEN p[i] ELSE c[i - Len(p)]
    BY <1>3, <1>5, ConcatProperties
  <2> HIDE DEF q
  <2>1. /\ q \in Seq(Lexeme) /\ Len(q) = n + 2
        /\ \A i \in 1 .. n + 2 : q[i] = IF i <= n + 1 THEN p[i] ELSE c[i - (n + 1)]
    BY <1>3, <1>4, <1>5, <2>0
  <2>2. n + 2 \in 1 .. n + 2 /\ ~(n + 2 <= n + 1) /\ n + 2 - (n + 1) = 1
    BY <1>4
  <2>3. q[n + 2] = c[1]
    <3>1. PICK j \in 1 .. n + 2 : j = n + 2
      BY <2>2
    <3>2. q[j] = c[j - (n + 1)]
      BY <2>1, <2>2, <3>1
    <3>3. j - (n + 1) = 1
      BY <1>4, <3>1
    <3>4. q[j] = c[1]
      BY <3>2, <3>3
    <3> QED BY <3>1, <3>4
  <2>4. ASSUME NEW i \in 1 .. n + 1 PROVE q[i] = p[i]
    BY <1>4, <2>1
  <2> QED BY <1>3, <2>1, <2>3, <2>4
<1>8. /\ \A i \in 0 .. n + 1 : depth(q, i) = depth(p, i)
      /\ depth(q, n + 2) = 0
  <2>0. /\ \A i \in 0 .. Len(p) : depth(q, i) = depth(p, i)
        /\ \A k \in 0 .. Len(c) : depth(q, Len(p) + k) = depth(p, Len(p)) + depth(c, k)
    BY <1>3, <1>5, DepthConcat
  <2>1. /\ \A i \in 0 .. n + 1 : depth(q, i) = depth(p, i)
        /\ \A k \in 0 .. 1 : depth(q, n + 1 + k) = depth(p, n + 1) + depth(c, k)
    BY <1>3, <1>5, <2>0
  <2>2. depth(p, n + 1) = 1
    BY <1>4, <1>6
  <2> HIDE DEF q
  <2>3. depth(q, n + 1 + 1) = depth(p, n + 1) + depth(c, 1)
    BY <2>1
  <2> QED BY <1>3, <1>4, <2>1, <2>2, <2>3
<1> HIDE DEF q
<1>9. Clean(q)
  <2> SUFFICES ASSUME NEW i \in 1 .. n + 2 PROVE q[i] # Blank /\ q[i] # Comment
    BY <1>7, LenProperties DEF Clean
  <2>0. \A x \in {<<"(">>, <<")">>} : x # Blank /\ x # Comment
    <3>1. Blank[1] = " " /\ Comment[1] = "--" /\ <<"(">>[1] = "(" /\ <<")">>[1] = ")"
      BY DEF Blank, Comment
    <3> QED BY <3>1
  <2>1. CASE i = 1
    <3>1. 1 \in 1 .. n + 1
      BY <1>4
    <3> QED BY <1>5, <1>7, <2>0, <2>1, <3>1
  <2>2. CASE i = n + 2
    BY <1>7, <2>0, <2>2
  <2>3. CASE i \in 2 .. n + 1
    <3>1. i - 1 \in 1 .. n /\ (i - 1) + 1 = i /\ i \in 1 .. n + 1
      BY <1>4, <2>3
    <3>2. q[i] = t[i - 1]
      BY <1>5, <1>7, <3>1
    <3> QED BY <1>4, <3>1, <3>2 DEF Fit, Clean
  <2> QED BY <1>4, <2>1, <2>2, <2>3
<1>10. ASSUME NEW i \in 1 .. n + 1 PROVE depth(q, i) >= 1 /\ depth(q, i) \in Int
  <2>1. i - 1 \in 0 .. n /\ (i - 1) + 1 = i
    BY <1>4
  <2>2. depth(p, (i - 1) + 1) >= 1 /\ depth(p, (i - 1) + 1) \in Int
    BY <1>6, <2>1
  <2> QED BY <1>4, <1>8, <2>1, <2>2
<1>11. Balanced(q)
  <2>1. \A i \in 0 .. n + 2 : i = 0 \/ i = n + 2 \/ i \in 1 .. n + 1
    BY <1>4
  <2>2. depth(q, 0) = 0
    BY <1>4, <1>6, <1>8
  <2>3. \A i \in 0 .. n + 2 : depth(q, i) >= 0
    BY <1>8, <1>10, <2>1, <2>2
  <2> QED BY <1>7, <1>8, <2>3 DEF Balanced
<1>12. OuterFree(q)
  <2>1. \A i \in 1 .. n + 2 : i = n + 2 \/ i \in 1 .. n + 1
    BY <1>4
  <2>2. ")" \notin Verbs
    BY DEF Verbs, StatementClass
  <2>3. \A i \in 1 .. n + 2 : upper(q[i]) \in Verbs => depth(q, i) > 0
    BY <1>1, <1>7, <1>10, <2>1, <2>2
  <2> QED BY <1>7, <2>3 DEF OuterFree
<1> QED BY <1>7, <1>9, <1>11, <1>12 DEF Fit, Parens, q, p, o, c

-----------------------------------------------------------------------------
(* Leading names.                                                          *)

(* A name that is introduced in a part of a text is so in the whole. *)
LEMMA LeadingConcat ==
    ASSUME NEW a \in Seq(Lexeme), NEW b \in Seq(Lexeme)
    PROVE  /\ leadingNames(a) \subseteq leadingNames(a \o b)
           /\ leadingNames(b) \subseteq leadingNames(a \o b)
<1> DEFINE c == a \o b
<1>1. /\ c \in Seq(Lexeme) /\ Len(c) = Len(a) + Len(b)
      /\ \A i \in 1 .. Len(a) + Len(b) : c[i] = IF i <= Len(a) THEN a[i] ELSE b[i - Len(a)]
  BY ConcatProperties
<1>2. /\ Len(a) \in Nat /\ Len(b) \in Nat
      /\ DOMAIN a = 1 .. Len(a) /\ DOMAIN b = 1 .. Len(b) /\ DOMAIN c = 1 .. Len(a) + Len(b)
  BY <1>1, LenProperties
<1> HIDE DEF c
<1>3. ASSUME NEW k \in DOMAIN a, introduced(a, k), Len(a[k]) >= 2
      PROVE  a[k] \in leadingNames(c)
  <2>1. k - 1 \in DOMAIN a
    BY <1>3 DEF introduced
  <2>2. k \in DOMAIN c /\ k - 1 \in DOMAIN c /\ c[k] = a[k] /\ c[k - 1] = a[k - 1]
    BY <1>1, <1>2, <2>1
  <2>3. introduced(c, k)
    BY <1>3, <2>2 DEF introduced
  <2> QED BY <1>3, <2>2, <2>3 DEF leadingNames
<1>4. ASSUME NEW k \in DOMAIN b, introduced(b, k), Len(b[k]) >= 2
      PROVE  b[k] \in leadingNames(c)
  <2> DEFINE m == Len(a) + k
  <2>1. k - 1 \in DOMAIN b
    BY <1>4 DEF introduced
  <2>2. /\ m \in 1 .. Len(a) + Len(b) /\ ~(m <= Len(a)) /\ m - Len(a) = k
        /\ m - 1 \in 1 .. Len(a) + Len(b) /\ ~(m - 1 <= Len(a)) /\ (m - 1) - Len(a) = k - 1
    BY <1>2, <2>1
  <2> HIDE DEF m
  <2>3. m \in DOMAIN c /\ m - 1 \in DOMAIN c /\ c[m] = b[k] /\ c[m - 1] = b[k - 1]
    BY <1>1, <1>2, <2>2
  <2>4. introduced(c, m)
    BY <1>4, <2>3 DEF introduced
  <2> QED BY <1>4, <2>3, <2>4 DEF leadingNames
<1> QED BY <1>3, <1>4 DEF leadingNames, c

(* So is the first name of a text behind an introducing word. *)
LEMMA FirstIntroduced ==
    ASSUME NEW a \in Seq(Lexeme), NEW b \in Seq(Lexeme), b # <<>>, Len(b[1]) >= 2,
           NEW w \in {"FROM", "INTO", "TABLE", "UPDATE", "JOIN"}
    PROVE  b[1] \in leadingNames((a \o Word(w)) \o b)
<1> DEFINE v == Word(w)
           p == a \o v
           c == p \o b
           n == Len(a)
<1>1. /\ v \in Seq(Lexeme) /\ Len(v) = 1 /\ v[1] = <<w>> /\ upper(<<w>>) = w
  <2>1. w \in Ident /\ Lower[w] = w
    BY WordsAssumption DEF Words
  <2> QED BY <2>1 DEF Word, Lexeme, upper
<1>2. n \in Nat /\ Len(b) \in Nat /\ Len(b) >= 1
  BY EmptySeq, LenProperties
<1> HIDE DEF v
<1>3. p \in Seq(Lexeme) /\ Len(p) = n + 1 /\ p[n + 1] = <<w>>
  <2>1. /\ p \in Seq(Lexeme) /\ Len(p) = n + 1
        /\ \A i \in 1 .. n + 1 : p[i] = IF i <= n THEN a[i] ELSE v[i - n]
    BY <1>1, ConcatProperties
  <2> HIDE DEF p, n
  <2> QED BY <1>1, <1>2, <2>1
<1> HIDE DEF p
<1>4. /\ c \in Seq(Lexeme) /\ DOMAIN c = 1 .. n + 1 + Len(b)
      /\ c[n + 1] = <<w>> /\ c[n + 2] = b[1]
  <2>p. p \in Seq(Lexeme)
    BY <1>3
  <2>0. /\ c \in Seq(Lexeme) /\ Len(c) = Len(p) + Len(b)
        /\ \A i \in 1 .. Len(p) + Len(b) : c[i] = IF i <= Len(p) THEN p[i] ELSE b[i - Len(p)]
    BY <2>p, ConcatProperties
  <2> HIDE DEF c, n
  <2>1. /\ c \in Seq(Lexeme) /\ Len(c) = n + 1 + Len(b)
        /\ \A i \in 1 .. n + 1 + Len(b) : c[i] = IF i <= n + 1 THEN p[i] ELSE b[i - (n + 1)]
    BY <1>3, <2>0
  <2>2. DOMAIN c = 1 .. Len(c)
    BY <2>1, LenProperties
  <2>3. /\ n + 1 \in 1 .. n + 1 + Len(b) /\ n + 2 \in 1 .. n + 1 + Len(b)
        /\ ~(n + 2 <= n + 1) /\ n + 2 - (n + 1) = 1
    BY <1>2
  <2> QED BY <1>2, <1>3, <2>1, <2>2, <2>3
<1> HIDE DEF c, n
<1>5. n + 2 \in DOMAIN c /\ (n + 2) - 1 = n + 1 /\ n + 1 \in DOMAIN c
  BY <1>2, <1>4
<1>6. introduced(c, n + 2)
  BY <1>1, <1>4, <1>5 DEF introduced
<1>7. b[1] \in leadingNames(c)
  BY <1>4, <1>5, <1>6 DEF leadingNames
<1> QED BY <1>7 DEF c, p, v

-----------------------------------------------------------------------------
(* Tokens and class of a text.                                             *)

(* tokenizeRaw of a text in which m says how many lexemes have been read:  *)
(* one more at every position but white space and comments.                *)
LEMMA TokensOf ==
    ASSUME NEW text, Len(text) \in Nat, NEW toks \in Seq(Lexeme),
           NEW m \in [0 .. Len(text) -> 0 .. Len(toks)],
           m[0] = 0, m[Len(text)] = Len(toks),
           \A i \in 1 .. Len(text) :
              IF text[i] \in {Blank, Comment} THEN m[i] = m[i - 1]
              ELSE m[i] = m[i - 1] + 1 /\ text[i] = toks[m[i]]
    PROVE  tokenizeRaw(text) = toks
<1> DEFINE S == 0 .. Len(text)
           next(f, i) == IF i = 0 THEN <<>>
                         ELSE IF text[i] \in {Blank, Comment} THEN f[i - 1]
                         ELSE Append(f[i - 1], text[i])
           g == [i \in S |-> SubSeq(toks, 1, m[i])]
           k == CHOOSE f : f = [i \in S |-> next(f, i)]
<1>0. Len(toks) \in Nat /\ \A i \in 1 .. Len(toks) : toks[i] \in Lexeme
  BY LenProperties, ElementOfSeq
<1>1. ASSUME NEW i \in S PROVE SubSeq(toks, 1, m[i]) = next(g, i)
  <2>1. CASE i = 0
    <3>1. SubSeq(toks, 1, 0) = <<>>
      BY SubSeqEmpty
    <3> QED BY <2>1, <3>1
  <2>2. CASE i # 0
    <3>1. i \in 1 .. Len(text) /\ i - 1 \in S /\ m[i] \in 0 .. Len(toks) /\ m[i - 1] \in 0 .. Len(toks)
      BY <2>2
    <3>2. g[i - 1] = SubSeq(toks, 1, m[i - 1])
      BY <3>1
    <3>3. CASE text[i] \in {Blank, Comment}
      BY <2>2, <3>1, <3>2, <3>3
    <3>4. CASE text[i] \notin {Blank, Comment}
      <4>1. m[i] = m[i - 1] + 1 /\ text[i] = toks[m[i]]
        BY <3>1, <3>4
      <4>2. m[i] - 1 = m[i - 1] /\ 1 \in 1 .. Len(toks) /\ m[i] \in 1 .. Len(toks)
        <5>1. PICK x \in Nat, y \in Nat : x = m[i] /\ y = m[i - 1]
          BY <1>0, <3>1
        <5>2. x = y + 1 /\ x <= Len(toks)
          BY <3>1, <4>1, <5>1
        <5>3. x - 1 = y /\ 1 \in 1 .. Len(toks) /\ x \in 1 .. Len(toks)
          BY <1>0, <5>2
        <5> QED BY <5>1, <5>3
      <4>3. SubSeq(toks, 1, m[i]) = SubSeq(toks, 1, m[i] - 1) \o <<toks[m[i]]>>
        BY <4>2, SubSeqRecursiveSecond
      <4>4. SubSeq(toks, 1, m[i - 1]) \in Seq(Lexeme)
        <5>1. \A j \in 1 .. m[i - 1] : toks[j] \in Lexeme
          BY <1>0, <3>1
        <5>2. m[i - 1] \in Int /\ 1 \in Int
          BY <1>0, <3>1
        <5> QED BY <5>1, <5>2, SubSeqProperties
      <4>5. toks[m[i]] \in Lexeme
        BY <1>0, <4>2
      <4>6. Append(SubSeq(toks, 1, m[i - 1]), toks[m[i]]) = SubSeq(toks, 1, m[i - 1]) \o <<toks[m[i]]>>
        BY <4>4, <4>5, AppendIsConcat
      <4>7. next(g, i) = Append(SubSeq(toks, 1, m[i - 1]), toks[m[i]])
        BY <2>2, <3>2, <3>4, <4>1
      <4> HIDE DEF next, g
      <4> QED BY <4>2, <4>3, <4>6, <4>7
    <3> QED BY <3>3, <3>4
  <2> QED BY <2>1, <2>2
<1>2. g = [i \in S |-> next(g, i)]
  BY <1>1
<1>3. k = [i \in S |-> next(k, i)]
  BY <1>2
<1>4. tokenizeRaw(text) = k[Len(text)]
  BY DEF tokenizeRaw
<1> HIDE DEF k
<1>5. \A i \in S : k[i] = g[i]
  <2> SUFFICES ASSUME NEW i0 \in S, k[i0] # g[i0] PROVE FALSE
    OBVIOUS
  <2> DEFINE B == {i \in S : k[i] # g[i]}
  <2> HIDE DEF next, g
  <2>1. B \in SUBSET Nat /\ B # {}
    <3>1. S \in SUBSET Nat
      OBVIOUS
    <3>2. B \in SUBSET S /\ i0 \in B
      OBVIOUS
    <3> QED BY <3>1, <3>2
  <2>2. IsWellFoundedOn(OpToRel(<, Nat), Nat)
    BY NatLessThanWellFounded
  <2>3. PICK b \in B : \A y \in B : ~(<<y, b>> \in OpToRel(<, Nat))
    BY <2>1, <2>2, WFMin
  <2>4. \A y \in B : ~(y < b)
    BY <2>1, <2>3 DEF OpToRel
  <2>5. k[b] = next(k, b) /\ g[b] = next(g, b) /\ b \in S /\ b \in Nat
    BY <1>2, <1>3, <2>1
  <2>6. b # 0 => b - 1 \in S /\ b - 1 < b
    <3>1. b \in 0 .. Len(text) /\ b \in Nat
      BY <2>5
    <3> QED BY <3>1
  <2>7. b # 0 => k[b - 1] = g[b - 1]
    BY <2>4, <2>6
  <2>8. next(k, b) = next(g, b)
    BY <2>7 DEF next
  <2> QED BY <2>3, <2>5, <2>8
<1>6. k[Len(text)] = SubSeq(toks, 1, Len(toks))
  BY <1>5
<1> QED BY <1>4, <1>6, SubSeqFull

(* How a statement is laid out: a comment and white space, the first       *)
(* lexeme, white space, the rest.                                          *)
before(s) == IF s.commented THEN 2 ELSE 0
behind(s) == IF s.glued THEN 0 ELSE 1

(* The text of a statement, position by position: the comment in front,    *)
(* the first lexeme, the blank behind it, the other lexemes.               *)
LEMMA TextShape ==
    ASSUME NEW s, lexemes(s) \in Seq(Lexeme), lexemes(s) # <<>>
    PROVE  /\ Len(Text(s)) = Len(lexemes(s)) + before(s) + behind(s)
           /\ DOMAIN Text(s) = 1 .. Len(Text(s))
           /\ \A i \in 1 .. Len(Text(s)) :
                 /\ i <= before(s) => Text(s)[i] \in {Blank, Comment}
                 /\ i = before(s) + 1 => Text(s)[i] = lexemes(s)[1]
                 /\ i > before(s) + 1 /\ i <= before(s) + 1 + behind(s) => Text(s)[i] = Blank
                 /\ i > before(s) + 1 + behind(s) =>
                       Text(s)[i] = lexemes(s)[i - before(s) - behind(s)]
<1> DEFINE toks == lexemes(s)
           pre == IF s.commented THEN <<Comment, Blank>> ELSE <<>>
           sep == IF s.glued THEN <<>> ELSE <<Blank>>
           S == Seq(Ident)
           a == pre \o <<Head(toks)>>
           b == a \o sep
           c == b \o Tail(toks)
           p == before(s)
           q == behind(s)
           n == Len(toks)
<1>1. /\ pre \in Seq(S) /\ Len(pre) = p /\ p \in Nat /\ p \in {0, 2}
      /\ \A i \in 1 .. p : pre[i] \in {Blank, Comment}
  <2>1. Comment \in S /\ Blank \in S
    <3>1. "--" \in Ident /\ " " \in Ident
      BY WordsAssumption DEF Words, Marks
    <3>2. \A x \in Ident : <<x>> \in Seq(Ident)
      OBVIOUS
    <3> QED BY <3>1, <3>2, Zenon DEF Comment, Blank
  <2> QED BY <2>1 DEF before
<1>2. /\ sep \in Seq(S) /\ Len(sep) = q /\ q \in Nat /\ q \in {0, 1}
      /\ \A i \in 1 .. q : sep[i] = Blank
  <2>1. Blank \in S
    <3>1. " " \in Ident
      BY WordsAssumption DEF Words, Marks
    <3>2. \A x \in Ident : <<x>> \in Seq(Ident)
      OBVIOUS
    <3> QED BY <3>1, <3>2, Zenon DEF Blank
  <2> QED BY <2>1 DEF behind
<1>3. /\ toks \in Seq(S) /\ n \in Nat /\ n >= 1
      /\ <<Head(toks)>> \in Seq(S) /\ Len(<<Head(toks)>>) = 1 /\ <<Head(toks)>>[1] = toks[1]
      /\ Tail(toks) \in Seq(S) /\ Len(Tail(toks)) = n - 1
      /\ \A i \in 1 .. n - 1 : Tail(toks)[i] = toks[i + 1]
  <2>1. toks \in Seq(S)
    BY SeqMonotonic DEF Lexeme
  <2> HIDE DEF toks, S
  <2>2. n \in Nat \ {0}
    BY <2>1, EmptySeq DEF toks
  <2>3. /\ Head(toks) \in S /\ Tail(toks) \in Seq(S) /\ Len(Tail(toks)) = n - 1
        /\ \A i \in 1 .. n - 1 : Tail(toks)[i] = toks[i + 1]
    BY <2>1, HeadTailProperties DEF toks
  <2>4. Head(toks) = toks[1]
    OBVIOUS
  <2> QED BY <2>1, <2>2, <2>3, <2>4
<1> DEFINE h == <<Head(toks)>>
           r == Tail(toks)
<1> HIDE DEF toks, pre, sep, S, p, q, n, h, r
<1>4. /\ a \in Seq(S) /\ Len(a) = p + 1 /\ a[p + 1] = toks[1]
      /\ \A i \in 1 .. p : a[i] = pre[i]
  <2>1. /\ pre \o h \in Seq(S) /\ Len(pre \o h) = Len(pre) + Len(h)
        /\ \A i \in 1 .. Len(pre) + Len(h) :
              (pre \o h)[i] = IF i <= Len(pre) THEN pre[i] ELSE h[i - Len(pre)]
    <3>1. h \in Seq(S)
      BY <1>3 DEF h
    <3> QED BY <1>1, <3>1, ConcatProperties
  <2>2. /\ a \in Seq(S) /\ Len(a) = p + 1
        /\ \A i \in 1 .. p + 1 : a[i] = IF i <= p THEN pre[i] ELSE h[i - p]
    BY <1>1, <1>3, <2>1 DEF h
  <2> HIDE DEF a
  <2>3. a[p + 1] = h[1] /\ \A i \in 1 .. p : a[i] = pre[i]
    <3>1. PICK j \in 1 .. p + 1 : j = p + 1
      BY <1>1
    <3>2. a[j] = h[j - p] /\ j - p = 1
      BY <1>1, <2>2, <3>1
    <3> QED BY <1>1, <2>2, <3>1, <3>2
  <2> QED BY <1>3, <2>2, <2>3 DEF h
<1> HIDE DEF a
<1>5. /\ b \in Seq(S) /\ Len(b) = p + 1 + q
      /\ \A i \in 1 .. p + 1 : b[i] = a[i]
      /\ \A i \in 1 .. p + 1 + q : i > p + 1 => b[i] = Blank
  <2>1. /\ a \o sep \in Seq(S) /\ Len(a \o sep) = Len(a) + Len(sep)
        /\ \A i \in 1 .. Len(a) + Len(sep) :
              (a \o sep)[i] = IF i <= Len(a) THEN a[i] ELSE sep[i - Len(a)]
    BY <1>2, <1>4, ConcatProperties
  <2>2. /\ b \in Seq(S) /\ Len(b) = p + 1 + q
        /\ \A i \in 1 .. p + 1 + q : b[i] = IF i <= p + 1 THEN a[i] ELSE sep[i - (p + 1)]
    BY <1>2, <1>4, <2>1
  <2> HIDE DEF b
  <2>3. \A i \in 1 .. p + 1 : b[i] = a[i]
    BY <1>1, <1>2, <2>2
  <2>4. ASSUME NEW i \in 1 .. p + 1 + q, i > p + 1 PROVE b[i] = Blank
    <3>1. i - (p + 1) \in 1 .. q /\ b[i] = sep[i - (p + 1)]
      BY <1>1, <1>2, <2>2, <2>4
    <3> QED BY <1>2, <3>1
  <2> QED BY <2>2, <2>3, <2>4
<1> HIDE DEF b
<1>6. /\ c \in Seq(S) /\ Len(c) = n + p + q /\ DOMAIN c = 1 .. Len(c)
      /\ \A i \in 1 .. p + 1 + q : b[i] = c[i]
      /\ \A i \in 1 .. n + p + q : i > p + 1 + q => c[i] = toks[i - p - q]
  <2>0. r \in Seq(S) /\ Len(r) = n - 1 /\ \A i \in 1 .. n - 1 : r[i] = toks[i + 1]
    BY <1>3 DEF r
  <2>1. /\ b \o r \in Seq(S) /\ Len(b \o r) = Len(b) + Len(r)
        /\ \A i \in 1 .. Len(b) + Len(r) :
              (b \o r)[i] = IF i <= Len(b) THEN b[i] ELSE r[i - Len(b)]
    BY <1>5, <2>0, ConcatProperties
  <2>c. c = b \o r
    BY DEF r
  <2>2. /\ c \in Seq(S) /\ Len(c) = n + p + q
        /\ \A i \in 1 .. n + p + q :
              c[i] = IF i <= p + 1 + q THEN b[i] ELSE r[i - (p + 1 + q)]
    <3>1. Len(b) + Len(r) = n + p + q
      BY <1>1, <1>2, <1>3, <1>5, <2>0
    <3> QED BY <1>5, <2>1, <2>c, <3>1
  <2> HIDE DEF c
  <2>3. \A i \in 1 .. p + 1 + q : b[i] = c[i]
    <3>1. \A i \in 1 .. p + 1 + q : i \in 1 .. n + p + q /\ i <= p + 1 + q
      BY <1>1, <1>2, <1>3
    <3> QED BY <2>2, <3>1
  <2>4. ASSUME NEW i \in 1 .. n + p + q, i > p + 1 + q PROVE c[i] = toks[i - p - q]
    <3>1. i - (p + 1 + q) \in 1 .. n - 1 /\ i - (p + 1 + q) + 1 = i - p - q /\ ~(i <= p + 1 + q)
      BY <1>1, <1>2, <1>3, <2>4
    <3>2. c[i] = r[i - (p + 1 + q)]
      BY <2>2, <3>1
    <3> QED BY <2>0, <3>1, <3>2
  <2> QED BY <2>2, <2>3, <2>4, LenProperties
<1> HIDE DEF c
<1>7. Text(s) = c
  BY DEF Text, c, b, a, pre, sep, toks
<1>8. ASSUME NEW i \in 1 .. n + p + q
      PROVE  /\ i <= p => c[i] \in {Blank, Comment}
             /\ i = p + 1 => c[i] = toks[1]
             /\ i > p + 1 /\ i <= p + 1 + q => c[i] = Blank
             /\ i > p + 1 + q => c[i] = toks[i - p - q]
  <2>1. i <= p => c[i] \in {Blank, Comment}
    <3>1. i <= p => i \in 1 .. p + 1 + q /\ i \in 1 .. p + 1 /\ i \in 1 .. p
      BY <1>1, <1>2
    <3> QED BY <1>1, <1>4, <1>5, <1>6, <3>1
  <2>2. i = p + 1 => c[i] = toks[1]
    <3>1. i = p + 1 => i \in 1 .. p + 1 + q /\ i \in 1 .. p + 1
      BY <1>1, <1>2
    <3> QED BY <1>4, <1>5, <1>6, <3>1
  <2>3. i > p + 1 /\ i <= p + 1 + q => c[i] = Blank
    <3>1. i > p + 1 /\ i <= p + 1 + q => i \in 1 .. p + 1 + q
      BY <1>1, <1>2
    <3> QED BY <1>5, <1>6, <3>1
  <2> QED BY <1>6, <2>1, <2>2, <2>3
<1> QED BY <1>6, <1>7, <1>8 DEF toks, p, q, n

(* tokenizeRaw gives back the lexemes of a statement, with or without      *)
(* comments and blanks.                                                    *)
LEMMA TokensAreLexemes ==
    ASSUME NEW s, Fit(lexemes(s)), lexemes(s) # <<>>
    PROVE  tokenizeRaw(Text(s)) = lexemes(s)
<1> DEFINE toks == lexemes(s)
           text == Text(s)
           p == before(s)
           q == behind(s)
           n == Len(toks)
           m == [i \in 0 .. Len(text) |->
                   IF i <= p THEN 0 ELSE IF i <= p + 1 + q THEN 1 ELSE i - p - q]
<1>1. toks \in Seq(Lexeme) /\ n \in Nat /\ n >= 1 /\ DOMAIN toks = 1 .. n
  BY EmptySeq, LenProperties DEF Fit
<1>2. p \in Nat /\ q \in Nat
  BY DEF before, behind
<1>3. /\ Len(text) = n + p + q
      /\ \A i \in 1 .. Len(text) :
            /\ i <= p => text[i] \in {Blank, Comment}
            /\ i = p + 1 => text[i] = toks[1]
            /\ i > p + 1 /\ i <= p + 1 + q => text[i] = Blank
            /\ i > p + 1 + q => text[i] = toks[i - p - q]
  BY <1>1, TextShape
<1>4. \A i \in 1 .. n : toks[i] \notin {Blank, Comment}
  BY <1>1 DEF Fit, Clean
<1> HIDE DEF toks, text, p, q, n
<1>5. m \in [0 .. Len(text) -> 0 .. Len(toks)] /\ m[0] = 0 /\ m[Len(text)] = Len(toks)
  <2>1. ASSUME NEW i \in 0 .. Len(text) PROVE m[i] \in 0 .. n
    BY <1>1, <1>2, <1>3
  <2>2. m[0] = 0 /\ m[Len(text)] = n
    BY <1>1, <1>2, <1>3
  <2> QED BY <2>1, <2>2 DEF n
<1>6. ASSUME NEW i \in 1 .. Len(text)
      PROVE  IF text[i] \in {Blank, Comment} THEN m[i] = m[i - 1]
             ELSE m[i] = m[i - 1] + 1 /\ text[i] = toks[m[i]]
  <2>0. i \in 0 .. Len(text) /\ i - 1 \in 0 .. Len(text) /\ i \in Int
    BY <1>1, <1>2, <1>3
  <2>1. CASE i <= p
    BY <1>2, <1>3, <2>0, <2>1
  <2>2. CASE i = p + 1
    <3>1. m[i] = 1 /\ m[i - 1] = 0
      BY <1>2, <2>0, <2>2
    <3>2. text[i] = toks[1] /\ toks[1] \notin {Blank, Comment}
      BY <1>1, <1>3, <1>4, <2>2
    <3> QED BY <3>1, <3>2
  <2>3. CASE i > p + 1 /\ i <= p + 1 + q
    <3>1. m[i] = 1 /\ m[i - 1] = 1
      BY <1>2, <2>0, <2>3
    <3>2. text[i] = Blank
      BY <1>3, <2>3
    <3> QED BY <3>1, <3>2
  <2>4. CASE i > p + 1 + q
    <3>1. m[i] = i - p - q /\ m[i - 1] + 1 = i - p - q
      BY <1>2, <2>0, <2>4
    <3>2. i - p - q \in 1 .. n
      BY <1>1, <1>2, <1>3, <2>4
    <3>3. text[i] = toks[i - p - q]
      BY <1>3, <2>4
    <3>4. text[i] \notin {Blank, Comment}
      BY <1>4, <3>2, <3>3
    <3> QED BY <3>1, <3>3, <3>4
  <2> QED BY <1>2, <2>0, <2>1, <2>2, <2>3, <2>4
<1>7. Len(text) \in Nat
  BY <1>1, <1>2, <1>3
<1> HIDE DEF m
<1>8. tokenizeRaw(text) = toks
  BY <1>1, <1>5, <1>6, <1>7, TokensOf
<1> QED BY <1>8 DEF text, toks

(* The first word of a statement, unless something is attached to it. *)
LEMMA FirstVerb ==
    ASSUME NEW s, Fit(lexemes(s)), Len(lexemes(s)) >= 2
    PROVE  extractVerb(Text(s)) = IF Len(lexemes(s)[1]) # 1 \/ s.glued THEN "attached"
                                  ELSE upper(lexemes(s)[1])
<1> DEFINE toks == lexemes(s)
           text == Text(s)
           p == before(s)
           q == behind(s)
           n == Len(toks)
           starts == {i \in DOMAIN text : text[i] \notin {Blank, Comment}}
<1>1. toks \in Seq(Lexeme) /\ n \in Nat /\ n >= 2 /\ DOMAIN toks = 1 .. n /\ toks # <<>>
  <2>1. toks \in Seq(Lexeme) /\ n \in Nat /\ n >= 2 /\ DOMAIN toks = 1 .. n
    BY LenProperties DEF Fit
  <2> QED BY <2>1, EmptySeq
<1>2. p \in Nat /\ q \in Nat /\ q = IF s.glued THEN 0 ELSE 1
  BY DEF before, behind
<1>3. /\ Len(text) = n + p + q /\ DOMAIN text = 1 .. Len(text)
      /\ \A i \in 1 .. Len(text) :
            /\ i <= p => text[i] \in {Blank, Comment}
            /\ i = p + 1 => text[i] = toks[1]
            /\ i > p + 1 /\ i <= p + 1 + q => text[i] = Blank
            /\ i > p + 1 + q => text[i] = toks[i - p - q]
  BY <1>1, TextShape
<1>4. \A i \in 1 .. n : toks[i] \notin {Blank, Comment}
  BY <1>1 DEF Fit, Clean
<1>a. extractVerb(text) = IF starts = {} THEN ""
                          ELSE IF \/ Len(text[Min(starts)]) # 1
                                  \/ Min(starts) < Len(text) /\ text[Min(starts) + 1] # Blank
                               THEN "attached"
                          ELSE upper(text[Min(starts)])
  BY DEF extractVerb
<1> HIDE DEF toks, text, p, q, n
<1>5. p + 1 \in 1 .. Len(text) /\ p + 2 \in 1 .. Len(text) /\ p + 1 < Len(text)
  BY <1>1, <1>2, <1>3
<1>6. text[p + 1] = toks[1] /\ toks[1] \notin {Blank, Comment}
  BY <1>1, <1>3, <1>4, <1>5
<1>7. p + 1 \in starts /\ \A i \in starts : p + 1 <= i
  <2>1. p + 1 \in starts
    BY <1>3, <1>5, <1>6
  <2>2. ASSUME NEW i \in starts PROVE p + 1 <= i
    BY <1>2, <1>3
  <2> QED BY <2>1, <2>2
<1>b. \A i \in starts : i \in Int
  BY <1>3
<1> HIDE DEF starts
<1>8. Min(starts) = p + 1
  <2>1. \A x \in starts : (\A y \in starts : x <= y) => x = p + 1
    BY <1>2, <1>7, <1>b
  <2> QED BY <1>7, <2>1 DEF Min
<1>9. text[p + 2] = IF s.glued THEN toks[2] ELSE Blank
  <2>1. CASE s.glued
    <3>1. q = 0 /\ p + 2 > p + 1 + q /\ p + 2 - p - q = 2
      BY <1>2, <2>1
    <3>2. PICK j \in 1 .. Len(text) : j = p + 2 /\ j - p - q = 2
      BY <1>2, <1>5, <3>1
    <3>3. text[j] = toks[j - p - q]
      BY <1>3, <3>1, <3>2
    <3> QED BY <2>1, <3>2, <3>3
  <2>2. CASE ~s.glued
    <3>1. p + 2 > p + 1 /\ p + 2 <= p + 1 + q
      BY <1>2, <2>2
    <3> QED BY <1>3, <1>5, <2>2, <3>1
  <2> QED BY <2>1, <2>2
<1>10. toks[2] # Blank
  BY <1>1, <1>4
<1>c. p + 1 + 1 = p + 2 /\ starts # {}
  BY <1>2, <1>7
<1>11. extractVerb(text) = IF Len(toks[1]) # 1 \/ s.glued THEN "attached" ELSE upper(toks[1])
  BY <1>a, <1>5, <1>6, <1>8, <1>9, <1>10, <1>c
<1> QED BY <1>11 DEF text, toks

(* The text of a statement after its WITH clause begins with its verb. *)
LEMMA ClassOf ==
    ASSUME NEW s, NEW w, Fit(w), NEW v \in Verbs \intersect Words, v # "DESC",
           NEW r \in Seq(Lexeme), lexemes(s) = (w \o Word(v)) \o r,
           Fit(lexemes(s)), Len(lexemes(s)) >= 2,
           w # <<>> => w[1] = <<"WITH">> /\ OuterFree(w)
    PROVE  Classify(Text(s)) = IF s.glued THEN "OTHER" ELSE v
<1> DEFINE toks == lexemes(s)
           u == Word(v)
           a == w \o u
           n == Len(w)
<1>1. /\ u \in Seq(Lexeme) /\ Len(u) = 1 /\ u[1] = <<v>> /\ upper(<<v>>) = v
      /\ depth(u, 0) = 0 /\ depth(u, 1) = 0
  <2>1. v \in Ident /\ Lower[v] = v
    BY WordsAssumption
  <2>2. <<v>> \in Lexeme /\ <<v>> # <<"(">> /\ <<v>> # <<")">> /\ upper(<<v>>) = v
    <3>1. v # "(" /\ v # ")"
      BY DEF Verbs, StatementClass
    <3>2. <<v>>[1] = v /\ <<"(">>[1] = "(" /\ <<")">>[1] = ")"
      OBVIOUS
    <3>3. <<v>> \in Lexeme
      BY <2>1 DEF Lexeme
    <3> QED BY <2>1, <3>1, <3>2, <3>3 DEF upper
  <2> QED BY <2>2, DepthOne DEF Word
<1>2. w \in Seq(Lexeme) /\ n \in Nat /\ Len(r) \in Nat
  BY LenProperties DEF Fit
<1>3. /\ a \in Seq(Lexeme) /\ Len(a) = n + 1 /\ a[n + 1] = <<v>>
      /\ \A i \in 1 .. n : a[i] = w[i]
      /\ \A i \in 0 .. n : depth(a, i) = depth(w, i)
      /\ depth(a, n + 1) = 0
  <2>0. /\ a \in Seq(Lexeme) /\ Len(a) = Len(w) + Len(u)
        /\ \A i \in 1 .. Len(w) + Len(u) : a[i] = IF i <= Len(w) THEN w[i] ELSE u[i - Len(w)]
    <3> HIDE DEF u, n
    <3>1. w \in Seq(Lexeme) /\ u \in Seq(Lexeme)
      BY <1>1, <1>2
    <3> QED BY <3>1, ConcatProperties
  <2>d. /\ \A i \in 0 .. Len(w) : depth(a, i) = depth(w, i)
        /\ \A k \in 0 .. Len(u) : depth(a, Len(w) + k) = depth(w, Len(w)) + depth(u, k)
    BY <1>1, <1>2, DepthConcat
  <2>e. depth(w, n) = 0
    BY DEF Fit, Balanced
  <2> HIDE DEF a, u, n
  <2>1. /\ a \in Seq(Lexeme) /\ Len(a) = n + 1
        /\ \A i \in 1 .. n + 1 : a[i] = IF i <= n THEN w[i] ELSE u[i - n]
    BY <1>1, <2>0 DEF n
  <2>2. a[n + 1] = u[1]
    <3>1. PICK j \in 1 .. n + 1 : j = n + 1
      BY <1>2
    <3>2. a[j] = u[j - n] /\ j - n = 1
      BY <1>2, <2>1, <3>1
    <3> QED BY <3>1, <3>2
  <2>3. \A i \in 1 .. n : a[i] = w[i]
    BY <1>2, <2>1
  <2>4. depth(a, n + 1) = 0
    BY <1>1, <2>d, <2>e DEF n
  <2> QED BY <1>1, <2>1, <2>2, <2>3, <2>4, <2>d DEF n
<1> HIDE DEF a, u, n
<1>4. /\ toks \in Seq(Lexeme) /\ Len(toks) \in Nat /\ Len(toks) >= n + 1
      /\ toks[n + 1] = <<v>> /\ depth(toks, n + 1) = 0
      /\ \A i \in 1 .. n : toks[i] = w[i] /\ depth(toks, i) = depth(w, i)
  <2>0. /\ a \o r \in Seq(Lexeme) /\ Len(a \o r) = Len(a) + Len(r)
        /\ \A i \in 1 .. Len(a) + Len(r) : (a \o r)[i] = IF i <= Len(a) THEN a[i] ELSE r[i - Len(a)]
    BY <1>3, ConcatProperties
  <2>d. \A i \in 0 .. Len(a) : depth(a \o r, i) = depth(a, i)
    BY <1>3, DepthConcat
  <2>t. toks = a \o r
    BY DEF a, u
  <2> HIDE DEF toks
  <2>1. /\ toks \in Seq(Lexeme) /\ Len(toks) = n + 1 + Len(r)
        /\ \A i \in 1 .. n + 1 : toks[i] = a[i]
        /\ \A i \in 0 .. n + 1 : depth(toks, i) = depth(a, i)
    <3>1. \A i \in 1 .. n + 1 : i \in 1 .. n + 1 + Len(r) /\ i <= n + 1
      BY <1>2 DEF n
    <3> QED BY <1>3, <2>0, <2>d, <2>t, <3>1
  <2>2. /\ n + 1 \in 1 .. n + 1 /\ n + 1 \in 0 .. n + 1
        /\ \A i \in 1 .. n : i \in 1 .. n + 1 /\ i \in 0 .. n + 1 /\ i \in 0 .. n
    BY <1>2 DEF n
  <2>3. Len(toks) \in Nat /\ Len(toks) >= n + 1
    BY <1>2, <2>1 DEF n
  <2> QED BY <1>3, <2>1, <2>2, <2>3
<1> HIDE DEF toks
<1>n. n \in Nat
  BY <1>2 DEF n
<1>5. extractVerb(Text(s)) = IF Len(toks[1]) # 1 \/ s.glued THEN "attached" ELSE upper(toks[1])
  BY FirstVerb DEF toks
<1>o. \A x : Len(<<x>>) = 1
  OBVIOUS
<1>6. CASE s.glued
  <2>1. "attached" \notin Verbs
    BY DEF Verbs, StatementClass
  <2> QED BY <1>5, <1>6, <2>1 DEF Classify
<1>7. CASE ~s.glued /\ w = <<>>
  <2>1. n = 0
    BY <1>7 DEF n
  <2>2. toks[1] = <<v>>
    BY <1>4, <2>1
  <2>3. v # "" /\ v # "WITH"
    BY DEF Verbs, StatementClass
  <2> QED BY <1>1, <1>5, <1>7, <1>o, <2>2, <2>3 DEF Classify, verbClass
<1>8. CASE ~s.glued /\ w # <<>>
  <2>1. n >= 1 /\ w[1] = <<"WITH">> /\ OuterFree(w)
    BY <1>2, <1>8, EmptySeq DEF n
  <2>2. toks[1] = <<"WITH">>
    BY <1>n, <1>4, <2>1
  <2>3. upper(toks[1]) = "WITH"
    <3>1. Lower["WITH"] = "WITH"
      BY WordsAssumption DEF Words
    <3> QED BY <2>2, <3>1 DEF upper
  <2>4. tokenizeRaw(Text(s)) = toks
    <3>1. lexemes(s) # <<>>
      BY <1>4, <1>n, EmptySeq DEF toks
    <3> QED BY <3>1, TokensAreLexemes DEF toks
  <2>5. Classify(Text(s)) = classifyWith(toks)
    <3>1. "WITH" \notin Verbs /\ "WITH" # ""
      BY DEF Verbs, StatementClass
    <3> QED BY <1>5, <1>8, <1>o, <2>2, <2>3, <2>4, <3>1 DEF Classify
  <2> DEFINE V == {i \in 2 .. Len(toks) : depth(toks, i) <= 0 /\ upper(toks[i]) \in Verbs}
  <2>6. n + 1 \in V
    <3>1. n + 1 \in 2 .. Len(toks)
      BY <1>4, <1>n, <2>1
    <3>2. depth(toks, n + 1) <= 0 /\ upper(toks[n + 1]) \in Verbs
      BY <1>1, <1>4
    <3> QED BY <3>1, <3>2
  <2>7. ASSUME NEW i \in V PROVE n + 1 <= i
    <3> SUFFICES ASSUME i <= n PROVE FALSE
      BY <1>n
    <3>1. i \in 1 .. n /\ toks[i] = w[i] /\ depth(toks, i) = depth(w, i)
      BY <1>4, <1>n
    <3>2. depth(w, i) > 0 /\ upper(toks[i]) \in Verbs
      BY <2>1, <3>1 DEF OuterFree, n
    <3>3. depth(w, i) \in Int
      BY <1>2, <3>1, DepthConcat DEF n
    <3>4. depth(w, i) <= 0
      BY <3>1
    <3> QED BY <3>2, <3>3, <3>4
  <2>8. \A i \in V : i \in Int
    OBVIOUS
  <2>9. classifyWith(toks) = IF V = {} THEN "SELECT" ELSE verbClass(upper(toks[Min(V)]))
    BY DEF classifyWith
  <2> HIDE DEF V
  <2>10. Min(V) = n + 1
    <3>1. \A x \in V : (\A y \in V : x <= y) => x = n + 1
      BY <1>n, <2>6, <2>7, <2>8
    <3> QED BY <2>6, <2>7, <3>1 DEF Min
  <2> QED BY <1>1, <1>4, <1>8, <2>5, <2>6, <2>9, <2>10 DEF verbClass
<1> QED BY <1>6, <1>7, <1>8

-----------------------------------------------------------------------------
(* Uses: what the walk should find in a node, from what it should find in  *)
(* its children.                                                           *)

(* Nothing in the uses V is to be found by the walk. *)
Unseen(V) == calls(V) = {} /\ refsIn(V, "filter") = {} /\ refsIn(V, "column") = {} /\ ~hasStar(V)

(* The walk is to find the same in both. *)
SameSeen(V, U) ==
    /\ calls(V) = calls(U) /\ refsIn(V, "filter") = refsIn(U, "filter")
    /\ refsIn(V, "column") = refsIn(U, "column") /\ (hasStar(V) <=> hasStar(U))

NamesOK(U) == \A u \in U : u.name \in Lexeme

(* The references of two sets of uses together are those of both. *)
LEMMA RefsUnion ==
    ASSUME NEW U, NEW V, NEW what
    PROVE  refsIn(U \union V, what) = refsIn(U, what) \union refsIn(V, what)
<1>1. outside(U \union V, Blind) = outside(U, Blind) \union outside(V, Blind)
  BY DEF outside
<1> QED BY <1>1 DEF refsIn, refsOf

(* So are their calls, their stars and their leading names. *)
LEMMA UsesUnion ==
    ASSUME NEW U, NEW V
    PROVE  /\ calls(U \union V) = calls(U) \union calls(V)
           /\ hasStar(U \union V) <=> hasStar(U) \/ hasStar(V)
           /\ leadingIn(U \union V) = leadingIn(U) \union leadingIn(V)
           /\ NamesOK(U) /\ NamesOK(V) => NamesOK(U \union V)
<1>1. \A c : outside(U \union V, c) = outside(U, c) \union outside(V, c)
  BY DEF outside
<1>2. calls(U \union V) = calls(U) \union calls(V)
  BY <1>1 DEF calls, callsIn
<1>4. hasStar(U \union V) <=> hasStar(U) \/ hasStar(V)
  BY <1>1 DEF hasStar
<1>5. leadingIn(U \union V) = leadingIn(U) \union leadingIn(V)
  BY DEF leadingIn
<1> QED BY <1>2, <1>4, <1>5 DEF NamesOK

(* What the walk is to find in two sets of uses together. *)
LEMMA SeenUnion ==
    ASSUME NEW U, NEW V
    PROVE  /\ calls(U \union V) = calls(U) \union calls(V)
           /\ hasStar(U \union V) <=> hasStar(U) \/ hasStar(V)
           /\ refsIn(U \union V, "filter") = refsIn(U, "filter") \union refsIn(V, "filter")
<1>1. refsIn(U \union V, "filter") = refsIn(U, "filter") \union refsIn(V, "filter")
  BY RefsUnion
<1>2. /\ calls(U \union V) = calls(U) \union calls(V)
      /\ hasStar(U \union V) <=> hasStar(U) \/ hasStar(V)
  BY UsesUnion
<1> QED BY <1>1, <1>2

(* There is nothing to find where nothing is used. *)
LEMMA UsesNone == Unseen({}) /\ leadingIn({}) = {} /\ NamesOK({})
BY DEF Unseen, calls, callsIn, refsIn, refsOf, hasStar, outside, leadingIn, NamesOK

(* What the constructs around a use make of it: the blind ones hide it, ON *)
(* clauses and the WHERE of a change hide calls and stars, and parentheses *)
(* only its leading position.                                              *)
LEMMA UsesThrough ==
    ASSUME NEW c, NEW U
    PROVE  /\ c \in Blind => Unseen(through(c, U))
           /\ c \in {"on", "change"} =>
                 /\ calls(through(c, U)) = {} /\ ~hasStar(through(c, U))
                 /\ \A what : refsIn(through(c, U), what) = refsIn(U, what)
           /\ c = "unintroduced" =>
                 SameSeen(through(c, U), U) /\ leadingIn(through(c, U)) = {}
           /\ leadingIn(through(c, U)) \subseteq leadingIn(U)
           /\ NamesOK(U) => NamesOK(through(c, U))
<1> DEFINE img(u) == [what |-> u.what, name |-> u.name, as |-> u.as,
                      path |-> u.path \union {c}]
           V == through(c, U)
<1>1. V = {img(u) : u \in U}
  BY DEF through
<1>2. \A u : /\ img(u).what = u.what /\ img(u).name = u.name
             /\ img(u).path = u.path \union {c}
  OBVIOUS
<1> HIDE DEF img, V
<1>3. \A k : c \in k => outside(V, k) = {}
  BY <1>1, <1>2 DEF outside
<1>4. ASSUME NEW k, c \notin k PROVE outside(V, k) = {img(u) : u \in outside(U, k)}
  <2>1. \A u : img(u).path \intersect k = u.path \intersect k
    BY <1>2, <1>4
  <2> QED BY <1>1, <2>1 DEF outside
<1>5. c \in Blind => c \in BlindForCalls
  BY DEF BlindForCalls
<1>6. c \in Blind => Unseen(V)
  BY <1>3, <1>5 DEF Unseen, calls, callsIn, refsIn, refsOf, hasStar
<1>7. c \in {"on", "change"} => c \in BlindForCalls /\ c \notin Blind
  BY DEF BlindForCalls, Blind
<1>8. ASSUME NEW what, c \notin Blind PROVE refsIn(V, what) = refsIn(U, what)
  <2>1. outside(V, Blind) = {img(u) : u \in outside(U, Blind)}
    BY <1>4, <1>8
  <2> QED BY <1>2, <2>1 DEF refsIn, refsOf
<1>9. c \in BlindForCalls => calls(V) = {} /\ ~hasStar(V)
  BY <1>3 DEF calls, callsIn, hasStar
<1>10. c \notin BlindForCalls => calls(V) = calls(U) /\ (hasStar(V) <=> hasStar(U))
  <2>1. SUFFICES ASSUME c \notin BlindForCalls
                 PROVE  calls(V) = calls(U) /\ (hasStar(V) <=> hasStar(U))
    OBVIOUS
  <2>2. outside(V, BlindForCalls) = {img(u) : u \in outside(U, BlindForCalls)}
    BY <1>4, <2>1
  <2>3. calls(V) = calls(U)
    BY <1>2, <2>2 DEF calls, callsIn
  <2>4. hasStar(V) <=> hasStar(U)
    BY <1>2, <2>2 DEF hasStar
  <2> QED BY <2>3, <2>4
<1>11. c = "unintroduced" => c \notin BlindForCalls /\ c \notin Blind
  BY DEF BlindForCalls, Blind
<1>12. leadingIn(V) \subseteq leadingIn(U)
  BY <1>1, <1>2 DEF leadingIn
<1>13. c = "unintroduced" => leadingIn(V) = {}
  BY <1>1, <1>2 DEF leadingIn
<1>14. NamesOK(U) => NamesOK(V)
  BY <1>1, <1>2 DEF NamesOK
<1> QED
  BY <1>6, <1>7, <1>8, <1>9, <1>10, <1>11, <1>12, <1>13, <1>14 DEF SameSeen, V

(* A clause makes references of the columns in it, and nothing else. *)
LEMMA UsesPlaced ==
    ASSUME NEW clause \in {"filter", "output"}, NEW U
    PROVE  /\ calls(placed(clause, U)) = calls(U)
           /\ hasStar(placed(clause, U)) <=> hasStar(U)
           /\ refsIn(placed(clause, U), "filter")
                = refsIn(U, "filter") \union (IF clause = "filter" THEN refsIn(U, "column") ELSE {})
           /\ leadingIn(placed(clause, U)) = leadingIn(U)
           /\ NamesOK(U) => NamesOK(placed(clause, U))
<1> DEFINE img(u) == [what |-> IF u.what = "column" THEN clause ELSE u.what, name |-> u.name,
                      as |-> u.as, path |-> u.path]
           V == placed(clause, U)
<1>1. V = {img(u) : u \in U}
  BY DEF placed
<1>2. \A u : /\ img(u).what = IF u.what = "column" THEN clause ELSE u.what
             /\ img(u).name = u.name /\ img(u).path = u.path
  OBVIOUS
<1> HIDE DEF img, V
<1>3. \A k : outside(V, k) = {img(u) : u \in outside(U, k)}
  BY <1>1, <1>2 DEF outside
<1>4. \A u : \A what \in {"call", "star", "table"} : img(u).what = what <=> u.what = what
  BY <1>2
<1>5. calls(V) = calls(U)
  BY <1>2, <1>3, <1>4 DEF calls, callsIn
<1>6. hasStar(V) <=> hasStar(U)
  BY <1>3, <1>4 DEF hasStar
<1>7. refsIn(V, "filter")
        = refsIn(U, "filter") \union (IF clause = "filter" THEN refsIn(U, "column") ELSE {})
  <2>1. CASE clause = "filter"
    <3>1. \A u : img(u).what = "filter" <=> u.what = "filter" \/ u.what = "column"
      BY <1>2, <2>1
    <3> QED BY <1>2, <1>3, <2>1, <3>1 DEF refsIn, refsOf
  <2>2. CASE clause = "output"
    <3>1. \A u : img(u).what = "filter" <=> u.what = "filter"
      BY <1>2, <2>2
    <3> QED BY <1>2, <1>3, <2>2, <3>1 DEF refsIn, refsOf
  <2> QED BY <2>1, <2>2
<1>8. leadingIn(V) = leadingIn(U)
  BY <1>1, <1>2, <1>4 DEF leadingIn
<1>9. NamesOK(U) => NamesOK(V)
  BY <1>1, <1>2 DEF NamesOK
<1> QED BY <1>5, <1>6, <1>7, <1>8, <1>9 DEF V

(* What there is to find in a single use. *)
LEMMA UsesOne ==
    ASSUME NEW what \in {"column", "call", "table", "cte", "star"}, NEW name \in Lexeme, NEW as
    PROVE  LET U == Use(what, name, as)
           IN  /\ calls(U) = IF what = "call" THEN {Lower[name[1]]} ELSE {}
               /\ refsIn(U, "filter") = {}
               /\ refsIn(U, "column") = IF what = "column" THEN {WhereRef(name)} ELSE {}
               /\ hasStar(U) <=> what = "star"
               /\ what # "table" => leadingIn(U) = {}
               /\ NamesOK(U)
<1> DEFINE r == [what |-> what, name |-> name, as |-> as, path |-> {}]
           U == Use(what, name, as)
<1>1. U = {r} /\ r.what = what /\ r.name = name /\ r.path = {}
  BY DEF Use
<1> HIDE DEF r, U
<1>2. \A k : outside(U, k) = {r}
  BY <1>1 DEF outside
<1>3. calls(U) = IF what = "call" THEN {Lower[name[1]]} ELSE {}
  BY <1>1, <1>2 DEF calls, callsIn
<1>4. /\ refsIn(U, "filter") = {}
      /\ refsIn(U, "column") = IF what = "column" THEN {WhereRef(name)} ELSE {}
  BY <1>1, <1>2 DEF refsIn, refsOf
<1>5. hasStar(U) <=> what = "star"
  BY <1>1, <1>2 DEF hasStar
<1>6. what # "table" => leadingIn(U) = {}
  BY <1>1 DEF leadingIn
<1>7. NamesOK(U)
  BY <1>1 DEF NamesOK
<1> QED BY <1>3, <1>4, <1>5, <1>6, <1>7 DEF U

(* The uses F are of the table that the text t begins with. *)
Begins(t, F) ==
    \A u \in F : u.what = "table" /\ u.path = {} /\ u.name = t[1] /\ u.name \in Lexeme

(* The table a text begins with has nothing for the walk. *)
LEMMA UsesBegin ==
    ASSUME NEW t, NEW F, Begins(t, F)
    PROVE  /\ Unseen(F) /\ NamesOK(F)
           /\ \A x \in leadingIn(F) : x = t[1] /\ Len(x) >= 2
<1>1. \A k : \A u \in outside(F, k) : u.what = "table"
  BY DEF Begins, outside
<1>2. Unseen(F)
  BY <1>1 DEF Unseen, calls, callsIn, refsIn, refsOf, hasStar
<1>3. \A x \in leadingIn(F) : x = t[1] /\ Len(x) >= 2
  BY DEF Begins, leadingIn
<1> QED BY <1>2, <1>3 DEF Begins, NamesOK

-----------------------------------------------------------------------------
(* Texts that fit, and introduce the leading tables of the uses U.         *)

Carries(t, U) == Fit(t) /\ leadingIn(U) \subseteq leadingNames(t)

(* The words of statements that are neither verbs nor marks. *)
LEMMA WordsPlain ==
    /\ Words \ Marks \subseteq Plain /\ \A w \in Words \ Verbs : Lower[w] \notin Verbs
    /\ Verbs \intersect Marks = {}
<1>1. Verbs \intersect Marks = {}
  BY DEF Verbs, StatementClass, Marks
<1> QED BY <1>1, WordsAssumption DEF Plain

(* The empty text carries no uses. *)
LEMMA CarriesEmpty == Carries(<<>>, {})
BY FitEmpty, UsesNone DEF Carries

(* Nor does a word. *)
LEMMA CarriesWord ==
    ASSUME NEW w \in Plain
    PROVE  Carries(Word(w), {})
BY FitWord, UsesNone DEF Carries

(* A text carries the uses of its parts. *)
LEMMA CarriesConcat ==
    ASSUME NEW a, NEW A, Carries(a, A), NEW b, NEW B, Carries(b, B)
    PROVE  /\ Carries(a \o b, A \union B)
           /\ Len(a) \in Nat /\ Len(b) \in Nat /\ Len(a \o b) = Len(a) + Len(b)
<1>1. a \in Seq(Lexeme) /\ b \in Seq(Lexeme) /\ Fit(a) /\ Fit(b)
  BY DEF Carries, Fit
<1>2. Fit(a \o b)
  BY <1>1, FitConcat
<1>3. /\ leadingNames(a) \subseteq leadingNames(a \o b)
      /\ leadingNames(b) \subseteq leadingNames(a \o b)
  BY <1>1, LeadingConcat
<1>4. leadingIn(A \union B) \subseteq leadingNames(a \o b)
  <2>1. leadingIn(A \union B) = leadingIn(A) \union leadingIn(B)
    BY UsesUnion
  <2> QED BY <1>3, <2>1 DEF Carries
<1>5. Len(a) \in Nat /\ Len(b) \in Nat /\ Len(a \o b) = Len(a) + Len(b)
  BY <1>1, ConcatProperties, LenProperties
<1> QED BY <1>2, <1>4, <1>5 DEF Carries

(* Also with a word between them. *)
LEMMA CarriesBetween ==
    ASSUME NEW a, NEW A, Carries(a, A), NEW w \in Plain, NEW b, NEW B, Carries(b, B)
    PROVE  /\ Carries(a \o Word(w), A) /\ Carries((a \o Word(w)) \o b, A \union B)
           /\ Len((a \o Word(w)) \o b) = Len(a) + 1 + Len(b)
           /\ Len(a) \in Nat /\ Len(b) \in Nat
<1> DEFINE v == Word(w)
           c == a \o v
<1>1. Carries(v, {}) /\ Len(v) = 1
  BY CarriesWord DEF Word
<1> HIDE DEF v
<1>2. Carries(c, A \union {}) /\ Len(c) = Len(a) + Len(v) /\ Len(a) \in Nat
  BY <1>1, CarriesConcat
<1>3. A \union {} = A
  OBVIOUS
<1> HIDE DEF c
<1>4. Carries(c, A)
  BY <1>2, <1>3
<1>5. Carries(c \o b, A \union B) /\ Len(c \o b) = Len(c) + Len(b) /\ Len(b) \in Nat
  BY <1>4, CarriesConcat
<1> QED BY <1>1, <1>2, <1>4, <1>5 DEF c, v

(* Also inside parentheses. *)
LEMMA CarriesParens ==
    ASSUME NEW t, NEW U, Carries(t, U)
    PROVE  Carries(Parens(t), U) /\ Parens(t) # <<>>
<1> DEFINE o == Word("(")
           c == Word(")")
<1>1. o \in Seq(Lexeme) /\ c \in Seq(Lexeme) /\ Len(o) = 1 /\ Len(c) = 1
  <2>1. "(" \in Ident /\ ")" \in Ident
    BY WordsAssumption DEF Words, Marks
  <2> QED BY <2>1 DEF Word, Lexeme
<1>2. t \in Seq(Lexeme) /\ Fit(t)
  BY DEF Carries, Fit
<1>3. Fit(Parens(t))
  BY <1>2, FitParens
<1> HIDE DEF o, c
<1>4. o \o t \in Seq(Lexeme) /\ Len(o \o t) = Len(o) + Len(t) /\ Len(t) \in Nat
  BY <1>1, <1>2, ConcatProperties, LenProperties
<1>5. Len((o \o t) \o c) = Len(o \o t) + Len(c)
  BY <1>1, <1>4, ConcatProperties
<1>6. leadingNames(t) \subseteq leadingNames(o \o t)
  BY <1>1, <1>2, LeadingConcat
<1>7. leadingNames(o \o t) \subseteq leadingNames((o \o t) \o c)
  BY <1>1, <1>4, LeadingConcat
<1>8. Parens(t) = (o \o t) \o c
  BY DEF Parens, o, c
<1>9. Parens(t) # <<>>
  <2> DEFINE p == (o \o t) \o c
  <2>1. p \in Seq(Lexeme)
    BY <1>1, <1>4, ConcatProperties
  <2>2. Len(p) >= 1
    BY <1>1, <1>4, <1>5
  <2> HIDE DEF p
  <2>3. p # <<>>
    BY <2>1, <2>2, NonEmpty
  <2> QED BY <1>8, <2>3 DEF p
<1> QED BY <1>3, <1>6, <1>7, <1>8, <1>9 DEF Carries

(* Only what is introduced counts. *)
LEMMA CarriesLess ==
    ASSUME NEW t, NEW U, Carries(t, U), NEW V, leadingIn(V) \subseteq leadingIn(U)
    PROVE  Carries(t, V)
BY DEF Carries

(* And the table that the second part begins with, when the word between   *)
(* them introduces it.                                                     *)
LEMMA CarriesFirst ==
    ASSUME NEW a, NEW A, Carries(a, A), NEW w \in {"FROM", "INTO", "TABLE", "UPDATE", "JOIN"},
           NEW b, NEW B, Carries(b, B), b # <<>>, NEW F, Begins(b, F)
    PROVE  Carries((a \o Word(w)) \o b, (A \union F) \union B)
<1> DEFINE c == a \o Word(w)
<1>1. w \in Plain
  <2>1. w \in Words \ Marks
    BY DEF Words, Marks
  <2> QED BY <2>1, WordsPlain
<1>2. Carries(c, A \union {})
  BY <1>1, CarriesWord, CarriesConcat
<1>3. Carries(c \o b, (A \union {}) \union B)
  BY <1>2, CarriesConcat
<1>4. leadingIn(F) \subseteq leadingNames(c \o b)
  <2> SUFFICES ASSUME NEW x \in leadingIn(F) PROVE x \in leadingNames(c \o b)
    OBVIOUS
  <2>1. x = b[1] /\ Len(x) >= 2
    BY UsesBegin
  <2>2. a \in Seq(Lexeme) /\ b \in Seq(Lexeme)
    BY DEF Carries, Fit
  <2> QED BY <2>1, <2>2, FirstIntroduced
<1> HIDE DEF c
<1>5. leadingIn(A) \subseteq leadingNames(c \o b) /\ leadingIn(B) \subseteq leadingNames(c \o b)
  <2>1. leadingIn(A \union B) = leadingIn(A) \union leadingIn(B) /\ A \union {} = A
    BY UsesUnion
  <2> QED BY <1>3, <2>1 DEF Carries
<1>6. leadingIn((A \union F) \union B) = (leadingIn(A) \union leadingIn(F)) \union leadingIn(B)
  <2>1. leadingIn(A \union F) = leadingIn(A) \union leadingIn(F)
    BY UsesUnion
  <2> DEFINE D == A \union F
  <2>2. leadingIn(D \union B) = leadingIn(D) \union leadingIn(B)
    <3> HIDE DEF D
    <3> QED BY UsesUnion
  <2> QED BY <2>1, <2>2
<1> QED BY <1>3, <1>4, <1>5, <1>6 DEF Carries, c

-----------------------------------------------------------------------------
(* Results of a walk.                                                      *)

(* An alias stands for the bare name of a table that has it. *)
AliasOK(aliases, U) ==
    \A a \in DOMAIN aliases : \E u \in U :
        u.what = "table" /\ u.as = a /\ aliases[a] = lastComponent(u.name)

(* The walk has collected what there is in U, and nothing else. *)
ResultOK(r, U) ==
    /\ r.refs = refsIn(U, "filter") /\ r.functions = calls(U)
    /\ r.selectAll \in BOOLEAN /\ (r.selectAll <=> hasStar(U))
    /\ AliasOK(r.aliases, U)

(* Aliases that come from some uses come from more. *)
LEMMA AliasWiden ==
    ASSUME NEW aliases, NEW U, AliasOK(aliases, U), NEW V, U \subseteq V
    PROVE  AliasOK(aliases, V)
BY DEF AliasOK

(* Aliases keep their origin inside a construct. *)
LEMMA AliasThrough ==
    ASSUME NEW aliases, NEW U, AliasOK(aliases, U), NEW c
    PROVE  AliasOK(aliases, through(c, U))
<1> SUFFICES ASSUME NEW a \in DOMAIN aliases
             PROVE  \E u \in through(c, U) :
                       u.what = "table" /\ u.as = a /\ aliases[a] = lastComponent(u.name)
  BY DEF AliasOK
<1>1. PICK u \in U : u.what = "table" /\ u.as = a /\ aliases[a] = lastComponent(u.name)
  BY DEF AliasOK
<1> DEFINE v == [what |-> u.what, name |-> u.name, as |-> u.as, path |-> u.path \union {c}]
<1>2. v \in through(c, U)
  BY DEF through
<1>3. v.what = u.what /\ v.name = u.name /\ v.as = u.as
  OBVIOUS
<1> HIDE DEF v
<1> QED BY <1>1, <1>2, <1>3

(* Aliases that replace others come from the uses of either. *)
LEMMA AliasReplacing ==
    ASSUME NEW old, NEW U, AliasOK(old, U), NEW new, NEW V, AliasOK(new, V)
    PROVE  AliasOK(replacing(old, new), U \union V)
<1> DEFINE r == replacing(old, new)
<1>1. /\ DOMAIN r = DOMAIN old \union DOMAIN new
      /\ \A a \in DOMAIN new : r[a] = new[a]
      /\ \A a \in DOMAIN old : a \notin DOMAIN new => r[a] = old[a]
  BY DEF replacing
<1> HIDE DEF r
<1>2. AliasOK(r, U \union V)
  BY <1>1 DEF AliasOK
<1> QED BY <1>2 DEF r

(* No aliases come from anywhere. *)
LEMMA NoAliases == \A U : AliasOK(<<>>, U)
<1>1. DOMAIN <<>> = {}
  OBVIOUS
<1> QED BY <1>1 DEF AliasOK

(* A walk that is not made misses nothing in what is hidden. *)
LEMMA ResultNone ==
    ASSUME NEW U, Unseen(U)
    PROVE  ResultOK(NoResult, U)
<1>1. /\ NoResult.refs = {} /\ NoResult.functions = {} /\ NoResult.selectAll = FALSE
      /\ NoResult.aliases = <<>>
  BY DEF NoResult
<1> QED BY <1>1, NoAliases DEF ResultOK, Unseen

(* One walk after another collects what is in both. *)
LEMMA ResultFollowed ==
    ASSUME NEW a, NEW U, ResultOK(a, U), NEW b, NEW V, ResultOK(b, V)
    PROVE  ResultOK(followedBy(a, b), U \union V)
<1> DEFINE r == followedBy(a, b)
<1>1. /\ r.refs = a.refs \union b.refs /\ r.aliases = replacing(a.aliases, b.aliases)
      /\ r.functions = a.functions \union b.functions
      /\ r.selectAll = (a.selectAll \/ b.selectAll)
  BY DEF followedBy
<1> HIDE DEF r
<1>2. AliasOK(r.aliases, U \union V)
  BY <1>1, AliasReplacing DEF ResultOK
<1>3. r.refs = refsIn(U \union V, "filter") /\ r.functions = calls(U \union V)
  <2>1. refsIn(U \union V, "filter") = refsIn(U, "filter") \union refsIn(V, "filter")
    BY RefsUnion
  <2>2. calls(U \union V) = calls(U) \union calls(V)
    BY UsesUnion
  <2> QED BY <1>1, <2>1, <2>2 DEF ResultOK
<1>4. r.selectAll \in BOOLEAN /\ (r.selectAll <=> hasStar(U \union V))
  BY <1>1, UsesUnion DEF ResultOK
<1> QED BY <1>2, <1>3, <1>4 DEF ResultOK, r

(* Hidden uses make no difference to a walk. *)
LEMMA ResultWiden ==
    ASSUME NEW r, NEW U, ResultOK(r, U), NEW V, Unseen(V)
    PROVE  ResultOK(r, U \union V) /\ ResultOK(r, V \union U)
<1>1. AliasOK(r.aliases, U \union V) /\ U \union V = V \union U
  BY AliasWiden DEF ResultOK
<1>2. r.refs = refsIn(U \union V, "filter") /\ r.functions = calls(U \union V)
  <2>1. refsIn(U \union V, "filter") = refsIn(U, "filter") \union refsIn(V, "filter")
    BY RefsUnion
  <2>2. calls(U \union V) = calls(U) \union calls(V)
    BY UsesUnion
  <2> QED BY <2>1, <2>2 DEF ResultOK, Unseen
<1>3. r.selectAll <=> hasStar(U \union V)
  BY UsesUnion DEF ResultOK, Unseen
<1>4. ResultOK(r, U \union V)
  BY <1>1, <1>2, <1>3 DEF ResultOK
<1> QED BY <1>1, <1>4

-----------------------------------------------------------------------------
(* Expressions.                                                            *)

ExprOK(n) ==
    /\ Carries(n.text, n.uses) /\ NamesOK(n.uses)
    /\ n.functions = calls(n.uses) /\ n.columns = refsIn(n.uses, "column")
    /\ refsIn(n.uses, "filter") = {} /\ ~hasStar(n.uses)

(* An absent expression is in order. *)
LEMMA NoExprOK == ExprOK(NoExpr)
<1>1. /\ NoExpr.text = <<>> /\ NoExpr.uses = {} /\ NoExpr.columns = {}
      /\ NoExpr.functions = {}
  BY DEF NoExpr
<1> QED BY <1>1, CarriesEmpty, UsesNone DEF ExprOK, Unseen

(* So is a column. *)
LEMMA ColOK ==
    ASSUME NEW c \in Dotted
    PROVE  ExprOK(Expr(Col(c)))
<1> DEFINE n == Expr(Col(c))
           U == Use("column", c, "")
<1>1. /\ n.text = <<c>> /\ n.uses = U /\ n.columns = {WhereRef(c)} /\ n.functions = {}
  BY DEF Expr, Col, exprText, exprUses, extractColumnsFromExpr, collectFunctionsFromExpr
<1> HIDE DEF n
<1>2. c \in Lexeme
  BY DEF Dotted, Lexeme
<1>3. /\ calls(U) = {} /\ refsIn(U, "filter") = {} /\ refsIn(U, "column") = {WhereRef(c)}
      /\ ~hasStar(U) /\ leadingIn(U) = {} /\ NamesOK(U)
  BY <1>2, UsesOne
<1> HIDE DEF U
<1>4. Carries(<<c>>, U)
  BY <1>3, FitOne DEF Carries
<1>5. ExprOK(n)
  BY <1>1, <1>3, <1>4 DEF ExprOK
<1> QED BY <1>5 DEF n

(* So is a literal. *)
LEMMA LiteralOK == ExprOK(Expr(Literal))
<1> DEFINE n == Expr(Literal)
<1>1. n.text = Word("'") /\ n.uses = {} /\ n.columns = {} /\ n.functions = {}
  BY DEF Expr, Literal, exprText, exprUses, extractColumnsFromExpr, collectFunctionsFromExpr
<1> HIDE DEF n
<1>2. "'" \in Plain
  <2>1. "'" \in Words \ Marks
    BY DEF Words, Marks
  <2> QED BY <2>1, WordsPlain
<1>3. ExprOK(n)
  BY <1>1, <1>2, CarriesWord, UsesNone DEF ExprOK, Unseen
<1> QED BY <1>3 DEF n

(* So is a call: its name is found along with its arguments. *)
LEMMA FuncOK ==
    ASSUME NEW f \in Plain, NEW args, ExprOK(args)
    PROVE  ExprOK(Expr(FuncExpr(f, args)))
<1> DEFINE n == Expr(FuncExpr(f, args))
           U == Use("call", <<f>>, "")
           V == args.uses
<1>1. /\ n.text = Word(f) \o Parens(args.text) /\ n.uses = U \union V
      /\ n.columns = args.columns /\ n.functions = {Lower[f]} \union args.functions
  BY DEF Expr, FuncExpr, exprText, exprUses, extractColumnsFromExpr, collectFunctionsFromExpr
<1> HIDE DEF n
<1>2. <<f>> \in Lexeme /\ <<f>>[1] = f
  BY DEF Plain, Lexeme
<1>3. /\ calls(U) = {Lower[f]} /\ refsIn(U, "filter") = {} /\ refsIn(U, "column") = {}
      /\ ~hasStar(U) /\ leadingIn(U) = {} /\ NamesOK(U)
  BY <1>2, UsesOne
<1> HIDE DEF U
<1>4. Carries(Word(f), U)
  BY <1>3, CarriesWord DEF Carries
<1>5. Carries(Parens(args.text), V)
  BY CarriesParens DEF ExprOK
<1>6. Carries(n.text, U \union V)
  BY <1>1, <1>4, <1>5, CarriesConcat
<1>7. /\ calls(U \union V) = calls(U) \union calls(V)
      /\ hasStar(U \union V) <=> hasStar(U) \/ hasStar(V)
      /\ NamesOK(U) /\ NamesOK(V) => NamesOK(U \union V)
  BY UsesUnion
<1>r. /\ refsIn(U \union V, "filter") = refsIn(U, "filter") \union refsIn(V, "filter")
      /\ refsIn(U \union V, "column") = refsIn(U, "column") \union refsIn(V, "column")
  BY RefsUnion
<1>8. ExprOK(n)
  <2>1. /\ NamesOK(V) /\ args.functions = calls(V) /\ args.columns = refsIn(V, "column")
        /\ refsIn(V, "filter") = {} /\ ~hasStar(V)
    BY DEF ExprOK
  <2> HIDE DEF V
  <2>2. Carries(n.text, n.uses) /\ NamesOK(n.uses) /\ ~hasStar(n.uses)
    BY <1>1, <1>3, <1>6, <1>7, <2>1
  <2>3. n.functions = calls(n.uses)
    BY <1>1, <1>3, <1>7, <2>1
  <2>4. n.columns = refsIn(n.uses, "column") /\ refsIn(n.uses, "filter") = {}
    BY <1>1, <1>3, <1>r, <2>1
  <2> QED BY <2>2, <2>3, <2>4 DEF ExprOK
<1> QED BY <1>8 DEF n

(* So are operators and lists: both operands are looked into. *)
LEMMA PairOK ==
    ASSUME NEW left, ExprOK(left), NEW right, ExprOK(right)
    PROVE  ExprOK(Expr(Operator(left, right))) /\ ExprOK(Expr(ExprList(left, right)))
<1> DEFINE U == left.uses
           V == right.uses
<1>r. /\ refsIn(U \union V, "filter") = refsIn(U, "filter") \union refsIn(V, "filter")
      /\ refsIn(U \union V, "column") = refsIn(U, "column") \union refsIn(V, "column")
  BY RefsUnion
<1>1. ASSUME NEW n, NEW w \in {"=", ","}, n.text = (left.text \o Word(w)) \o right.text,
             n.uses = U \union V, n.columns = left.columns \union right.columns,
             n.functions = left.functions \union right.functions
      PROVE  ExprOK(n)
  <2>1. w \in Plain
    <3>1. w \in Words \ Marks
      BY DEF Words, Marks
    <3> QED BY <3>1, WordsPlain
  <2>2. Carries(left.text, U) /\ Carries(right.text, V)
    BY DEF ExprOK
  <2> HIDE DEF U, V
  <2>3. Carries((left.text \o Word(w)) \o right.text, U \union V)
    BY <2>1, <2>2, CarriesBetween
  <2>5. /\ calls(U \union V) = calls(U) \union calls(V)
        /\ hasStar(U \union V) <=> hasStar(U) \/ hasStar(V)
        /\ NamesOK(U) /\ NamesOK(V) => NamesOK(U \union V)
    BY UsesUnion
  <2>7. /\ NamesOK(U) /\ left.functions = calls(U) /\ left.columns = refsIn(U, "column")
        /\ refsIn(U, "filter") = {} /\ ~hasStar(U)
        /\ NamesOK(V) /\ right.functions = calls(V) /\ right.columns = refsIn(V, "column")
        /\ refsIn(V, "filter") = {} /\ ~hasStar(V)
    BY DEF ExprOK, U, V
  <2>8. Carries(n.text, n.uses) /\ NamesOK(n.uses) /\ ~hasStar(n.uses)
    BY <1>1, <2>3, <2>5, <2>7
  <2>9. n.functions = calls(n.uses)
    BY <1>1, <2>5, <2>7
  <2>10. n.columns = refsIn(n.uses, "column") /\ refsIn(n.uses, "filter") = {}
    BY <1>1, <1>r, <2>7
  <2> QED BY <2>8, <2>9, <2>10 DEF ExprOK
<1> DEFINE m == Expr(Operator(left, right))
           n == Expr(ExprList(left, right))
<1>2. /\ m.text = (left.text \o Word("=")) \o right.text /\ m.uses = U \union V
      /\ m.columns = left.columns \union right.columns
      /\ m.functions = left.functions \union right.functions
  BY DEF Expr, Operator, exprText, exprUses, extractColumnsFromExpr, collectFunctionsFromExpr
<1>3. /\ n.text = (left.text \o Word(",")) \o right.text /\ n.uses = U \union V
      /\ n.columns = left.columns \union right.columns
      /\ n.functions = left.functions \union right.functions
  BY DEF Expr, ExprList, exprText, exprUses, extractColumnsFromExpr, collectFunctionsFromExpr
<1> HIDE DEF m, n, U, V
<1>4. ExprOK(m) /\ ExprOK(n)
  BY <1>1, <1>2, <1>3
<1> QED BY <1>4 DEF m, n

(* The walk stops at these, and nothing in them counts. *)
LEMMA OpaqueOK ==
    ASSUME NEW e, ExprOK(e)
    PROVE  ExprOK(Expr(Opaque(e)))
<1> DEFINE n == Expr(Opaque(e))
           U == e.uses
           V == through("opaque", U)
<1>1. /\ n.text = (Word("CASE") \o e.text) \o Word("END") /\ n.uses = V
      /\ n.columns = {} /\ n.functions = {}
  BY DEF Expr, Opaque, exprText, exprUses, extractColumnsFromExpr, collectFunctionsFromExpr
<1> HIDE DEF n
<1>2. "CASE" \in Plain /\ "END" \in Plain
  <2>1. {"CASE", "END"} \subseteq Words \ Marks
    BY DEF Words, Marks
  <2> QED BY <2>1, WordsPlain
<1>3. "opaque" \in Blind
  BY DEF Blind
<1>4. Unseen(V) /\ leadingIn(V) \subseteq leadingIn(U) /\ NamesOK(V)
  BY <1>3, UsesThrough DEF ExprOK
<1> HIDE DEF V
<1>5. Carries(e.text, V)
  BY <1>4, CarriesLess DEF ExprOK
<1>6. Carries(Word("CASE") \o e.text, {} \union V)
  BY <1>2, <1>5, CarriesWord, CarriesConcat
<1>7. Carries(n.text, ({} \union V) \union {})
  BY <1>1, <1>2, <1>6, CarriesWord, CarriesConcat
<1>8. ({} \union V) \union {} = V
  OBVIOUS
<1>9. ExprOK(n)
  BY <1>1, <1>4, <1>7, <1>8 DEF ExprOK, Unseen
<1> QED BY <1>9 DEF n

(* So is a subquery: it is not looked into. *)
LEMMA SubqueryOK ==
    ASSUME NEW q, Carries(q.text, q.uses), NamesOK(q.uses)
    PROVE  ExprOK(Expr(Subquery(q)))
<1> DEFINE n == Expr(Subquery(q))
           V == through("subquery", q.uses)
<1>1. n.text = Parens(q.text) /\ n.uses = V /\ n.columns = {} /\ n.functions = {}
  BY DEF Expr, Subquery, exprText, exprUses, extractColumnsFromExpr, collectFunctionsFromExpr
<1> HIDE DEF n
<1>2. "subquery" \in Blind
  BY DEF Blind
<1>3. Unseen(V) /\ leadingIn(V) \subseteq leadingIn(q.uses) /\ NamesOK(V)
  BY <1>2, UsesThrough
<1> HIDE DEF V
<1>4. Carries(n.text, V)
  BY <1>1, <1>3, CarriesParens, CarriesLess
<1>5. ExprOK(n)
  BY <1>1, <1>3, <1>4 DEF ExprOK, Unseen
<1> QED BY <1>5 DEF n

-----------------------------------------------------------------------------
(* Table expressions.                                                      *)

(* The columns of the ON clauses, and the result of the walk, are what     *)
(* there is in U.                                                          *)
Found(columns, r, U) ==
    /\ columns \union r.refs = refsIn(U, "filter") /\ r.functions = calls(U)
    /\ r.selectAll \in BOOLEAN /\ (r.selectAll <=> hasStar(U))
    /\ AliasOK(r.aliases, U)

(* References alone are found without a walk. *)
LEMMA FoundNone ==
    ASSUME NEW U, NEW columns, columns = refsIn(U, "filter"), calls(U) = {}, ~hasStar(U)
    PROVE  Found(columns, NoResult, U)
<1>1. /\ NoResult.refs = {} /\ NoResult.functions = {} /\ NoResult.selectAll = FALSE
      /\ NoResult.aliases = <<>>
  BY DEF NoResult
<1>2. columns \union {} = columns
  OBVIOUS
<1> QED BY <1>1, <1>2, NoAliases DEF Found

(* Without further references, it is the walk that finds them. *)
LEMMA FoundResult ==
    ASSUME NEW r, NEW U
    PROVE  ResultOK(r, U) <=> Found({}, r, U)
<1>1. {} \union r.refs = r.refs
  OBVIOUS
<1> QED BY <1>1 DEF ResultOK, Found

(* Further references add to a walk. *)
LEMMA FoundMore ==
    ASSUME NEW c, NEW r, NEW U, Found(c, r, U), NEW d, NEW V, Found(d, NoResult, V)
    PROVE  Found(c \union d, r, U \union V)
<1>1. d = refsIn(V, "filter") /\ calls(V) = {} /\ ~hasStar(V)
  <2>1. NoResult.refs = {} /\ NoResult.functions = {} /\ NoResult.selectAll = FALSE
    BY DEF NoResult
  <2>2. d \union {} = d
    OBVIOUS
  <2> QED BY <2>1, <2>2 DEF Found
<1>2. refsIn(U \union V, "filter") = refsIn(U, "filter") \union refsIn(V, "filter")
  BY RefsUnion
<1>3. /\ calls(U \union V) = calls(U) \union calls(V)
      /\ hasStar(U \union V) <=> hasStar(U) \/ hasStar(V)
  BY UsesUnion
<1>4. AliasOK(r.aliases, U \union V)
  BY AliasWiden DEF Found
<1>5. (c \union d) \union r.refs = refsIn(U \union V, "filter")
  BY <1>1, <1>2 DEF Found
<1>6. r.functions = calls(U \union V)
  BY <1>1, <1>3 DEF Found
<1>7. r.selectAll <=> hasStar(U \union V)
  BY <1>1, <1>3 DEF Found
<1> QED BY <1>4, <1>5, <1>6, <1>7 DEF Found

(* One walk after another, each with further references. *)
LEMMA FoundFollowed ==
    ASSUME NEW c, NEW a, NEW U, Found(c, a, U), NEW d, NEW b, NEW V, Found(d, b, V)
    PROVE  Found(c \union d, followedBy(a, b), U \union V)
<1> DEFINE r == followedBy(a, b)
<1>1. /\ r.refs = a.refs \union b.refs /\ r.aliases = replacing(a.aliases, b.aliases)
      /\ r.functions = a.functions \union b.functions
      /\ r.selectAll = (a.selectAll \/ b.selectAll)
  BY DEF followedBy
<1> HIDE DEF r
<1>2. refsIn(U \union V, "filter") = refsIn(U, "filter") \union refsIn(V, "filter")
  BY RefsUnion
<1>3. /\ calls(U \union V) = calls(U) \union calls(V)
      /\ hasStar(U \union V) <=> hasStar(U) \/ hasStar(V)
  BY UsesUnion
<1>4. AliasOK(r.aliases, U \union V)
  BY <1>1, AliasReplacing DEF Found
<1>5. (c \union d) \union r.refs = refsIn(U \union V, "filter")
  BY <1>1, <1>2 DEF Found
<1>6. r.functions = calls(U \union V)
  BY <1>1, <1>3 DEF Found
<1>7. r.selectAll \in BOOLEAN /\ (r.selectAll <=> hasStar(U \union V))
  BY <1>1, <1>3 DEF Found
<1> QED BY <1>4, <1>5, <1>6, <1>7 DEF Found, r

(* A condition is looked into for its columns, and not for its calls. *)
condition(c, e) == through(c, placed("filter", e.uses))

(* The columns of an ON clause, or of the WHERE of a change, are found. *)
LEMMA FoundCondition ==
    ASSUME NEW e, ExprOK(e), NEW c \in {"on", "change"}
    PROVE  /\ Found(e.columns, NoResult, condition(c, e))
           /\ Carries(e.text, condition(c, e)) /\ NamesOK(condition(c, e))
<1> DEFINE P == placed("filter", e.uses)
           O == through(c, P)
<1>1. /\ refsIn(P, "filter") = refsIn(e.uses, "filter") \union refsIn(e.uses, "column")
      /\ leadingIn(P) = leadingIn(e.uses) /\ NamesOK(P)
  BY UsesPlaced DEF ExprOK
<1> HIDE DEF P
<1>2. /\ calls(O) = {} /\ ~hasStar(O) /\ refsIn(O, "filter") = refsIn(P, "filter")
      /\ leadingIn(O) \subseteq leadingIn(P) /\ NamesOK(O)
  BY <1>1, UsesThrough
<1> HIDE DEF O
<1>3. e.columns = refsIn(O, "filter")
  <2>1. refsIn(e.uses, "filter") = {} /\ e.columns = refsIn(e.uses, "column")
    BY DEF ExprOK
  <2> QED BY <1>1, <1>2, <2>1
<1>4. Found(e.columns, NoResult, O)
  BY <1>2, <1>3, FoundNone
<1>5. Carries(e.text, O)
  BY <1>1, <1>2, CarriesLess DEF ExprOK
<1> QED BY <1>2, <1>4, <1>5 DEF condition, O, P

TableOK(n) ==
    /\ Carries(n.text, n.uses) /\ n.text # <<>> /\ Begins(n.text, n.first)
    /\ NamesOK(n.uses)
    /\ Found(n.columns, n.derived, n.uses) /\ AliasOK(n.aliases, n.first \union n.uses)
    /\ n.kind = "derived" => n.columns = {} /\ n.aliases = <<>>
    /\ n.kind \notin {"derived", "tables"} => n.derived = NoResult

(* A text begins as its first part does. *)
LEMMA BeginsConcat ==
    ASSUME NEW a \in Seq(Lexeme), a # <<>>, NEW b \in Seq(Lexeme)
    PROVE  /\ a \o b # <<>> /\ (a \o b)[1] = a[1]
           /\ \A F : Begins(a, F) => Begins(a \o b, F)
<1>1. Len(a) \in Nat /\ Len(a) >= 1 /\ Len(b) \in Nat
  BY EmptySeq, LenProperties
<1> DEFINE c == a \o b
<1>2. /\ c \in Seq(Lexeme) /\ Len(c) = Len(a) + Len(b)
      /\ \A i \in 1 .. Len(a) + Len(b) : c[i] = IF i <= Len(a) THEN a[i] ELSE b[i - Len(a)]
  BY ConcatProperties
<1> HIDE DEF c
<1>3. 1 \in 1 .. Len(a) + Len(b) /\ 1 <= Len(a)
  BY <1>1
<1>4. c[1] = a[1]
  BY <1>2, <1>3
<1>5. c # <<>>
  BY <1>1, <1>2, EmptySeq
<1> QED BY <1>4, <1>5 DEF Begins, c

(* An operand of a join, or what is in parentheses. *)
LEMMA JoinedOK ==
    ASSUME NEW te, TableOK(te), te.kind \in TableKinds
    PROVE  /\ Carries(te.text, joined(te)) /\ NamesOK(joined(te))
           /\ Found(te.columns, NoResult, joined(te))
           /\ AliasOK(te.aliases, te.first \union joined(te))
<1> DEFINE J == joined(te)
<1>1. CASE te.kind = "derived"
  <2>1. J = through("joined", te.uses) /\ "joined" \in Blind
    BY <1>1 DEF joined, Blind
  <2>2. Unseen(J) /\ leadingIn(J) \subseteq leadingIn(te.uses) /\ NamesOK(J)
    BY <2>1, UsesThrough DEF TableOK
  <2> HIDE DEF J
  <2>3. Found(te.columns, NoResult, J)
    BY <1>1, <2>2, FoundNone DEF TableOK, Unseen
  <2>4. Carries(te.text, J)
    BY <2>2, CarriesLess DEF TableOK
  <2>5. AliasOK(te.aliases, te.first \union J)
    BY <1>1, NoAliases DEF TableOK
  <2> QED BY <2>2, <2>3, <2>4, <2>5 DEF J
<1>2. CASE te.kind # "derived"
  <2>1. J = te.uses
    BY <1>2 DEF joined
  <2>2. te.derived = NoResult
    BY <1>2 DEF TableOK, TableKinds
  <2> QED BY <2>1, <2>2 DEF TableOK
<1> QED BY <1>1, <1>2

(* An alias is well formed and uses nothing. *)
LEMMA AsCarries ==
    ASSUME NEW as \in Plain \union {""}
    PROVE  Carries(As(as), {})
<1>1. CASE as = ""
  BY <1>1, CarriesEmpty DEF As
<1>2. CASE as \in Plain /\ as # ""
  <2>1. "AS" \in Plain
    <3>1. "AS" \in Words \ Marks
      BY DEF Words, Marks
    <3> QED BY <3>1, WordsPlain
  <2>2. Carries(Word("AS") \o Word(as), {} \union {})
    BY <1>2, <2>1, CarriesWord, CarriesConcat
  <2>3. {} \union {} = {}
    OBVIOUS
  <2> QED BY <1>2, <2>2, <2>3 DEF As
<1> QED BY <1>1, <1>2

(* The catalog that is stripped is never the bare name. *)
LEMMA SameLast ==
    ASSUME NEW name \in Lexeme
    PROVE  /\ lastComponent(normalizeForVitess(name)) = lastComponent(name)
           /\ Len(name) <= 3 => Len(normalizeForVitess(name)) <= 2
<1>1. name \in Seq(Ident) /\ name # <<>>
  BY DEF Lexeme
<1>2. /\ Len(name) \in Nat /\ Len(Tail(name)) = Len(name) - 1
      /\ \A i \in 1 .. Len(Tail(name)) : Tail(name)[i] = name[i + 1]
  BY <1>1, HeadTailProperties, LenProperties
<1>3. CASE Len(name) >= 3
  <2> DEFINE m == Tail(name)
             k == Len(name)
  <2>1. normalizeForVitess(name) = m
    BY <1>3 DEF normalizeForVitess
  <2> HIDE DEF m, k
  <2>2. k \in Nat /\ Len(m) = k - 1 /\ \A i \in 1 .. Len(m) : m[i] = name[i + 1]
    BY <1>2 DEF m, k
  <2>3. k - 1 \in 1 .. Len(m) /\ (k - 1) + 1 = k
    BY <1>3, <2>2 DEF k
  <2>4. m[k - 1] = name[k]
    BY <2>2, <2>3
  <2>5. k <= 3 => k - 1 <= 2
    BY <2>2
  <2> QED BY <2>1, <2>2, <2>4, <2>5 DEF lastComponent, k
<1>4. CASE ~(Len(name) >= 3)
  <2>1. normalizeForVitess(name) = name
    BY <1>4 DEF normalizeForVitess
  <2>2. Len(name) <= 2
    BY <1>2, <1>4
  <2> QED BY <2>1, <2>2
<1> QED BY <1>3, <1>4

(* A named table is in order. *)
LEMMA NamedOK ==
    ASSUME NEW name \in Dotted, NEW as \in Plain \union {""}
    PROVE  TableOK(TableExpr(TableName(name, as)))
<1> DEFINE n == TableExpr(TableName(name, as))
           F == Use("table", name, as)
           bare == lastComponent(normalizeForVitess(name))
<1>1. /\ n.kind = "table" /\ n.text = <<name>> \o As(as) /\ n.first = F /\ n.uses = {}
      /\ n.columns = {} /\ n.derived = NoResult
  BY DEF TableExpr, TableName, tableText, firstTable, tableUses, extractOnClauseColumns,
         derivedWalk
<1>2. n.aliases = IF as # "" THEN [a \in {as} |-> bare] ELSE <<>>
  BY DEF TableExpr, TableName, collectTableAliases
<1> HIDE DEF n
<1>3. name \in Lexeme
  BY DEF Dotted, Lexeme
<1>4. Carries(<<name>>, {})
  BY FitOne, UsesNone DEF Carries
<1>5. Carries(n.text, {})
  <2>1. Carries(<<name>> \o As(as), {} \union {})
    BY <1>4, AsCarries, CarriesConcat
  <2>2. {} \union {} = {}
    OBVIOUS
  <2> QED BY <1>1, <2>1, <2>2
<1>6. n.text # <<>> /\ n.text[1] = name
  <2>1. <<name>> \in Seq(Lexeme) /\ <<name>> # <<>> /\ <<name>>[1] = name
    BY <1>3, DepthOne, EmptySeq
  <2>2. As(as) \in Seq(Lexeme)
    BY AsCarries DEF Carries, Fit
  <2> QED BY <1>1, <2>1, <2>2, BeginsConcat
<1> DEFINE u == [what |-> "table", name |-> name, as |-> as, path |-> {}]
<1>7. F = {u} /\ u.what = "table" /\ u.name = name /\ u.as = as /\ u.path = {}
  BY DEF Use
<1> HIDE DEF F, u
<1>8. Begins(n.text, F)
  BY <1>3, <1>6, <1>7 DEF Begins
<1>9. Found({}, NoResult, {})
  BY UsesNone, FoundNone DEF Unseen
<1>10. AliasOK(n.aliases, F \union {})
  <2>1. CASE as = ""
    BY <1>2, <2>1, NoAliases
  <2>2. CASE as # ""
    <3>1. DOMAIN n.aliases = {as} /\ n.aliases[as] = lastComponent(name)
      BY <1>2, <1>3, <2>2, SameLast
    <3>2. u \in F \union {} /\ u.what = "table" /\ u.as = as /\ n.aliases[as] = lastComponent(u.name)
      BY <1>7, <3>1
    <3> QED BY <3>1, <3>2 DEF AliasOK
  <2> QED BY <2>1, <2>2
<1>11. TableOK(n)
  BY <1>1, <1>5, <1>6, <1>8, <1>9, <1>10, UsesNone DEF TableOK
<1> QED BY <1>11 DEF n

(* So is a derived one: the walk enters it. *)
LEMMA DerivedOK ==
    ASSUME NEW q, Carries(q.text, q.uses), NamesOK(q.uses), ResultOK(q.walk, q.uses),
           NEW as \in Plain \union {""}
    PROVE  TableOK(TableExpr(DerivedTable(q, as)))
<1> DEFINE n == TableExpr(DerivedTable(q, as))
           U == q.uses
<1>1. /\ n.kind = "derived" /\ n.text = Parens(q.text) \o As(as) /\ n.first = {}
      /\ n.uses = U /\ n.columns = {} /\ n.derived = q.walk
  BY DEF TableExpr, DerivedTable, tableText, firstTable, tableUses, extractOnClauseColumns,
         derivedWalk
<1>2. n.aliases = <<>>
  BY DEF TableExpr, DerivedTable, collectTableAliases
<1> HIDE DEF n
<1>3. Carries(Parens(q.text), U)
  BY CarriesParens
<1> HIDE DEF U
<1>4. Carries(n.text, U)
  <2>1. Carries(Parens(q.text) \o As(as), U \union {})
    BY <1>3, AsCarries, CarriesConcat
  <2>2. U \union {} = U
    OBVIOUS
  <2> QED BY <1>1, <2>1, <2>2
<1>5. n.text # <<>>
  <2>1. Parens(q.text) \in Seq(Lexeme) /\ As(as) \in Seq(Lexeme)
    BY <1>3, AsCarries DEF Carries, Fit
  <2>2. Parens(q.text) # <<>>
    BY CarriesParens
  <2> QED BY <1>1, <2>1, <2>2, BeginsConcat
<1>6. Found({}, q.walk, U)
  BY FoundResult DEF U
<1>7. Begins(n.text, {})
  BY DEF Begins
<1>8. TableOK(n)
  BY <1>1, <1>2, <1>4, <1>5, <1>6, <1>7, NoAliases DEF TableOK, U
<1> QED BY <1>8 DEF n

(* So is a table expression in parentheses: the walk does not enter the    *)
(* derived tables there.                                                   *)
LEMMA ParenOK ==
    ASSUME NEW te, TableOK(te), te.kind \in TableKinds
    PROVE  TableOK(TableExpr(ParenTableExpr(te)))
<1> DEFINE n == TableExpr(ParenTableExpr(te))
           F == through("unintroduced", te.first)
           J == joined(te)
<1>1. /\ n.kind = "paren" /\ n.text = Parens(te.text) /\ n.first = {}
      /\ n.uses = F \union J /\ n.columns = te.columns /\ n.derived = NoResult
      /\ n.aliases = te.aliases
  BY DEF TableExpr, ParenTableExpr, tableText, firstTable, tableUses, extractOnClauseColumns,
         derivedWalk, collectTableAliases
<1> HIDE DEF n
<1>2. /\ Carries(te.text, J) /\ NamesOK(J) /\ Found(te.columns, NoResult, J)
      /\ AliasOK(te.aliases, te.first \union J)
  BY JoinedOK
<1> HIDE DEF J
<1>3. Unseen(te.first) /\ NamesOK(te.first)
  BY UsesBegin DEF TableOK
<1>4. Unseen(F) /\ leadingIn(F) = {} /\ NamesOK(F)
  <2>1. SameSeen(F, te.first) /\ leadingIn(F) = {} /\ NamesOK(F)
    BY <1>3, UsesThrough
  <2> QED BY <1>3, <2>1 DEF SameSeen, Unseen
<1>5. AliasOK(te.aliases, F \union J)
  <2> SUFFICES ASSUME NEW a \in DOMAIN te.aliases
               PROVE  \E u \in F \union J :
                         u.what = "table" /\ u.as = a /\ te.aliases[a] = lastComponent(u.name)
    BY DEF AliasOK
  <2>1. PICK u \in te.first \union J :
           u.what = "table" /\ u.as = a /\ te.aliases[a] = lastComponent(u.name)
    BY <1>2 DEF AliasOK
  <2>2. CASE u \in J
    BY <2>1, <2>2
  <2>3. CASE u \in te.first
    <3> DEFINE v == [what |-> u.what, name |-> u.name, as |-> u.as,
                     path |-> u.path \union {"unintroduced"}]
    <3>1. v \in F /\ v.what = u.what /\ v.name = u.name /\ v.as = u.as
      BY <2>3 DEF through
    <3> HIDE DEF v
    <3> QED BY <2>1, <3>1
  <2> QED BY <2>2, <2>3
<1> HIDE DEF F
<1>6. Carries(n.text, F \union J) /\ n.text # <<>>
  <2>1. leadingIn(F \union J) = leadingIn(F) \union leadingIn(J)
    BY UsesUnion
  <2>2. Carries(te.text, F \union J)
    BY <1>2, <1>4, <2>1, CarriesLess
  <2> QED BY <1>1, <2>2, CarriesParens
<1>7. Found(te.columns, NoResult, F \union J)
  <2>1. Found({}, NoResult, F)
    BY <1>4, FoundNone DEF Unseen
  <2>2. Found({} \union te.columns, NoResult, F \union J)
    BY <1>2, <2>1, FoundMore
  <2>3. {} \union te.columns = te.columns
    OBVIOUS
  <2> QED BY <2>2, <2>3
<1>8. NamesOK(F \union J) /\ Begins(n.text, {})
  BY <1>2, <1>4 DEF NamesOK, Begins
<1>9. {} \union (F \union J) = F \union J
  OBVIOUS
<1>10. TableOK(n)
  BY <1>1, <1>5, <1>6, <1>7, <1>8, <1>9 DEF TableOK
<1> QED BY <1>10 DEF n

(* So is a list of items of FROM. *)
LEMMA ListOK ==
    ASSUME NEW left, TableOK(left), NEW right, TableOK(right)
    PROVE  TableOK(TableExpr(TableList(left, right)))
<1> DEFINE n == TableExpr(TableList(left, right))
           U == left.uses
           F == through("unintroduced", right.first)
           V == right.uses
           W == (U \union F) \union V
<1>1. /\ n.kind = "tables" /\ n.text = (left.text \o Word(",")) \o right.text
      /\ n.first = left.first /\ n.uses = W
      /\ n.columns = left.columns \union right.columns
      /\ n.derived = followedBy(left.derived, right.derived)
      /\ n.aliases = replacing(left.aliases, right.aliases)
  BY DEF TableExpr, TableList, tableText, firstTable, tableUses, extractOnClauseColumns,
         derivedWalk, collectTableAliases
<1> HIDE DEF n
<1>2. Unseen(right.first) /\ NamesOK(right.first)
  BY UsesBegin DEF TableOK
<1>3. Unseen(F) /\ leadingIn(F) = {} /\ NamesOK(F)
  <2>1. SameSeen(F, right.first) /\ leadingIn(F) = {} /\ NamesOK(F)
    BY <1>2, UsesThrough
  <2> QED BY <1>2, <2>1 DEF SameSeen, Unseen
<1>4. AliasOK(replacing(left.aliases, right.aliases), left.first \union W)
  <2>1. AliasOK(right.aliases, F \union V)
    <3> SUFFICES ASSUME NEW a \in DOMAIN right.aliases
                 PROVE  \E u \in F \union V : /\ u.what = "table" /\ u.as = a
                                              /\ right.aliases[a] = lastComponent(u.name)
      BY DEF AliasOK
    <3>1. PICK u \in right.first \union V :
             u.what = "table" /\ u.as = a /\ right.aliases[a] = lastComponent(u.name)
      BY DEF AliasOK, TableOK
    <3>2. CASE u \in V
      BY <3>1, <3>2
    <3>3. CASE u \in right.first
      <4> DEFINE v == [what |-> u.what, name |-> u.name, as |-> u.as,
                       path |-> u.path \union {"unintroduced"}]
      <4>1. v \in F /\ v.what = u.what /\ v.name = u.name /\ v.as = u.as
        BY <3>3 DEF through
      <4> HIDE DEF v
      <4> QED BY <3>1, <4>1
    <3> QED BY <3>2, <3>3
  <2>2. AliasOK(left.aliases, left.first \union U)
    BY DEF TableOK
  <2> HIDE DEF F, U, V
  <2>3. AliasOK(replacing(left.aliases, right.aliases), (left.first \union U) \union (F \union V))
    BY <2>1, <2>2, AliasReplacing
  <2>4. (left.first \union U) \union (F \union V) \subseteq left.first \union W
    OBVIOUS
  <2> QED BY <2>3, <2>4, AliasWiden
<1>5. Found(n.columns, n.derived, W)
  <2>1. Found({}, NoResult, F)
    BY <1>3, FoundNone DEF Unseen
  <2>2. Found(left.columns, left.derived, U) /\ Found(right.columns, right.derived, V)
    BY DEF TableOK
  <2> HIDE DEF F, U, V
  <2>3. Found(left.columns \union {}, left.derived, U \union F)
    BY <2>1, <2>2, FoundMore
  <2>4. left.columns \union {} = left.columns
    OBVIOUS
  <2>5. Found(left.columns, left.derived, U \union F)
    BY <2>3, <2>4
  <2> DEFINE X == U \union F
             c == left.columns
             d == right.columns
  <2>6. Found(c, left.derived, X) /\ Found(d, right.derived, V)
    BY <2>2, <2>5
  <2> HIDE DEF X, c, d
  <2>7. Found(c \union d, followedBy(left.derived, right.derived), X \union V)
    BY <2>6, FoundFollowed
  <2> QED BY <1>1, <2>7 DEF X, c, d
<1>6. Carries(n.text, W)
  <2>1. Carries(left.text, U) /\ Carries(right.text, V)
    BY DEF TableOK
  <2> HIDE DEF F, U, V
  <2>2. "," \in Plain
    <3>1. "," \in Words \ Marks
      BY DEF Words, Marks
    <3> QED BY <3>1, WordsPlain
  <2>3. Carries((left.text \o Word(",")) \o right.text, U \union V)
    BY <2>1, <2>2, CarriesBetween
  <2>4. leadingIn(U \union F) = leadingIn(U) \union leadingIn(F)
    BY UsesUnion
  <2>5. leadingIn(U \union V) = leadingIn(U) \union leadingIn(V)
    BY UsesUnion
  <2> DEFINE X == U \union F
  <2> HIDE DEF X
  <2>6. leadingIn(X \union V) = leadingIn(X) \union leadingIn(V)
    BY UsesUnion
  <2>7. leadingIn(W) \subseteq leadingIn(U \union V)
    BY <1>3, <2>4, <2>5, <2>6 DEF X
  <2> QED BY <1>1, <2>3, <2>7, CarriesLess
<1>7. n.text # <<>> /\ Begins(n.text, left.first)
  <2>1. /\ left.text \in Seq(Lexeme) /\ left.text # <<>> /\ right.text \in Seq(Lexeme)
        /\ Word(",") \in Seq(Lexeme) /\ Begins(left.text, left.first)
    <3>1. "," \in Ident
      BY WordsAssumption DEF Words
    <3>2. Word(",") \in Seq(Lexeme)
      BY <3>1, WordSeq
    <3> QED BY <3>2 DEF TableOK, Carries, Fit
  <2> DEFINE c == left.text \o Word(",")
  <2>2. c # <<>> /\ Begins(c, left.first)
    BY <2>1, BeginsConcat
  <2>3. c \in Seq(Lexeme)
    BY <2>1, ConcatProperties
  <2>4. n.text = c \o right.text
    BY <1>1
  <2> HIDE DEF c
  <2> QED BY <2>1, <2>2, <2>3, <2>4, BeginsConcat
<1>8. NamesOK(W)
  BY <1>3 DEF NamesOK, TableOK
<1> HIDE DEF W
<1>9. TableOK(n)
  BY <1>1, <1>4, <1>5, <1>6, <1>7, <1>8 DEF TableOK
<1> QED BY <1>9 DEF n

(* So is a join: its ON clause is found, its right operand introduced. *)
LEMMA JoinOK ==
    ASSUME NEW left, TableOK(left), left.kind \in TableKinds,
           NEW right, TableOK(right), right.kind \in TableKinds,
           NEW on, ExprOK(on), absent(on) => on = NoExpr, NEW words \in JoinWords(on)
    PROVE  TableOK(TableExpr(JoinTableExpr(words, left, right, on)))
<1> DEFINE n == TableExpr(JoinTableExpr(words, left, right, on))
           U == joined(left)
           F == right.first
           V == joined(right)
           O == condition("on", on)
           W == ((U \union F) \union V) \union O
           lt == left.text \o words
           mt == (lt \o Word("JOIN")) \o right.text
<1>1. /\ n.kind = "join" /\ n.text = mt \o onText(on)
      /\ n.first = left.first /\ n.uses = W
      /\ n.columns = (on.columns \union left.columns) \union right.columns
      /\ n.derived = NoResult
      /\ n.aliases = replacing(left.aliases, right.aliases)
  BY DEF TableExpr, JoinTableExpr, tableText, firstTable, tableUses, extractOnClauseColumns,
         derivedWalk, collectTableAliases, condition
<1> HIDE DEF n
<1>2. /\ Carries(left.text, U) /\ NamesOK(U) /\ Found(left.columns, NoResult, U)
      /\ AliasOK(left.aliases, left.first \union U)
  BY JoinedOK
<1>3. /\ Carries(right.text, V) /\ NamesOK(V) /\ Found(right.columns, NoResult, V)
      /\ AliasOK(right.aliases, F \union V)
  BY JoinedOK
<1>4. Found(on.columns, NoResult, O) /\ Carries(on.text, O) /\ NamesOK(O)
  BY FoundCondition
<1>5. Begins(right.text, F) /\ Unseen(F) /\ NamesOK(F) /\ right.text # <<>>
  BY UsesBegin DEF TableOK
<1>6. Begins(left.text, left.first) /\ left.text # <<>>
  BY DEF TableOK
<1>7. Carries(words, {}) /\ Carries(Word("ON"), {}) /\ "JOIN" \in Plain
  <2>1. {"CROSS", "LEFT", "OUTER", "ON", "JOIN"} \subseteq Words \ Marks
    BY DEF Words, Marks
  <2>2. /\ "CROSS" \in Plain /\ "LEFT" \in Plain /\ "OUTER" \in Plain /\ "ON" \in Plain
        /\ "JOIN" \in Plain
    BY <2>1, WordsPlain
  <2>3. Carries(Word("CROSS"), {}) /\ Carries(Word("ON"), {})
    BY <2>2, CarriesWord
  <2>4. Carries(Word("LEFT") \o Word("OUTER"), {} \union {})
    BY <2>2, CarriesWord, CarriesConcat
  <2>5. {} \union {} = {}
    OBVIOUS
  <2>6. words = Word("CROSS") \/ words = <<>> \/ words = Word("LEFT") \o Word("OUTER")
    BY DEF JoinWords
  <2> QED BY <2>2, <2>3, <2>4, <2>5, <2>6, CarriesEmpty
<1> HIDE DEF U, F, V, O
<1>8. Carries(onText(on), O)
  <2>1. CASE absent(on)
    <3>1. on.text = <<>>
      BY <2>1 DEF NoExpr
    <3> QED BY <1>4, <2>1, <3>1 DEF onText
  <2>2. CASE ~absent(on)
    <3>1. Carries(Word("ON") \o on.text, {} \union O)
      BY <1>4, <1>7, CarriesConcat
    <3>2. {} \union O = O
      OBVIOUS
    <3> QED BY <2>2, <3>1, <3>2 DEF onText
  <2> QED BY <2>1, <2>2
<1>9. Carries(lt, U)
  <2>1. Carries(lt, U \union {})
    BY <1>2, <1>7, CarriesConcat
  <2>2. U \union {} = U
    OBVIOUS
  <2> QED BY <2>1, <2>2
<1>10. lt # <<>> /\ Begins(lt, left.first)
  <2>1. left.text \in Seq(Lexeme) /\ words \in Seq(Lexeme)
    BY <1>2, <1>7 DEF Carries, Fit
  <2> QED BY <1>6, <2>1, BeginsConcat
<1> HIDE DEF lt
<1>11. Carries(mt, (U \union F) \union V)
  BY <1>3, <1>5, <1>9, CarriesFirst
<1>12. mt # <<>> /\ Begins(mt, left.first)
  <2>1. lt \in Seq(Lexeme) /\ right.text \in Seq(Lexeme) /\ Word("JOIN") \in Seq(Lexeme)
    <3>1. "JOIN" \in Ident
      BY <1>7 DEF Plain
    <3> QED BY <1>3, <1>9, <3>1 DEF Carries, Fit, Word, Lexeme
  <2> DEFINE c == lt \o Word("JOIN")
  <2>2. c # <<>> /\ Begins(c, left.first)
    BY <1>10, <2>1, BeginsConcat
  <2>3. c \in Seq(Lexeme)
    BY <2>1, ConcatProperties
  <2> HIDE DEF c
  <2>4. c \o right.text # <<>> /\ Begins(c \o right.text, left.first)
    BY <2>1, <2>2, <2>3, BeginsConcat
  <2> QED BY <2>4 DEF c
<1> HIDE DEF mt
<1>13. Carries(n.text, W)
  BY <1>1, <1>8, <1>11, CarriesConcat
<1>14. n.text # <<>> /\ Begins(n.text, left.first)
  <2>1. mt \in Seq(Lexeme) /\ onText(on) \in Seq(Lexeme)
    BY <1>8, <1>11 DEF Carries, Fit
  <2> QED BY <1>1, <1>12, <2>1, BeginsConcat
<1>15. Found(n.columns, NoResult, W)
  <2>1. Found({}, NoResult, F)
    BY <1>5, FoundNone DEF Unseen
  <2>2. Found(left.columns \union {}, NoResult, U \union F)
    BY <1>2, <2>1, FoundMore
  <2> DEFINE X == U \union F
             x == left.columns \union {}
             Y == X \union V
             y == x \union right.columns
  <2> HIDE DEF X, x, Y, y
  <2>3. Found(y, NoResult, Y)
    <3>1. Found(x, NoResult, X)
      BY <2>2 DEF X, x
    <3>2. Found(x \union right.columns, NoResult, X \union V)
      BY <1>3, <3>1, FoundMore
    <3> QED BY <3>2 DEF Y, y
  <2>4. Found(y \union on.columns, NoResult, Y \union O)
    BY <1>4, <2>3, FoundMore
  <2>5. y \union on.columns = n.columns /\ Y \union O = W
    BY <1>1 DEF X, x, Y, y
  <2> QED BY <2>4, <2>5
<1>16. AliasOK(replacing(left.aliases, right.aliases), left.first \union W)
  <2>1. AliasOK(replacing(left.aliases, right.aliases), (left.first \union U) \union (F \union V))
    BY <1>2, <1>3, AliasReplacing
  <2>2. (left.first \union U) \union (F \union V) \subseteq left.first \union W
    OBVIOUS
  <2> QED BY <2>1, <2>2, AliasWiden
<1>17. NamesOK(W)
  BY <1>2, <1>3, <1>4, <1>5 DEF NamesOK
<1> HIDE DEF W
<1>18. TableOK(n)
  BY <1>1, <1>13, <1>14, <1>15, <1>16, <1>17 DEF TableOK
<1> QED BY <1>18 DEF n

-----------------------------------------------------------------------------
(* WITH clauses.                                                           *)

(* No CTE among the uses U is named like a verb. *)
NoVerbs(U) == \A u \in U : u.what = "cte" => Lower[u.name[1]] \notin Verbs

(* CTEs named after no verb stay so, seen alone or without the constructs  *)
(* around them.                                                            *)
LEMMA NoVerbsKept ==
    ASSUME NEW U
    PROVE  /\ \A c : NoVerbs(through(c, U)) => NoVerbs(U)
           /\ \A V : U \subseteq V /\ NoVerbs(V) => NoVerbs(U)
<1>1. ASSUME NEW c, NoVerbs(through(c, U)), NEW u \in U, u.what = "cte"
      PROVE  Lower[u.name[1]] \notin Verbs
  <2> DEFINE v == [what |-> u.what, name |-> u.name, as |-> u.as, path |-> u.path \union {c}]
  <2>1. v \in through(c, U) /\ v.what = u.what /\ v.name = u.name
    BY DEF through
  <2> HIDE DEF v
  <2> QED BY <1>1, <2>1 DEF NoVerbs
<1> QED BY <1>1 DEF NoVerbs

WithOK(n) ==
    /\ Carries(n.text, n.uses) /\ NamesOK(n.uses) /\ ResultOK(n.walk, n.uses)
    /\ NoVerbs(n.uses) => OuterFree(n.text)
    /\ absent(n) => n = NoWith
    /\ ~absent(n) => n.text # <<>> /\ n.text[1] = <<"WITH">>

(* An absent WITH clause is in order. *)
LEMMA NoWithOK == WithOK(NoWith)
<1>1. NoWith.text = <<>> /\ NoWith.uses = {} /\ NoWith.walk = NoResult /\ absent(NoWith)
  BY DEF NoWith, absent
<1> QED BY <1>1, CarriesEmpty, FitEmpty, UsesNone, ResultNone DEF WithOK

(* So is one with another CTE: no verb of the CTE's query is outside its   *)
(* parentheses.                                                            *)
LEMMA CTEOK ==
    ASSUME NEW with, WithOK(with), NEW name \in Plain,
           NEW q, Carries(q.text, q.uses), NamesOK(q.uses), ResultOK(q.walk, q.uses)
    PROVE  WithOK(With(CTE(with, name, q)))
<1> DEFINE n == With(CTE(with, name, q))
           U == with.uses
           C == Use("cte", <<name>>, "")
           V == q.uses
           W == (U \union C) \union V
           pre == IF absent(with) THEN Word("WITH") ELSE with.text \o Word(",")
           a == pre \o Word(name)
           p == Parens(q.text)
           t == (a \o Word("AS")) \o p
<1>1. /\ n.kind = "with" /\ n.text = t /\ n.uses = W
      /\ n.walk = followedBy(with.walk, q.walk)
  BY DEF With, CTE, withText, withUses
<1> HIDE DEF n
<1>2. <<name>> \in Lexeme /\ <<name>>[1] = name
  BY DEF Plain, Lexeme
<1>3. /\ Unseen(C) /\ leadingIn(C) = {} /\ NamesOK(C)
  BY <1>2, UsesOne DEF Unseen
<1>4. NoVerbs(C) => Lower[name] \notin Verbs
  <2> DEFINE u == [what |-> "cte", name |-> <<name>>, as |-> "", path |-> {}]
  <2>1. u \in C /\ u.what = "cte" /\ u.name[1] = name
    BY DEF Use
  <2> HIDE DEF u, C
  <2> QED BY <2>1 DEF NoVerbs
<1>5. /\ "WITH" \in Plain /\ "," \in Plain /\ "AS" \in Plain
      /\ Lower["WITH"] \notin Verbs /\ Lower[","] \notin Verbs /\ Lower["AS"] \notin Verbs
  <2>1. {"WITH", ",", "AS"} \subseteq Words \ Marks /\ {"WITH", ",", "AS"} \subseteq Words \ Verbs
    BY DEF Words, Marks, Verbs, StatementClass
  <2> QED BY <2>1, WordsPlain
<1> HIDE DEF C
<1>6. Carries(pre, U) /\ (NoVerbs(U) => OuterFree(pre)) /\ pre # <<>> /\ pre[1] = <<"WITH">>
  <2>1. CASE absent(with)
    <3>1. U = {} /\ pre = Word("WITH")
      BY <2>1 DEF WithOK, NoWith
    <3>2. Word("WITH") \in Seq(Lexeme) /\ Len(Word("WITH")) = 1 /\ Word("WITH")[1] = <<"WITH">>
      BY <1>5, WordSeq DEF Plain
    <3>3. Word("WITH") # <<>>
      BY <3>2, NonEmpty
    <3> HIDE DEF pre, U
    <3> QED BY <1>5, <3>1, <3>2, <3>3, CarriesWord, FitWord
  <2>2. CASE ~absent(with)
    <3>1. pre = with.text \o Word(",")
      BY <2>2
    <3>2. Carries(with.text, U) /\ (NoVerbs(U) => OuterFree(with.text))
      BY DEF WithOK
    <3>3. with.text # <<>> /\ with.text[1] = <<"WITH">>
      BY <2>2 DEF WithOK
    <3> HIDE DEF pre, U
    <3>4. Carries(pre, U)
      BY <1>5, <3>1, <3>2, CarriesBetween
    <3>5. Fit(with.text) /\ Fit(Word(",")) /\ OuterFree(Word(","))
      BY <1>5, <3>2, FitWord DEF Carries
    <3>6. NoVerbs(U) => OuterFree(pre)
      BY <3>1, <3>2, <3>5, FitConcat
    <3>7. pre # <<>> /\ pre[1] = <<"WITH">>
      BY <3>1, <3>3, <3>5, BeginsConcat DEF Fit
    <3> QED BY <3>4, <3>6, <3>7
  <2> QED BY <2>1, <2>2
<1>7. Carries(q.text, V)
  OBVIOUS
<1>8. Carries(p, V) /\ OuterFree(p)
  BY <1>7, CarriesParens, FitParens DEF Carries
<1> HIDE DEF U, V, pre, p
<1>9. Carries(a, U) /\ Carries(Word(name), {})
  BY <1>6, <1>8, CarriesBetween, CarriesWord
<1>10. Carries(t, U \union V)
  <2> HIDE DEF a
  <2> QED BY <1>5, <1>8, <1>9, CarriesBetween
<1>11. Fit(pre) /\ Fit(Word(name)) /\ Fit(a) /\ Fit(Word("AS")) /\ Fit(p)
  BY <1>5, <1>6, <1>8, <1>9, FitWord DEF Carries
<1>12. a # <<>> /\ a[1] = <<"WITH">>
  BY <1>6, <1>11, BeginsConcat DEF Fit
<1>13. ASSUME NoVerbs(W) PROVE OuterFree(t)
  <2>1. NoVerbs(U) /\ NoVerbs(C)
    <3>1. U \subseteq W /\ C \subseteq W
      OBVIOUS
    <3> HIDE DEF W
    <3> QED BY <1>13, <3>1, NoVerbsKept
  <2>2. OuterFree(pre) /\ OuterFree(Word(name)) /\ OuterFree(Word("AS"))
    BY <1>4, <1>5, <1>6, <2>1, FitWord
  <2>3. OuterFree(a)
    BY <1>11, <2>2, FitConcat
  <2> HIDE DEF a
  <2>4. Fit(a \o Word("AS")) /\ OuterFree(a \o Word("AS"))
    BY <1>11, <2>2, <2>3, FitConcat
  <2> QED BY <1>8, <1>11, <2>4, FitConcat
<1> HIDE DEF a
<1>14. t # <<>> /\ t[1] = <<"WITH">>
  <2> DEFINE b == a \o Word("AS")
  <2>1. b # <<>> /\ b[1] = <<"WITH">>
    BY <1>11, <1>12, BeginsConcat DEF Fit
  <2>2. b \in Seq(Lexeme)
    BY <1>11, FitConcat DEF Fit
  <2> HIDE DEF b
  <2>3. b \o p # <<>> /\ (b \o p)[1] = <<"WITH">>
    BY <1>11, <2>1, <2>2, BeginsConcat DEF Fit
  <2> QED BY <2>3 DEF b
<1> HIDE DEF t
<1>15. Carries(t, W)
  <2>1. leadingIn(U \union C) = leadingIn(U) \union leadingIn(C)
    BY UsesUnion
  <2>2. leadingIn(U \union V) = leadingIn(U) \union leadingIn(V)
    BY UsesUnion
  <2> DEFINE X == U \union C
  <2> HIDE DEF X
  <2>3. leadingIn(X \union V) = leadingIn(X) \union leadingIn(V)
    BY UsesUnion
  <2>4. leadingIn(W) \subseteq leadingIn(U \union V)
    BY <1>3, <2>1, <2>2, <2>3 DEF X
  <2> QED BY <1>10, <2>4, CarriesLess
<1>16. ResultOK(followedBy(with.walk, q.walk), W)
  <2>1. ResultOK(with.walk, U) /\ ResultOK(q.walk, V)
    BY DEF WithOK, U, V
  <2>2. ResultOK(with.walk, U \union C)
    BY <1>3, <2>1, ResultWiden
  <2> QED BY <2>1, <2>2, ResultFollowed
<1>17. NamesOK(W)
  BY <1>3 DEF NamesOK, WithOK, U, V
<1>18. ~absent(n)
  BY <1>1 DEF absent
<1> HIDE DEF W
<1>19. WithOK(n)
  BY <1>1, <1>13, <1>14, <1>15, <1>16, <1>17, <1>18 DEF WithOK
<1> QED BY <1>19 DEF n

-----------------------------------------------------------------------------
(* Queries.                                                                *)

(* The text t has the verb v behind an optional WITH clause. *)
HeadedBy(t, v, U, w, r) ==
    /\ Fit(w) /\ r \in Seq(Lexeme) /\ t = (w \o Word(v)) \o r
    /\ w # <<>> => w[1] = <<"WITH">>
    /\ NoVerbs(U) => OuterFree(w)

Headed(t, v, U) == \E w, r : HeadedBy(t, v, U, w, r)

(* A text of a WITH clause and a verb is headed by the verb. *)
LEMMA HeadedFirst ==
    ASSUME NEW with, WithOK(with), NEW v \in Ident
    PROVE  Headed(with.text \o Word(v), v, with.uses)
<1> DEFINE w == with.text
           t == w \o Word(v)
<1>1. Fit(w) /\ (NoVerbs(with.uses) => OuterFree(w))
  BY DEF WithOK, Carries
<1>2. w # <<>> => w[1] = <<"WITH">>
  BY DEF WithOK, NoWith
<1>3. t \in Seq(Lexeme)
  BY <1>1, WordSeq, ConcatProperties DEF Fit
<1>4. t = t \o <<>> /\ <<>> \in Seq(Lexeme)
  <2> HIDE DEF t
  <2> QED BY <1>3, ConcatEmptySeq, EmptySeq
<1> HIDE DEF w
<1>5. HeadedBy(t, v, with.uses, w, <<>>)
  BY <1>1, <1>2, <1>4 DEF HeadedBy
<1> QED BY <1>5 DEF Headed, w

(* It still is when more is written behind it. *)
LEMMA HeadedMore ==
    ASSUME NEW t, NEW v \in Ident, NEW U, Headed(t, v, U), NEW x \in Seq(Lexeme),
           NEW V, NoVerbs(V) => NoVerbs(U)
    PROVE  Headed(t \o x, v, V)
<1>1. PICK w, r : HeadedBy(t, v, U, w, r)
  BY DEF Headed
<1>2. w \in Seq(Lexeme) /\ r \in Seq(Lexeme) /\ t = (w \o Word(v)) \o r
  BY <1>1 DEF HeadedBy, Fit
<1> DEFINE h == w \o Word(v)
<1>3. h \in Seq(Lexeme)
  BY <1>2, WordSeq, ConcatProperties
<1> HIDE DEF h
<1>4. (h \o r) \o x = h \o (r \o x) /\ r \o x \in Seq(Lexeme)
  BY <1>2, <1>3, ConcatAssociative, ConcatProperties
<1>5. t \o x = h \o (r \o x)
  BY <1>2, <1>4 DEF h
<1>6. HeadedBy(t \o x, v, V, w, r \o x)
  BY <1>1, <1>4, <1>5 DEF HeadedBy, h
<1> QED BY <1>6 DEF Headed

QueryOK(n) ==
    /\ Carries(n.text, n.uses) /\ Len(n.text) >= 2 /\ NamesOK(n.uses)
    /\ ResultOK(n.walk, n.uses) /\ Headed(n.text, "SELECT", n.uses)

(* Some words are not marks. *)
LEMMA SelectPlain == /\ "SELECT" \in Plain /\ "FROM" \in Plain /\ "WHERE" \in Plain
                     /\ "UNION" \in Plain /\ "*" \in Plain /\ "," \in Plain
                     /\ Plain \subseteq Ident
<1>1. {"SELECT", "FROM", "WHERE", "UNION", "*", ","} \subseteq Words \ Marks
  BY DEF Words, Marks
<1> QED BY <1>1, WordsPlain DEF Plain

(* A UNION is in order: it has the verb of its left operand, and the walk  *)
(* finds nothing in it.                                                    *)
LEMMA UnionOK ==
    ASSUME NEW left, QueryOK(left), NEW right, QueryOK(right)
    PROVE  QueryOK(Query(Union(left, right)))
<1> DEFINE n == Query(Union(left, right))
           U == left.uses
           V == right.uses
           W == through("union", U \union V)
           p == Parens(right.text)
           t == (left.text \o Word("UNION")) \o p
<1>1. n.text = t /\ n.uses = W /\ n.walk = NoResult
  BY DEF Query, Union, queryText, queryUses, isSelect
<1> HIDE DEF n
<1>2. Carries(left.text, U) /\ Carries(p, V)
  BY CarriesParens DEF QueryOK
<1>3. NamesOK(U) /\ NamesOK(V) /\ NamesOK(U \union V)
  BY DEF QueryOK, NamesOK
<1>a. Len(left.text) >= 2 /\ Headed(left.text, "SELECT", U)
  BY DEF QueryOK
<1> HIDE DEF U, V, p
<1>4. /\ Carries(left.text \o Word("UNION"), U) /\ Carries(t, U \union V)
      /\ Len(t) = Len(left.text) + 1 + Len(p) /\ Len(left.text) \in Nat /\ Len(p) \in Nat
  BY <1>2, SelectPlain, CarriesBetween
<1>5. Len(t) >= 2
  BY <1>4, <1>a
<1>6. "union" \in Blind
  BY DEF Blind
<1> DEFINE X == U \union V
<1> HIDE DEF X
<1>7. /\ Unseen(through("union", X)) /\ leadingIn(through("union", X)) \subseteq leadingIn(X)
      /\ NamesOK(through("union", X))
  BY <1>3, <1>6, UsesThrough DEF X
<1>8. NoVerbs(through("union", X)) => NoVerbs(U)
  <2>1. U \subseteq X
    BY DEF X
  <2> QED BY <2>1, NoVerbsKept
<1>9. Unseen(W) /\ leadingIn(W) \subseteq leadingIn(U \union V) /\ NamesOK(W)
      /\ (NoVerbs(W) => NoVerbs(U))
  BY <1>7, <1>8 DEF X
<1> HIDE DEF W
<1>10. Carries(t, W)
  BY <1>4, <1>9, CarriesLess
<1>11. Headed(t, "SELECT", W)
  <2>1. Word("UNION") \in Seq(Lexeme) /\ p \in Seq(Lexeme)
    BY <1>2, SelectPlain, WordSeq DEF Carries, Fit
  <2>2. "SELECT" \in Ident
    BY SelectPlain
  <2>3. Headed(left.text \o Word("UNION"), "SELECT", U)
    BY <1>a, <2>1, <2>2, HeadedMore
  <2> QED BY <1>9, <2>1, <2>2, <2>3, HeadedMore
<1>12. ResultOK(NoResult, W)
  BY <1>9, ResultNone
<1>13. QueryOK(n)
  BY <1>1, <1>5, <1>9, <1>10, <1>11, <1>12 DEF QueryOK
<1> QED BY <1>13 DEF n

(* The clauses of a SELECT. *)
LEMMA ProjectionCarries ==
    ASSUME NEW q, ExprOK(q.exprs), absent(q.exprs) => q.exprs = NoExpr
    PROVE  Carries(projectionText(q), q.exprs.uses)
<1> DEFINE U == q.exprs.uses
           e == q.exprs.text
<1>1. Carries(e, U)
  BY DEF ExprOK
<1>2. CASE ~q.star
  BY <1>1, <1>2 DEF projectionText
<1>3. CASE q.star /\ absent(q.exprs)
  <2>1. U = {}
    BY <1>3 DEF NoExpr
  <2> QED BY <1>3, <2>1, CarriesWord, SelectPlain DEF projectionText
<1>4. CASE q.star /\ ~absent(q.exprs)
  <2>1. projectionText(q) = (Word("*") \o Word(",")) \o e
    BY <1>4 DEF projectionText
  <2>2. Carries(Word("*"), {})
    BY SelectPlain, CarriesWord
  <2> HIDE DEF e, U
  <2>3. Carries((Word("*") \o Word(",")) \o e, {} \union U)
    BY <1>1, <2>2, SelectPlain, CarriesBetween
  <2>4. {} \union U = U
    OBVIOUS
  <2> QED BY <2>1, <2>3, <2>4 DEF U
<1> QED BY <1>2, <1>3, <1>4

(* A WHERE clause, if any, carries the uses of its expression. *)
LEMMA WhereCarries ==
    ASSUME NEW where, ExprOK(where), absent(where) => where = NoExpr
    PROVE  Carries(whereText(where), where.uses)
<1> DEFINE U == where.uses
<1>1. Carries(where.text, U)
  BY DEF ExprOK
<1>2. CASE absent(where)
  <2>1. U = {}
    BY <1>2 DEF NoExpr
  <2> QED BY <1>2, <2>1, CarriesEmpty DEF whereText
<1>3. CASE ~absent(where)
  <2>1. Carries(Word("WHERE"), {})
    BY SelectPlain, CarriesWord
  <2> HIDE DEF U
  <2>2. Carries(Word("WHERE") \o where.text, {} \union U)
    BY <1>1, <2>1, CarriesConcat
  <2>3. {} \union U = U
    OBVIOUS
  <2> QED BY <1>3, <2>2, <2>3 DEF whereText, U
<1> QED BY <1>2, <1>3

(* Arithmetic that the provers do not do next to sequences. *)
LEMMA AtLeastTwo == \A i, j \in Nat : i >= 1 => i + 1 + j \in Nat /\ i + 1 + j >= 2
OBVIOUS

(* A SELECT is in order: its parts are introduced, and found by the walk,  *)
(* clause by clause.                                                       *)
LEMMA SelectOK ==
    ASSUME NEW with, WithOK(with), NEW star \in BOOLEAN,
           NEW exprs0, ExprOK(exprs0), absent(exprs0) => exprs0 = NoExpr,
           NEW from, TableOK(from),
           NEW where, ExprOK(where), absent(where) => where = NoExpr
    PROVE  QueryOK(Query(Select(with, star, exprs0, from, where)))
<1> DEFINE sel == Select(with, star, exprs0, from, where)
           n == Query(sel)
           A == with.uses
           S == IF star THEN Use("star", <<"*">>, "") ELSE {}
           E == placed("output", exprs0.uses)
           F == from.first
           T == from.uses
           W == placed("filter", where.uses)
           X2 == (A \union S) \union E
           X4 == (X2 \union F) \union T
           X5 == X4 \union W
           h == with.text \o Word("SELECT")
           a == h \o projectionText(sel)
           b == (a \o Word("FROM")) \o from.text
           t == b \o whereText(where)
           r == analyzeSelect(sel)
<1>1. n.text = t /\ n.uses = X5 /\ n.walk = r
  BY DEF Query, Select, queryText, queryUses, isSelect
<1>2. /\ r.refs = ((with.walk.refs \union (where.columns \union from.columns))
                    \union from.derived.refs) \union {}
      /\ r.functions = ((with.walk.functions \union {}) \union from.derived.functions)
                         \union (exprs0.functions \union where.functions)
      /\ r.selectAll = (((with.walk.selectAll \/ FALSE) \/ from.derived.selectAll) \/ star)
      /\ r.aliases = replacing(replacing(replacing(with.walk.aliases, from.aliases),
                                         from.derived.aliases), <<>>)
  BY DEF analyzeSelect, Select, followedBy, collectFunctionsAndStars
<1>3. sel.exprs = exprs0 /\ sel.star = star
  BY DEF Select
<1> HIDE DEF n, sel, r
(* What is seen of each part. *)
<1>4. /\ refsIn(A, "filter") = with.walk.refs /\ calls(A) = with.walk.functions
      /\ with.walk.selectAll \in BOOLEAN /\ (hasStar(A) <=> with.walk.selectAll)
      /\ AliasOK(with.walk.aliases, A) /\ NamesOK(A) /\ Carries(with.text, A)
  BY DEF WithOK, ResultOK
<1>5. /\ refsIn(S, "filter") = {} /\ calls(S) = {} /\ (hasStar(S) <=> star)
      /\ leadingIn(S) = {} /\ NamesOK(S)
  <2>1. CASE star
    <3>1. <<"*">> \in Lexeme
      <4>1. \A x \in Ident : <<x>> \in Lexeme
        BY DEF Lexeme
      <4> QED BY <4>1, SelectPlain
    <3> QED BY <2>1, <3>1, UsesOne
  <2>2. CASE ~star
    BY <2>2, UsesNone DEF Unseen
  <2> QED BY <2>1, <2>2
<1>6. /\ refsIn(E, "filter") = {} /\ calls(E) = exprs0.functions /\ ~hasStar(E)
      /\ leadingIn(E) = leadingIn(exprs0.uses) /\ NamesOK(E)
  <2>1. /\ calls(E) = calls(exprs0.uses) /\ (hasStar(E) <=> hasStar(exprs0.uses))
        /\ refsIn(E, "filter") = refsIn(exprs0.uses, "filter") \union {}
        /\ leadingIn(E) = leadingIn(exprs0.uses) /\ (NamesOK(exprs0.uses) => NamesOK(E))
    BY UsesPlaced
  <2> HIDE DEF E
  <2> QED BY <2>1 DEF ExprOK
<1>7. Begins(from.text, F) /\ Unseen(F) /\ NamesOK(F) /\ from.text # <<>>
  BY UsesBegin DEF TableOK
<1>8. /\ refsIn(T, "filter") = from.columns \union from.derived.refs
      /\ calls(T) = from.derived.functions
      /\ from.derived.selectAll \in BOOLEAN /\ (hasStar(T) <=> from.derived.selectAll)
      /\ AliasOK(from.derived.aliases, T) /\ AliasOK(from.aliases, F \union T)
      /\ NamesOK(T) /\ Carries(from.text, T)
  BY DEF TableOK, Found
<1>9. /\ refsIn(W, "filter") = where.columns /\ calls(W) = where.functions /\ ~hasStar(W)
      /\ leadingIn(W) = leadingIn(where.uses) /\ NamesOK(W)
  <2>1. /\ calls(W) = calls(where.uses) /\ (hasStar(W) <=> hasStar(where.uses))
        /\ refsIn(W, "filter") = refsIn(where.uses, "filter") \union refsIn(where.uses, "column")
        /\ leadingIn(W) = leadingIn(where.uses) /\ (NamesOK(where.uses) => NamesOK(W))
    BY UsesPlaced
  <2> HIDE DEF W
  <2> QED BY <2>1 DEF ExprOK
<1>10. Carries(projectionText(sel), E)
  <2>1. Carries(projectionText(sel), exprs0.uses)
    BY <1>3, ProjectionCarries
  <2> HIDE DEF E
  <2> QED BY <1>6, <2>1, CarriesLess
<1>11. Carries(whereText(where), W)
  <2>1. Carries(whereText(where), where.uses)
    BY WhereCarries
  <2> HIDE DEF W
  <2> QED BY <1>9, <2>1, CarriesLess
<1> HIDE DEF A, S, E, F, T, W
(* The text. *)
<1>12. /\ Carries(h, A) /\ Len(h) \in Nat /\ Len(h) >= 1
  <2>1. Carries(Word("SELECT"), {}) /\ Len(Word("SELECT")) = 1
    BY SelectPlain, CarriesWord, WordSeq
  <2>2. /\ Carries(h, A \union {}) /\ Len(with.text) \in Nat
        /\ Len(h) = Len(with.text) + Len(Word("SELECT"))
    BY <1>4, <2>1, CarriesConcat
  <2>3. A \union {} = A
    OBVIOUS
  <2> HIDE DEF h
  <2> QED BY <2>1, <2>2, <2>3
<1>13. Carries(a, X2) /\ Len(a) \in Nat /\ Len(a) >= 1
  <2> HIDE DEF h
  <2>1. /\ Carries(a, A \union E) /\ Len(a) = Len(h) + Len(projectionText(sel))
        /\ Len(projectionText(sel)) \in Nat
    BY <1>10, <1>12, CarriesConcat
  <2>2. leadingIn(A \union E) = leadingIn(A) \union leadingIn(E)
    BY UsesUnion
  <2>3. leadingIn(A \union S) = leadingIn(A) \union leadingIn(S)
    BY UsesUnion
  <2> DEFINE X1 == A \union S
  <2> HIDE DEF X1
  <2>4. leadingIn(X1 \union E) = leadingIn(X1) \union leadingIn(E)
    BY UsesUnion
  <2>5. leadingIn(X2) \subseteq leadingIn(A \union E)
    BY <1>5, <2>2, <2>3, <2>4 DEF X1
  <2> HIDE DEF a, X2
  <2>6. Len(a) \in Nat /\ Len(a) >= 1
    BY <1>12, <2>1
  <2> QED BY <2>1, <2>5, <2>6, CarriesLess
<1>14. Carries(b, X4) /\ Len(b) \in Nat /\ Len(b) >= 2
  <2> HIDE DEF a, X2
  <2>1. Carries(b, X4)
    BY <1>7, <1>8, <1>13, CarriesFirst
  <2>f. "FROM" \in Plain
    BY SelectPlain
  <2>2. Len(b) = Len(a) + 1 + Len(from.text) /\ Len(from.text) \in Nat
    BY <1>8, <1>13, <2>f, CarriesBetween
  <2> HIDE DEF b
  <2> QED BY <1>13, <2>1, <2>2, AtLeastTwo
<1>15. Carries(t, X5) /\ Len(t) >= 2
  <2> HIDE DEF b, X4
  <2>1. /\ Carries(t, X5) /\ Len(t) = Len(b) + Len(whereText(where))
        /\ Len(whereText(where)) \in Nat
    BY <1>11, <1>14, CarriesConcat
  <2> HIDE DEF t
  <2> QED BY <1>14, <2>1
<1>16. Headed(t, "SELECT", X5)
  <2>1. "SELECT" \in Ident
    BY SelectPlain
  <2>2. /\ projectionText(sel) \in Seq(Lexeme) /\ whereText(where) \in Seq(Lexeme)
        /\ Word("FROM") \in Seq(Lexeme) /\ from.text \in Seq(Lexeme)
    BY <1>8, <1>10, <1>11, SelectPlain, WordSeq DEF Carries, Fit
  <2>3. Headed(h, "SELECT", A)
    BY <2>1, HeadedFirst DEF A
  <2>4. A \subseteq X5
    OBVIOUS
  <2>5. NoVerbs(X5) => NoVerbs(A)
    <3> HIDE DEF X5
    <3> QED BY <2>4, NoVerbsKept
  <2> HIDE DEF h, X5
  <2>6. Headed(a, "SELECT", A)
    BY <2>1, <2>2, <2>3, HeadedMore
  <2> HIDE DEF a
  <2> DEFINE c == a \o Word("FROM")
  <2>7. Headed(c, "SELECT", A)
    BY <2>1, <2>2, <2>6, HeadedMore
  <2> HIDE DEF c
  <2>8. Headed(c \o from.text, "SELECT", A)
    BY <2>1, <2>2, <2>7, HeadedMore
  <2>9. Headed(b, "SELECT", A)
    BY <2>8 DEF c
  <2> HIDE DEF b
  <2> QED BY <2>1, <2>2, <2>5, <2>9, HeadedMore
(* The walk. *)
<1> HIDE DEF h, a, b, t
<1>17. /\ refsIn(X5, "filter") = (with.walk.refs \union (from.columns \union from.derived.refs))
                                  \union where.columns
       /\ calls(X5) = ((with.walk.functions \union exprs0.functions) \union from.derived.functions)
                        \union where.functions
       /\ hasStar(X5) <=> with.walk.selectAll \/ star \/ from.derived.selectAll
  <2> DEFINE X1 == A \union S
             X3 == X2 \union F
  <2>u. F = F /\ calls(F) = {} /\ refsIn(F, "filter") = {} /\ ~hasStar(F)
    BY <1>7 DEF Unseen
  <2>1. /\ calls(X1) = calls(A) \union calls(S) /\ (hasStar(X1) <=> hasStar(A) \/ hasStar(S))
        /\ refsIn(X1, "filter") = refsIn(A, "filter") \union refsIn(S, "filter")
    BY SeenUnion
  <2>x. X2 = X1 \union E /\ X4 = X3 \union T
    OBVIOUS
  <2> HIDE DEF X1, X4
  <2>2. /\ calls(X1 \union E) = calls(X1) \union calls(E)
        /\ (hasStar(X1 \union E) <=> hasStar(X1) \/ hasStar(E))
        /\ refsIn(X1 \union E, "filter") = refsIn(X1, "filter") \union refsIn(E, "filter")
    BY SeenUnion
  <2> HIDE DEF X2
  <2>3. /\ calls(X3) = calls(X2) \union calls(F) /\ (hasStar(X3) <=> hasStar(X2) \/ hasStar(F))
        /\ refsIn(X3, "filter") = refsIn(X2, "filter") \union refsIn(F, "filter")
    BY SeenUnion
  <2> HIDE DEF X3
  <2>4. /\ calls(X3 \union T) = calls(X3) \union calls(T)
        /\ (hasStar(X3 \union T) <=> hasStar(X3) \/ hasStar(T))
        /\ refsIn(X3 \union T, "filter") = refsIn(X3, "filter") \union refsIn(T, "filter")
    BY SeenUnion
  <2>5. /\ calls(X5) = calls(X4) \union calls(W) /\ (hasStar(X5) <=> hasStar(X4) \/ hasStar(W))
        /\ refsIn(X5, "filter") = refsIn(X4, "filter") \union refsIn(W, "filter")
    BY SeenUnion
  <2> HIDE DEF X5
  <2>6. refsIn(X5, "filter") = (with.walk.refs \union (from.columns \union from.derived.refs))
                                 \union where.columns
    BY <1>4, <1>5, <1>6, <1>8, <1>9, <2>u, <2>1, <2>x, <2>2, <2>3, <2>4, <2>5
  <2>7. calls(X5) = ((with.walk.functions \union exprs0.functions) \union from.derived.functions)
                      \union where.functions
    BY <1>4, <1>5, <1>6, <1>8, <1>9, <2>u, <2>1, <2>x, <2>2, <2>3, <2>4, <2>5
  <2>8. hasStar(X5) <=> with.walk.selectAll \/ star \/ from.derived.selectAll
    BY <1>4, <1>5, <1>6, <1>8, <1>9, <2>u, <2>1, <2>x, <2>2, <2>3, <2>4, <2>5
  <2> QED BY <2>6, <2>7, <2>8
<1>18. AliasOK(r.aliases, X5)
  <2> DEFINE d == replacing(with.walk.aliases, from.aliases)
             e == replacing(d, from.derived.aliases)
             Y == A \union (F \union T)
             Z == Y \union T
  <2>1. AliasOK(d, Y)
    BY <1>4, <1>8, AliasReplacing
  <2> HIDE DEF d, Y
  <2>2. AliasOK(e, Z)
    BY <1>8, <2>1, AliasReplacing
  <2> HIDE DEF e, Z
  <2>3. AliasOK(replacing(e, <<>>), Z \union {})
    BY <2>2, NoAliases, AliasReplacing
  <2>4. Z \union {} \subseteq X5
    BY DEF Y, Z
  <2>5. r.aliases = replacing(e, <<>>)
    BY <1>2 DEF d, e
  <2> HIDE DEF X5
  <2> QED BY <2>3, <2>4, <2>5, AliasWiden
<1>19. NamesOK(X5)
  BY <1>4, <1>5, <1>6, <1>7, <1>8, <1>9 DEF NamesOK
<1> HIDE DEF X5
<1>20. ResultOK(r, X5)
  <2>1. r.refs = refsIn(X5, "filter")
    BY <1>2, <1>17
  <2>2. r.functions = calls(X5)
    BY <1>2, <1>17
  <2>3. r.selectAll \in BOOLEAN /\ (r.selectAll <=> hasStar(X5))
    BY <1>2, <1>4, <1>8, <1>17
  <2> QED BY <1>18, <2>1, <2>2, <2>3 DEF ResultOK
<1>21. QueryOK(n)
  BY <1>1, <1>15, <1>16, <1>19, <1>20 DEF QueryOK
<1> QED BY <1>21 DEF n, sel

-----------------------------------------------------------------------------
(* Statements.                                                             *)

Changes == {"INSERT", "CREATE", "DELETE", "UPDATE", "DROP"}

(* The text t begins with the word v and carries the uses F. *)
BodyOK(t, v, F) ==
    Carries(t, F) /\ Len(t) >= 2 /\ \E r \in Seq(Lexeme) : t = Word(v) \o r

(* The body of a change may go on with another word. *)
LEMMA BodyMore ==
    ASSUME NEW t, NEW v \in Ident, NEW F, BodyOK(t, v, F), NEW w \in Plain
    PROVE  BodyOK(t \o Word(w), v, F)
<1> DEFINE x == Word(w)
           y == Word(v)
<1>1. Carries(x, {}) /\ x \in Seq(Lexeme) /\ y \in Seq(Lexeme)
  BY CarriesWord, SelectPlain, WordSeq
<1>2. PICK r \in Seq(Lexeme) : t = Word(v) \o r
  BY DEF BodyOK
<1> HIDE DEF x, y
<1>3. (y \o r) \o x = y \o (r \o x) /\ r \o x \in Seq(Lexeme)
  BY <1>1, ConcatAssociative, ConcatProperties
<1>4. \E z \in Seq(Lexeme) : t \o x = Word(v) \o z
  BY <1>2, <1>3 DEF y
<1>5. Carries(t, F) /\ Len(t) >= 2
  BY DEF BodyOK
<1>6. /\ Carries(t \o x, F \union {}) /\ Len(t \o x) = Len(t) + Len(x)
      /\ Len(t) \in Nat /\ Len(x) \in Nat
  BY <1>1, <1>5, CarriesConcat
<1>7. F \union {} = F
  OBVIOUS
<1> DEFINE z == t \o x
<1>8. Carries(z, F) /\ Len(z) >= 2 /\ \E r2 \in Seq(Lexeme) : z = Word(v) \o r2
  <2>1. \A i, j \in Nat : i >= 2 => i + j >= 2
    OBVIOUS
  <2> QED BY <1>4, <1>5, <1>6, <1>7, <2>1
<1> QED BY <1>8 DEF BodyOK, x

(* A changed table begins the text of its name. *)
LEMMA TargetBegins ==
    ASSUME NEW target \in Dotted
    PROVE  /\ Carries(<<target>>, {}) /\ <<target>> # <<>> /\ Len(<<target>>) = 1
           /\ <<target>> \in Seq(Lexeme) /\ Begins(<<target>>, Use("table", target, ""))
<1>1. target \in Lexeme
  BY DEF Dotted, Lexeme
<1>2. <<target>> \in Seq(Lexeme) /\ Len(<<target>>) = 1 /\ <<target>>[1] = target
  BY <1>1, DepthOne
<1>3. <<target>> # <<>>
  BY <1>2, NonEmpty
<1>4. Carries(<<target>>, {})
  BY FitOne, UsesNone DEF Carries
<1>5. Begins(<<target>>, Use("table", target, ""))
  <2> DEFINE u == [what |-> "table", name |-> target, as |-> "", path |-> {}]
  <2>1. Use("table", target, "") = {u} /\ u.what = "table" /\ u.name = target /\ u.path = {}
    BY DEF Use
  <2> HIDE DEF u
  <2> QED BY <1>1, <1>2, <2>1 DEF Begins
<1> QED BY <1>2, <1>3, <1>4, <1>5

(* Behind FROM, INTO or TABLE it is introduced. *)
LEMMA BodyFirst ==
    ASSUME NEW v \in Plain, NEW w \in {"FROM", "INTO", "TABLE"}, NEW target \in Dotted
    PROVE  BodyOK((Word(v) \o Word(w)) \o <<target>>, v, Use("table", target, ""))
<1> DEFINE x == Word(v)
           y == Word(w)
           b == <<target>>
           F == Use("table", target, "")
           t == (x \o y) \o b
<1>0. w \in Plain
  <2>1. w \in Words \ Marks
    BY DEF Words, Marks
  <2> QED BY <2>1, WordsPlain
<1>1. /\ Carries(x, {}) /\ x \in Seq(Lexeme) /\ y \in Seq(Lexeme) /\ Len(x) = 1
  BY <1>0, CarriesWord, SelectPlain, WordSeq
<1>2. /\ Carries(b, {}) /\ b # <<>> /\ Begins(b, F) /\ b \in Seq(Lexeme) /\ Len(b) = 1
  BY TargetBegins
<1> HIDE DEF x, b, F
<1>3. Carries(t, ({} \union F) \union {})
  BY <1>1, <1>2, CarriesFirst
<1>4. Len(t) = Len(x) + 1 + Len(b)
  BY <1>0, <1>1, <1>2, CarriesBetween
<1>5. ({} \union F) \union {} = F
  OBVIOUS
<1> HIDE DEF y
<1>6. t = x \o (y \o b) /\ y \o b \in Seq(Lexeme)
  BY <1>1, <1>2, ConcatAssociative, ConcatProperties
<1> HIDE DEF t
<1>7. Len(t) >= 2
  BY <1>1, <1>2, <1>4
<1>8. BodyOK(t, v, F)
  BY <1>3, <1>5, <1>6, <1>7 DEF BodyOK, x
<1> QED BY <1>8 DEF t, x, y, b, F

(* Right behind UPDATE it is too. *)
LEMMA BodyUpdate ==
    ASSUME NEW target \in Dotted
    PROVE  BodyOK(Word("UPDATE") \o <<target>>, "UPDATE", Use("table", target, ""))
<1> DEFINE x == Word("UPDATE")
           b == <<target>>
           F == Use("table", target, "")
           t == (<<>> \o x) \o b
<1>0. "UPDATE" \in Plain
  <2>1. "UPDATE" \in Words \ Marks
    BY DEF Words, Marks
  <2> QED BY <2>1, WordsPlain
<1>1. x \in Seq(Lexeme) /\ Len(x) = 1
  BY <1>0, SelectPlain, WordSeq
<1>2. /\ Carries(b, {}) /\ b # <<>> /\ Begins(b, F) /\ b \in Seq(Lexeme) /\ Len(b) = 1
  BY TargetBegins
<1> HIDE DEF b, F
<1>3. Carries(t, ({} \union F) \union {})
  BY <1>2, CarriesEmpty, CarriesFirst
<1>5. ({} \union F) \union {} = F
  OBVIOUS
<1> HIDE DEF x
<1>6. <<>> \o x = x
  BY <1>1, ConcatEmptySeq
<1>7. t = x \o b
  BY <1>6
<1>8. Len(x \o b) = Len(x) + Len(b)
  BY <1>1, <1>2, ConcatProperties
<1> HIDE DEF t
<1>9. Len(t) >= 2
  BY <1>1, <1>2, <1>7, <1>8
<1>10. BodyOK(t, "UPDATE", F)
  BY <1>2, <1>3, <1>5, <1>7, <1>9 DEF BodyOK, x
<1> QED BY <1>7, <1>10 DEF x, b, F

(* So it is in every kind of change. *)
LEMMA BodyText ==
    ASSUME NEW verb \in Changes, NEW target \in Dotted
    PROVE  BodyOK(bodyText(verb, target), verb, Use("table", target, ""))
<1> DEFINE F == Use("table", target, "")
<1>1. /\ "INSERT" \in Plain /\ "CREATE" \in Plain /\ "DELETE" \in Plain /\ "DROP" \in Plain
      /\ "UPDATE" \in Plain /\ "AS" \in Plain /\ "SET" \in Plain /\ "x" \in Plain
      /\ "=" \in Plain /\ "'" \in Plain
  <2>1. {"INSERT", "CREATE", "DELETE", "DROP", "UPDATE", "AS", "SET", "x", "=", "'"}
          \subseteq Words \ Marks
    BY DEF Words, Marks
  <2> QED BY <2>1, WordsPlain
<1>2. CASE verb = "INSERT"
  BY <1>1, <1>2, BodyFirst DEF bodyText
<1>3. CASE verb = "DELETE"
  BY <1>1, <1>3, BodyFirst DEF bodyText
<1>4. CASE verb = "DROP"
  BY <1>1, <1>4, BodyFirst DEF bodyText
<1>5. CASE verb = "CREATE"
  <2> DEFINE t == (Word("CREATE") \o Word("TABLE")) \o <<target>>
  <2>1. BodyOK(t, "CREATE", F)
    BY <1>1, BodyFirst
  <2>2. bodyText("CREATE", target) = t \o Word("AS")
    BY DEF bodyText
  <2> HIDE DEF t, F
  <2>3. BodyOK(t \o Word("AS"), "CREATE", F)
    BY <1>1, <2>1, SelectPlain, BodyMore
  <2> QED BY <1>5, <2>2, <2>3 DEF F
<1>6. CASE verb = "UPDATE"
  <2> DEFINE t == Word("UPDATE") \o <<target>>
             t1 == t \o Word("SET")
             t2 == t1 \o Word("x")
             t3 == t2 \o Word("=")
             t4 == t3 \o Word("'")
  <2>1. BodyOK(t, "UPDATE", F)
    BY BodyUpdate
  <2>2. bodyText("UPDATE", target) = t4
    BY DEF bodyText
  <2>i. "UPDATE" \in Ident
    BY <1>1, SelectPlain
  <2> HIDE DEF t, F
  <2>3. BodyOK(t1, "UPDATE", F)
    BY <1>1, <2>1, <2>i, BodyMore
  <2> HIDE DEF t1
  <2>4. BodyOK(t2, "UPDATE", F)
    BY <1>1, <2>3, <2>i, BodyMore
  <2> HIDE DEF t2
  <2>5. BodyOK(t3, "UPDATE", F)
    BY <1>1, <2>4, <2>i, BodyMore
  <2> HIDE DEF t3
  <2>6. BodyOK(t4, "UPDATE", F)
    BY <1>1, <2>5, <2>i, BodyMore
  <2> HIDE DEF t4
  <2> QED BY <1>6, <2>2, <2>6 DEF F
<1> QED BY <1>2, <1>3, <1>4, <1>5, <1>6 DEF Changes

StatementOK(s) ==
    /\ s.verb \in Changes \union {"SELECT"}
    /\ Carries(lexemes(s), usesOf(s)) /\ Len(lexemes(s)) >= 2
    /\ Headed(lexemes(s), s.verb, usesOf(s))
    /\ NamesOK(usesOf(s)) /\ ResultOK(walked(s), usesOf(s))

(* The text and the uses of a statement that changes a table. *)
LEMMA ChangeText ==
    ASSUME NEW verb \in Changes, NEW with, WithOK(with), NEW target \in Dotted,
           NEW qt, NEW Q, Carries(qt, Q), NamesOK(Q),
           NEW where, ExprOK(where), absent(where) => where = NoExpr
    PROVE  LET t == ((with.text \o bodyText(verb, target)) \o qt) \o whereText(where)
               U == ((Use("table", target, "") \union through("prefix", with.uses))
                      \union Q) \union condition("change", where)
           IN  /\ Carries(t, U) /\ Len(t) >= 2 /\ Headed(t, verb, U) /\ NamesOK(U)
<1> DEFINE F == Use("table", target, "")
           P == through("prefix", with.uses)
           C == condition("change", where)
           b == bodyText(verb, target)
           wt == with.text
           ht == whereText(where)
           a1 == wt \o b
           a2 == a1 \o qt
           t == a2 \o ht
           U1 == F \union P
           U2 == U1 \union Q
           U == U2 \union C
<1>0. verb \in Plain /\ verb \in Ident
  <2>1. verb \in Words \ Marks
    BY DEF Changes, Words, Marks
  <2> QED BY <2>1, WordsPlain, SelectPlain
<1>1. BodyOK(b, verb, F)
  BY BodyText
<1>2. Carries(b, F) /\ Len(b) >= 2 /\ \E r \in Seq(Lexeme) : b = Word(verb) \o r
  BY <1>1 DEF BodyOK
<1>3. Carries(wt, with.uses) /\ NamesOK(with.uses)
  BY DEF WithOK
<1>4. /\ leadingIn(P) \subseteq leadingIn(with.uses) /\ NamesOK(P)
  BY <1>3, UsesThrough
<1>5. Carries(wt, P)
  <2> HIDE DEF P
  <2> QED BY <1>3, <1>4, CarriesLess
<1>6. Carries(ht, C) /\ NamesOK(C)
  <2>1. Carries(ht, where.uses)
    BY WhereCarries
  <2>2. leadingIn(C) \subseteq leadingIn(placed("filter", where.uses))
    BY UsesThrough DEF condition
  <2>3. leadingIn(placed("filter", where.uses)) = leadingIn(where.uses)
    BY UsesPlaced
  <2>4. NamesOK(C)
    BY FoundCondition
  <2> HIDE DEF C, ht
  <2> QED BY <2>1, <2>2, <2>3, <2>4, CarriesLess
<1>7. NamesOK(F)
  <2>1. target \in Lexeme
    BY DEF Dotted, Lexeme
  <2> QED BY <2>1, UsesOne
<1>t. wt \in Seq(Lexeme) /\ b \in Seq(Lexeme) /\ qt \in Seq(Lexeme) /\ ht \in Seq(Lexeme)
  BY <1>2, <1>3, <1>6 DEF Carries, Fit
<1>p. P \subseteq U /\ (NoVerbs(P) => NoVerbs(with.uses))
  BY NoVerbsKept
<1> HIDE DEF F, P, C, b, wt, ht
<1>8. /\ Carries(a1, P \union F) /\ Len(a1) = Len(wt) + Len(b)
      /\ Len(wt) \in Nat /\ Len(b) \in Nat
  BY <1>2, <1>5, CarriesConcat
<1>9. Carries(a1, U1) /\ Len(a1) \in Nat /\ Len(a1) >= 2
  <2>1. P \union F = U1
    OBVIOUS
  <2>2. \A i, j \in Nat : j >= 2 => i + j \in Nat /\ i + j >= 2
    OBVIOUS
  <2> HIDE DEF a1, U1
  <2> QED BY <1>2, <1>8, <2>1, <2>2
<1>10. Headed(a1, verb, with.uses)
  <2>1. PICK r \in Seq(Lexeme) : b = Word(verb) \o r
    BY <1>2
  <2> DEFINE y == Word(verb)
  <2>2. y \in Seq(Lexeme)
    BY <1>0, WordSeq
  <2>3. Headed(wt \o y, verb, with.uses)
    BY <1>0, HeadedFirst DEF wt
  <2> HIDE DEF y
  <2> DEFINE z == wt \o y
  <2>w. wt \in Seq(Lexeme)
    BY <1>t
  <2>4. (wt \o y) \o r = wt \o (y \o r)
    BY <2>1, <2>2, <2>w, ConcatAssociative
  <2>5. a1 = z \o r
    BY <2>1, <2>4 DEF y
  <2>6. Headed(z, verb, with.uses)
    BY <2>3
  <2> HIDE DEF z, a1
  <2>7. Headed(z \o r, verb, with.uses)
    BY <1>0, <2>1, <2>6, HeadedMore
  <2> QED BY <2>5, <2>7
<1> HIDE DEF a1, U1
<1>11. /\ Carries(a2, U2) /\ Len(a2) = Len(a1) + Len(qt) /\ Len(qt) \in Nat
  BY <1>9, CarriesConcat
<1>12. Headed(a2, verb, with.uses)
  BY <1>0, <1>10, <1>t, HeadedMore
<1> HIDE DEF a2
<1>p2. NoVerbs(U) => NoVerbs(with.uses)
  <2> HIDE DEF U
  <2> QED BY <1>p, NoVerbsKept
<1> HIDE DEF U2
<1>13. /\ Carries(t, U) /\ Len(t) = Len(a2) + Len(ht) /\ Len(ht) \in Nat
  BY <1>6, <1>11, CarriesConcat
<1>14. Headed(t, verb, U)
  <2> HIDE DEF U
  <2> QED BY <1>0, <1>12, <1>p2, <1>t, HeadedMore
<1>15. NamesOK(U)
  BY <1>4, <1>6, <1>7 DEF NamesOK, U1, U2
<1> HIDE DEF t, U
<1>16. Len(t) >= 2
  BY <1>9, <1>11, <1>13
<1>17. Carries(t, U) /\ Len(t) >= 2 /\ Headed(t, verb, U) /\ NamesOK(U)
  BY <1>13, <1>14, <1>15, <1>16
<1> QED BY <1>17 DEF t, U, U2, U1, a2, a1, F, P, C, b, wt, ht

(* What is seen of it: its query, and the columns of its WHERE. *)
LEMMA ChangeFound ==
    ASSUME NEW with, NEW target \in Dotted, NEW r, NEW Q, ResultOK(r, Q),
           NEW where, ExprOK(where)
    PROVE  Found(where.columns, r,
                 ((Use("table", target, "") \union through("prefix", with.uses))
                     \union Q) \union condition("change", where))
<1> DEFINE F == Use("table", target, "")
           P == through("prefix", with.uses)
           C == condition("change", where)
<1>1. Unseen(F)
  <2>1. target \in Lexeme
    BY DEF Dotted, Lexeme
  <2>2. calls(F) = {} /\ refsIn(F, "filter") = {} /\ refsIn(F, "column") = {} /\ ~hasStar(F)
    BY <2>1, UsesOne
  <2> QED BY <2>2 DEF Unseen
<1>2. Unseen(P)
  <2>1. "prefix" \in Blind
    BY DEF Blind
  <2> QED BY <2>1, UsesThrough
<1>3. Found(where.columns, NoResult, C)
  BY FoundCondition
<1> HIDE DEF F, P, C
<1>4. ResultOK(r, P \union Q)
  BY <1>2, ResultWiden
<1> DEFINE V == P \union Q
<1> HIDE DEF V
<1>5. ResultOK(r, F \union V)
  BY <1>1, <1>4, ResultWiden DEF V
<1> DEFINE X == F \union V
<1> HIDE DEF X
<1>6. Found({}, r, X)
  BY <1>5, FoundResult DEF X
<1>7. Found({} \union where.columns, r, X \union C)
  BY <1>3, <1>6, FoundMore
<1>8. {} \union where.columns = where.columns
  OBVIOUS
<1>9. X \union C = ((F \union P) \union Q) \union C
  BY DEF X, V
<1>10. Found(where.columns, r, ((F \union P) \union Q) \union C)
  BY <1>7, <1>8, <1>9
<1> QED BY <1>10 DEF F, P, C

(* References found without a walk, as a result. *)
LEMMA FoundResultMade ==
    ASSUME NEW c, NEW U, Found(c, NoResult, U)
    PROVE  ResultOK([refs |-> c, aliases |-> <<>>, functions |-> {}, selectAll |-> FALSE], U)
<1> DEFINE r == [refs |-> c, aliases |-> <<>>, functions |-> {}, selectAll |-> FALSE]
<1>1. r.refs = c /\ r.aliases = <<>> /\ r.functions = {} /\ r.selectAll = FALSE
  OBVIOUS
<1>2. /\ NoResult.refs = {} /\ NoResult.aliases = <<>> /\ NoResult.functions = {}
      /\ NoResult.selectAll = FALSE
  BY DEF NoResult
<1> HIDE DEF r
<1>3. ResultOK(r, U)
  BY <1>1, <1>2 DEF Found, ResultOK
<1> QED BY <1>3 DEF r

(* What the absent parts of a statement contribute: nothing. *)
LEMMA NoParts ==
    /\ NoQuery.text = <<>> /\ NoQuery.uses = {} /\ ResultOK(NoResult, {})
    /\ Carries(<<>>, {}) /\ NamesOK({})
    /\ NoExpr.uses = {} /\ NoExpr.columns = {} /\ absent(NoExpr) /\ ExprOK(NoExpr)
    /\ NoWith.text = <<>> /\ NoWith.uses = {} /\ WithOK(NoWith) /\ NoResult = NoWith.walk
    /\ whereText(NoExpr) = <<>> /\ condition("change", NoExpr) = {}
    /\ \A c : through(c, {}) = {}
  BY ResultNone, UsesNone, CarriesEmpty, NoExprOK, NoWithOK
     DEF NoQuery, NoExpr, NoWith, absent, whereText, condition, through, placed

(* A statement that changes a table is in order: what the type switch of   *)
(* Analyze takes from it is what there is to find.                         *)
LEMMA ChangeOK ==
    ASSUME NEW verb \in Changes, NEW with, WithOK(with), NEW target \in Dotted,
           NEW query, Carries(query.text, query.uses), NamesOK(query.uses),
           NEW where, ExprOK(where), absent(where) => where = NoExpr, NEW layout,
           verb = "INSERT" => ResultOK(query.walk, query.uses) /\ where = NoExpr,
           verb \in {"DELETE", "UPDATE"} => query = NoQuery,
           verb = "CREATE" => where = NoExpr,
           verb = "DROP" => query = NoQuery /\ where = NoExpr
    PROVE  StatementOK(Statement(verb, with, target, query, where, layout))
<1> DEFINE s == Statement(verb, with, target, query, where, layout)
           Q == IF verb = "CREATE" THEN through("created", query.uses) ELSE query.uses
           F == Use("table", target, "")
           P == through("prefix", with.uses)
           C == condition("change", where)
           U == ((F \union P) \union Q) \union C
           t == ((with.text \o bodyText(verb, target)) \o query.text) \o whereText(where)
<1>0. verb # "SELECT"
  BY DEF Changes
<1>1. /\ s.verb = verb /\ s.with = with /\ s.target = target /\ s.query = query
      /\ s.where = where
  BY DEF Statement
<1> HIDE DEF s
<1>2. lexemes(s) = t /\ usesOf(s) = U
  BY <1>0, <1>1 DEF lexemes, usesOf, condition
<1>3. Carries(query.text, Q) /\ NamesOK(Q)
  <2>1. CASE verb = "CREATE"
    <3> DEFINE V == through("created", query.uses)
    <3>1. leadingIn(V) \subseteq leadingIn(query.uses) /\ NamesOK(V)
      BY UsesThrough
    <3> HIDE DEF V
    <3>2. Carries(query.text, V)
      BY <3>1, CarriesLess
    <3> QED BY <2>1, <3>1, <3>2 DEF V
  <2>2. CASE verb # "CREATE"
    BY <2>2
  <2> QED BY <2>1, <2>2
<1> HIDE DEF Q
<1>4. Carries(t, U) /\ Len(t) >= 2 /\ Headed(t, verb, U) /\ NamesOK(U)
  BY <1>3, ChangeText
<1>5. ResultOK(walked(s), U)
  <2>1. CASE verb = "INSERT"
    <3>1. walked(s) = query.walk /\ Q = query.uses
      BY <1>1, <2>1 DEF walked, Q
    <3>2. Found(where.columns, query.walk, U)
      BY <2>1, <3>1, ChangeFound
    <3>3. where.columns = {}
      BY <2>1, NoParts
    <3> HIDE DEF U
    <3> QED BY <3>1, <3>2, <3>3, FoundResult
  <2>2. CASE verb \in {"DELETE", "UPDATE"}
    <3>1. walked(s) = [refs |-> where.columns, aliases |-> <<>>, functions |-> {},
                       selectAll |-> FALSE]
      BY <1>1, <2>2 DEF walked
    <3>2. ResultOK(NoResult, Q)
      BY <2>2, NoParts DEF Q
    <3>3. Found(where.columns, NoResult, U)
      BY <3>2, ChangeFound
    <3> HIDE DEF U
    <3> QED BY <3>1, <3>3, FoundResultMade
  <2>3. CASE verb \in {"CREATE", "DROP"}
    <3>1. walked(s) = NoResult
      BY <1>1, <2>3 DEF walked
    <3>2. ResultOK(NoResult, Q)
      <4>1. CASE verb = "CREATE"
        <5>1. Unseen(through("created", query.uses))
          <6>1. "created" \in Blind
            BY DEF Blind
          <6> QED BY <6>1, UsesThrough
        <5> QED BY <4>1, <5>1, ResultNone DEF Q
      <4>2. CASE verb = "DROP"
        BY <4>2, NoParts DEF Q
      <4> QED BY <2>3, <4>1, <4>2
    <3>3. Found(where.columns, NoResult, U)
      BY <3>2, ChangeFound
    <3>4. where.columns = {}
      BY <2>3, NoParts
    <3> HIDE DEF U
    <3> QED BY <3>1, <3>3, <3>4, FoundResult
  <2> QED BY <2>1, <2>2, <2>3 DEF Changes
<1> HIDE DEF t, U
<1>6. StatementOK(s)
  BY <1>1, <1>2, <1>4, <1>5 DEF StatementOK
<1> QED BY <1>6 DEF s

(* So is a query. *)
LEMMA QueryStatementOK ==
    ASSUME NEW q, QueryOK(q), NEW layout
    PROVE  StatementOK(Statement("SELECT", NoWith, <<>>, q, NoExpr, layout))
<1> DEFINE s == Statement("SELECT", NoWith, <<>>, q, NoExpr, layout)
<1>1. /\ s.verb = "SELECT" /\ s.with = NoWith /\ s.query = q /\ s.where = NoExpr
  BY DEF Statement
<1> HIDE DEF s
<1>2. usesOf(s) = q.uses
  <2>1. usesOf(s) = (({} \union {}) \union q.uses) \union {}
    BY <1>1, NoParts DEF usesOf, condition
  <2> QED BY <2>1
<1>3. lexemes(s) = q.text
  <2>1. q.text \in Seq(Lexeme)
    BY DEF QueryOK, Carries, Fit
  <2>2. bodyText("SELECT", s.target) = <<>>
    BY DEF bodyText
  <2>3. lexemes(s) = ((<<>> \o <<>>) \o q.text) \o <<>>
    BY <1>1, <2>2, NoParts DEF lexemes
  <2>4. <<>> \in Seq(Lexeme)
    OBVIOUS
  <2>5. <<>> \o <<>> = <<>>
    BY <2>4, ConcatEmptySeq
  <2>6. <<>> \o q.text = q.text /\ q.text \o <<>> = q.text
    BY <2>1, ConcatEmptySeq
  <2> QED BY <2>3, <2>5, <2>6
<1>4. walked(s) = q.walk
  BY <1>1 DEF walked
<1>5. StatementOK(s)
  BY <1>1, <1>2, <1>3, <1>4 DEF StatementOK, QueryOK
<1> QED BY <1>5 DEF s

-----------------------------------------------------------------------------
(* Derivations.                                                            *)

NodeOK(n) ==
    /\ n.kind \in ExprKinds \union {"exprs"} => ExprOK(n)
    /\ n.kind \in TableKinds \union {"tables"} => TableOK(n)
    /\ n.kind = "with" => WithOK(n)
    /\ n.kind \in {"select", "union"} => QueryOK(n)

NodesOK == \A n \in built : NodeOK(n)

(* Inductive: every node built so far, and the statement once it is there, *)
(* are well formed, and the walk agrees with their uses.                   *)
DerivationOK ==
    /\ NodesOK
    /\ \A s \in issued : StatementOK(s) /\ result = Analyze(analysed(s))

(* The kinds of nodes differ. *)
LEMMA KindsOfNodes ==
    /\ "none" \notin ExprKinds \union {"exprs"} /\ ExprKinds \intersect TableKinds = {}
    /\ ExprKinds \intersect {"exprs", "tables", "with", "select", "union"} = {}
    /\ TableKinds \intersect {"exprs", "tables", "with", "select", "union"} = {}
  BY DEF ExprKinds, TableKinds

(* Columns, literals and named tables are in order. *)
LEMMA LeavesOK ==
    /\ \A e \in Leaves : ExprOK(e) /\ e.kind \in ExprKinds
    /\ \A te \in NamedTables : TableOK(te) /\ te.kind \in TableKinds
<1>1. ASSUME NEW e \in Leaves
      PROVE  ExprOK(e) /\ e.kind \in ExprKinds
  <2>1. CASE e = Expr(Literal)
    <3>1. Expr(Literal).kind = "literal"
      BY DEF Expr, Literal
    <3> QED BY <2>1, <3>1, LiteralOK DEF ExprKinds
  <2>2. ASSUME NEW c \in Columns, e = Expr(Col(c))
        PROVE  ExprOK(e) /\ e.kind \in ExprKinds
    <3>1. Expr(Col(c)).kind = "col"
      BY DEF Expr, Col
    <3>2. c \in Dotted
      BY NamesAssumption
    <3> QED BY <2>2, <3>1, <3>2, ColOK DEF ExprKinds
  <2> QED BY <2>1, <2>2 DEF Leaves
<1>2. ASSUME NEW te \in NamedTables
      PROVE  TableOK(te) /\ te.kind \in TableKinds
  <2>1. PICK t \in Named : te = TableExpr(TableName(t[1], t[2]))
    BY DEF NamedTables
  <2>2. t[1] \in Dotted /\ t[2] \in Plain \union {""}
    BY NamesAssumption
  <2> DEFINE name == t[1]
             as == t[2]
  <2> HIDE DEF name, as
  <2>3. name \in Dotted /\ as \in Plain \union {""} /\ te = TableExpr(TableName(name, as))
    BY <2>1, <2>2 DEF name, as
  <2>4. TableExpr(TableName(name, as)).kind = "table"
    BY DEF TableExpr, TableName
  <2> QED BY <2>3, <2>4, NamedOK DEF TableKinds
<1> QED BY <1>1, <1>2

(* So are the operands of every production. *)
LEMMA OperandsOK ==
    ASSUME NodesOK
    PROVE  /\ \A e \in exprs : ExprOK(e)
           /\ \A e \in lists : ExprOK(e)
           /\ \A e \in lists \union {NoExpr} : ExprOK(e) /\ (absent(e) => e = NoExpr)
           /\ \A e \in predicates : ExprOK(e) /\ (absent(e) => e = NoExpr)
           /\ \A te \in items : TableOK(te) /\ te.kind \in TableKinds
           /\ \A te \in froms : TableOK(te)
           /\ \A q \in queries : QueryOK(q)
           /\ \A w \in withs : WithOK(w)
<1>1. \A e \in of(ExprKinds) : ExprOK(e) /\ e.kind \in ExprKinds
  BY DEF NodesOK, NodeOK, of
<1>2. \A e \in of({"exprs"}) : ExprOK(e) /\ e.kind = "exprs"
  BY DEF NodesOK, NodeOK, of
<1>3. \A te \in of(TableKinds) : TableOK(te) /\ te.kind \in TableKinds
  BY DEF NodesOK, NodeOK, of
<1>4. \A te \in of({"tables"}) : TableOK(te)
  BY DEF NodesOK, NodeOK, of
<1>5. \A q \in queries : QueryOK(q)
  BY DEF NodesOK, NodeOK, of, queries
<1>6. \A w \in of({"with"}) : WithOK(w)
  BY DEF NodesOK, NodeOK, of
<1>7. \A e \in exprs : ExprOK(e) /\ e.kind \in ExprKinds
  BY <1>1, LeavesOK DEF exprs
<1>8. \A e \in lists : ExprOK(e) /\ e.kind \in ExprKinds \union {"exprs"}
  BY <1>2, <1>7 DEF lists
<1>9. \A e \in lists \union {NoExpr} : ExprOK(e) /\ (absent(e) => e = NoExpr)
  BY <1>8, KindsOfNodes, NoExprOK DEF absent
<1>10. \A e \in predicates : ExprOK(e) /\ (absent(e) => e = NoExpr)
  BY <1>1, KindsOfNodes, NoExprOK DEF predicates, absent
<1>11. \A te \in items : TableOK(te) /\ te.kind \in TableKinds
  BY <1>3, LeavesOK DEF items
<1>12. \A te \in froms : TableOK(te)
  BY <1>4, <1>11 DEF froms
<1>13. \A w \in withs : WithOK(w)
  BY <1>6, NoWithOK DEF withs
<1> QED BY <1>5, <1>7, <1>8, <1>9, <1>10, <1>11, <1>12, <1>13

(* A production whose node is in order keeps the invariant. *)
LEMMA BuildKeeps ==
    ASSUME DerivationOK, NEW n, NodeOK(n), NEW operands, Build(n, operands)
    PROVE  DerivationOK'
<1>1. built' \subseteq built \union {n} /\ issued' = issued /\ result' = result
  BY DEF Build
<1>2. NodesOK'
  BY <1>1 DEF DerivationOK, NodesOK
<1>3. \A s \in issued' : StatementOK(s) /\ result' = Analyze(analysed(s))
  BY <1>1 DEF DerivationOK
<1> QED BY <1>2, <1>3 DEF DerivationOK

(* So does issuing a statement that is in order. *)
LEMMA IssueKeeps ==
    ASSUME NEW verb, NEW with, NEW target, NEW query, NEW where,
           Issue(verb, with, target, query, where),
           \A layout : StatementOK(Statement(verb, with, target, query, where, layout))
    PROVE  DerivationOK'
<1>1. PICK layout \in Layouts :
         LET s == Statement(verb, with, target, query, where, layout)
         IN  issued' = {s} /\ result' = Analyze(analysed(s))
  BY DEF Issue
<1>2. built' = {}
  BY DEF Issue
<1>3. NodesOK'
  BY <1>2 DEF NodesOK
<1>4. \A s \in issued' : StatementOK(s) /\ result' = Analyze(analysed(s))
  BY <1>1
<1> QED BY <1>3, <1>4 DEF DerivationOK

(* A node is in order when it is as one of its kind. *)
LEMMA NodeOfKind ==
    ASSUME NEW n,
           \/ n.kind \in ExprKinds \union {"exprs"} /\ ExprOK(n)
           \/ n.kind \in TableKinds \union {"tables"} /\ TableOK(n)
           \/ n.kind = "with" /\ WithOK(n)
           \/ n.kind \in {"select", "union"} /\ QueryOK(n)
    PROVE  NodeOK(n)
  BY DEF NodeOK, ExprKinds, TableKinds

(* The kinds of the nodes that productions make. *)
LEMMA KindOf ==
    /\ \A f, args : Expr(FuncExpr(f, args)).kind = "func"
    /\ \A left, right : Expr(Operator(left, right)).kind = "op"
    /\ \A left, right : Expr(ExprList(left, right)).kind = "exprs"
    /\ \A e : Expr(Opaque(e)).kind = "opaque"
    /\ \A q : Expr(Subquery(q)).kind = "subquery"
    /\ \A q, as : TableExpr(DerivedTable(q, as)).kind = "derived"
    /\ \A words, left, right, on :
          TableExpr(JoinTableExpr(words, left, right, on)).kind = "join"
    /\ \A te : TableExpr(ParenTableExpr(te)).kind = "paren"
    /\ \A left, right : TableExpr(TableList(left, right)).kind = "tables"
    /\ \A with, name, q : With(CTE(with, name, q)).kind = "with"
    /\ \A with, star, exprs0, from, where :
          Query(Select(with, star, exprs0, from, where)).kind = "select"
    /\ \A left, right : Query(Union(left, right)).kind = "union"
<1>1. /\ \A f, args : Expr(FuncExpr(f, args)).kind = "func"
      /\ \A left, right : Expr(Operator(left, right)).kind = "op"
      /\ \A left, right : Expr(ExprList(left, right)).kind = "exprs"
      /\ \A e : Expr(Opaque(e)).kind = "opaque"
      /\ \A q : Expr(Subquery(q)).kind = "subquery"
  BY DEF Expr, FuncExpr, Operator, ExprList, Opaque, Subquery
<1>2. /\ \A q, as : TableExpr(DerivedTable(q, as)).kind = "derived"
      /\ \A words, left, right, on :
            TableExpr(JoinTableExpr(words, left, right, on)).kind = "join"
      /\ \A te : TableExpr(ParenTableExpr(te)).kind = "paren"
      /\ \A left, right : TableExpr(TableList(left, right)).kind = "tables"
  BY DEF TableExpr, DerivedTable, JoinTableExpr, ParenTableExpr, TableList
<1>3. /\ \A with, name, q : With(CTE(with, name, q)).kind = "with"
      /\ \A with, star, exprs0, from, where :
            Query(Select(with, star, exprs0, from, where)).kind = "select"
      /\ \A left, right : Query(Union(left, right)).kind = "union"
  BY DEF With, Query, Select, Union
<1> QED BY <1>1, <1>2, <1>3

(* A production of expressions keeps the invariant. *)
LEMMA ExprStep ==
    ASSUME DerivationOK, NEW e, Expr(e).kind \in ExprKinds \union {"exprs"},
           ExprOK(Expr(e)), NEW operands, Build(Expr(e), operands)
    PROVE  DerivationOK'
<1> DEFINE n == Expr(e)
<1> HIDE DEF n
<1>1. NodeOK(n)
  BY NodeOfKind DEF n
<1> QED BY <1>1, BuildKeeps DEF n

(* So does one of table expressions. *)
LEMMA TableStep ==
    ASSUME DerivationOK, NEW te, TableExpr(te).kind \in TableKinds \union {"tables"},
           TableOK(TableExpr(te)), NEW operands, Build(TableExpr(te), operands)
    PROVE  DerivationOK'
<1> DEFINE n == TableExpr(te)
<1> HIDE DEF n
<1>1. NodeOK(n)
  BY NodeOfKind DEF n
<1> QED BY <1>1, BuildKeeps DEF n

(* One production. *)
LEMMA NextKeeps ==
    ASSUME DerivationOK, Next
    PROVE  DerivationOK'
<1>0. NodesOK
  BY DEF DerivationOK
<1>1. ASSUME NEW f \in Functions, NEW args \in lists \union {NoExpr}, Call(f, args)
      PROVE  DerivationOK'
  <2>1. f \in Plain /\ ExprOK(args)
    BY <1>0, OperandsOK, NamesAssumption
  <2>2. ExprOK(Expr(FuncExpr(f, args))) /\ Expr(FuncExpr(f, args)).kind \in ExprKinds
    BY <2>1, FuncOK, KindOf DEF ExprKinds
  <2>3. Build(Expr(FuncExpr(f, args)), {args})
    BY <1>1 DEF Call, BuildExpr
  <2> QED BY <2>2, <2>3, ExprStep
<1>2. ASSUME NEW left \in exprs, NEW right \in exprs, Operate(left, right)
      PROVE  DerivationOK'
  <2>1. ExprOK(left) /\ ExprOK(right)
    BY <1>0, OperandsOK
  <2>2. ExprOK(Expr(Operator(left, right))) /\ Expr(Operator(left, right)).kind \in ExprKinds
    BY <2>1, PairOK, KindOf DEF ExprKinds
  <2>3. Build(Expr(Operator(left, right)), {left, right})
    BY <1>2 DEF Operate, BuildExpr
  <2> QED BY <2>2, <2>3, ExprStep
<1>3. ASSUME NEW e \in exprs, Hide(e)
      PROVE  DerivationOK'
  <2>1. ExprOK(e)
    BY <1>0, OperandsOK
  <2>2. ExprOK(Expr(Opaque(e))) /\ Expr(Opaque(e)).kind \in ExprKinds
    BY <2>1, OpaqueOK, KindOf DEF ExprKinds
  <2>3. Build(Expr(Opaque(e)), {e})
    BY <1>3 DEF Hide, BuildExpr
  <2> QED BY <2>2, <2>3, ExprStep
<1>4. ASSUME NEW left \in lists, NEW e \in exprs, ListExprs(left, e)
      PROVE  DerivationOK'
  <2>1. ExprOK(left) /\ ExprOK(e)
    BY <1>0, OperandsOK
  <2>2. ExprOK(Expr(ExprList(left, e))) /\ Expr(ExprList(left, e)).kind = "exprs"
    BY <2>1, PairOK, KindOf
  <2>3. Build(Expr(ExprList(left, e)), {left, e})
    BY <1>4 DEF ListExprs, BuildExpr
  <2> QED BY <2>2, <2>3, ExprStep
<1>5. ASSUME NEW left \in items, NEW right \in items, NEW on \in predicates,
             Join(left, right, on)
      PROVE  DerivationOK'
  <2>1. /\ TableOK(left) /\ left.kind \in TableKinds
        /\ TableOK(right) /\ right.kind \in TableKinds
        /\ ExprOK(on) /\ (absent(on) => on = NoExpr)
    BY <1>0, OperandsOK
  <2>2. PICK words \in JoinWords(on) :
           Build(TableExpr(JoinTableExpr(words, left, right, on)), {left, right, on})
    BY <1>5 DEF Join
  <2> DEFINE te == JoinTableExpr(words, left, right, on)
  <2>3. TableOK(TableExpr(te))
    BY <2>1, JoinOK
  <2>4. TableExpr(te).kind \in TableKinds
    BY KindOf DEF TableKinds
  <2> HIDE DEF te
  <2> QED BY <2>2, <2>3, <2>4, TableStep DEF te
<1>6. ASSUME NEW te \in items, Parenthesise(te)
      PROVE  DerivationOK'
  <2>1. TableOK(te) /\ te.kind \in TableKinds
    BY <1>0, OperandsOK
  <2>2. TableOK(TableExpr(ParenTableExpr(te)))
    BY <2>1, ParenOK
  <2>3. TableExpr(ParenTableExpr(te)).kind \in TableKinds
    BY KindOf DEF TableKinds
  <2>4. Build(TableExpr(ParenTableExpr(te)), {te})
    BY <1>6 DEF Parenthesise
  <2> QED BY <2>2, <2>3, <2>4, TableStep
<1>7. ASSUME NEW left \in froms, NEW te \in items, Comma(left, te)
      PROVE  DerivationOK'
  <2>1. TableOK(left) /\ TableOK(te)
    BY <1>0, OperandsOK
  <2>2. TableOK(TableExpr(TableList(left, te)))
    BY <2>1, ListOK
  <2>3. TableExpr(TableList(left, te)).kind = "tables"
    BY KindOf
  <2>4. Build(TableExpr(TableList(left, te)), {left, te})
    BY <1>7 DEF Comma
  <2> QED BY <2>2, <2>3, <2>4, TableStep
<1>8. ASSUME NEW with \in withs, NEW star \in BOOLEAN, NEW projection \in lists \union {NoExpr},
             NEW from \in froms, NEW where \in predicates,
             MakeSelect(with, star, projection, from, where)
      PROVE  DerivationOK'
  <2> DEFINE n == Query(Select(with, star, projection, from, where))
  <2>1. /\ WithOK(with) /\ ExprOK(projection) /\ (absent(projection) => projection = NoExpr)
        /\ TableOK(from) /\ ExprOK(where) /\ (absent(where) => where = NoExpr)
    BY <1>0, OperandsOK
  <2>2. QueryOK(n)
    BY <2>1, SelectOK
  <2>3. n.kind = "select"
    BY KindOf
  <2>4. Build(n, {with, projection, from, where})
    BY <1>8 DEF MakeSelect
  <2> HIDE DEF n
  <2>5. NodeOK(n)
    BY <2>2, <2>3, NodeOfKind
  <2> QED BY <2>4, <2>5, BuildKeeps
<1>9. ASSUME NEW q \in queries, Nest(q)
      PROVE  DerivationOK'
  <2>1. QueryOK(q)
    BY <1>0, OperandsOK
  <2>2. ExprOK(Expr(Subquery(q)))
    BY <2>1, SubqueryOK DEF QueryOK
  <2>3. Expr(Subquery(q)).kind \in ExprKinds
    BY KindOf DEF ExprKinds
  <2>4. Build(Expr(Subquery(q)), {q})
    BY <1>9 DEF Nest
  <2> QED BY <2>2, <2>3, <2>4, ExprStep
<1>10. ASSUME NEW q \in queries, NEW as \in Aliases, Derive(q, as)
       PROVE  DerivationOK'
  <2>1. QueryOK(q) /\ as \in Plain \union {""}
    BY <1>0, OperandsOK, NamesAssumption
  <2>2. TableOK(TableExpr(DerivedTable(q, as)))
    BY <2>1, DerivedOK DEF QueryOK
  <2>3. TableExpr(DerivedTable(q, as)).kind \in TableKinds
    BY KindOf DEF TableKinds
  <2>4. Build(TableExpr(DerivedTable(q, as)), {q})
    BY <1>10 DEF Derive
  <2> QED BY <2>2, <2>3, <2>4, TableStep
<1>11. ASSUME NEW q \in queries, NEW with \in withs, NEW name \in CTENames,
              DefineCTE(with, name, q)
       PROVE  DerivationOK'
  <2> DEFINE n == With(CTE(with, name, q))
  <2>1. QueryOK(q) /\ WithOK(with) /\ name \in Plain
    BY <1>0, OperandsOK, NamesAssumption
  <2>2. WithOK(n)
    BY <2>1, CTEOK DEF QueryOK
  <2>3. n.kind = "with"
    BY KindOf
  <2>4. Build(n, {with, q})
    BY <1>11 DEF DefineCTE
  <2> HIDE DEF n
  <2>5. NodeOK(n)
    BY <2>2, <2>3, NodeOfKind
  <2> QED BY <2>4, <2>5, BuildKeeps
<1>12. ASSUME NEW q \in queries, NEW right \in queries, Unite(q, right)
       PROVE  DerivationOK'
  <2> DEFINE n == Query(Union(q, right))
  <2>1. QueryOK(q) /\ QueryOK(right)
    BY <1>0, OperandsOK
  <2>2. QueryOK(n)
    BY <2>1, UnionOK
  <2>3. n.kind = "union"
    BY KindOf
  <2>4. Build(n, {q, right})
    BY <1>12 DEF Unite
  <2> HIDE DEF n
  <2>5. NodeOK(n)
    BY <2>2, <2>3, NodeOfKind
  <2> QED BY <2>4, <2>5, BuildKeeps
<1>13. ASSUME NEW q \in queries, IssueQuery(q)
       PROVE  DerivationOK'
  <2>1. QueryOK(q)
    BY <1>0, OperandsOK
  <2>2. \A layout : StatementOK(Statement("SELECT", NoWith, <<>>, q, NoExpr, layout))
    BY <2>1, QueryStatementOK
  <2> QED BY <1>13, <2>2, IssueKeeps DEF IssueQuery
<1>14. ASSUME NEW q \in queries, NEW t \in Targets, Insert(t, q) \/ CreateAs(t, q)
       PROVE  DerivationOK'
  <2>1. QueryOK(q) /\ t \in Dotted
    BY <1>0, OperandsOK, NamesAssumption
  <2>2. ASSUME NEW verb \in {"INSERT", "CREATE"}, Issue(verb, NoWith, t, q, NoExpr)
        PROVE  DerivationOK'
    <3>1. verb \in Changes /\ verb \notin {"DELETE", "UPDATE"} /\ verb # "DROP"
      BY DEF Changes
    <3>2. /\ Carries(q.text, q.uses) /\ NamesOK(q.uses) /\ ResultOK(q.walk, q.uses)
      BY <2>1 DEF QueryOK
    <3>3. \A layout : StatementOK(Statement(verb, NoWith, t, q, NoExpr, layout))
      BY <2>1, <3>1, <3>2, NoExprOK, NoWithOK, ChangeOK
    <3> QED BY <2>2, <3>3, IssueKeeps
  <2> QED BY <1>14, <2>2 DEF Insert, CreateAs
<1>15. ASSUME NEW t \in Targets, NEW with \in withs, NEW where \in predicates,
              NEW verb \in {"DELETE", "UPDATE"}, Issue(verb, with, t, NoQuery, where)
       PROVE  DerivationOK'
  <2>1. /\ WithOK(with) /\ ExprOK(where) /\ (absent(where) => where = NoExpr) /\ t \in Dotted
    BY <1>0, OperandsOK, NamesAssumption
  <2>2. verb \in Changes /\ verb \notin {"INSERT", "CREATE", "DROP"}
    BY DEF Changes
  <2>3. Carries(NoQuery.text, NoQuery.uses) /\ NamesOK(NoQuery.uses)
    BY NoParts
  <2>4. \A layout : StatementOK(Statement(verb, with, t, NoQuery, where, layout))
    BY <2>1, <2>2, <2>3, ChangeOK
  <2> QED BY <1>15, <2>4, IssueKeeps
<1>16. ASSUME NEW t \in Targets, Drop(t)
       PROVE  DerivationOK'
  <2>1. t \in Dotted /\ "DROP" \in Changes
    BY NamesAssumption DEF Changes
  <2>2. Carries(NoQuery.text, NoQuery.uses) /\ NamesOK(NoQuery.uses)
    BY NoParts
  <2>3. \A layout : StatementOK(Statement("DROP", NoWith, t, NoQuery, NoExpr, layout))
    BY <2>1, <2>2, NoExprOK, NoWithOK, ChangeOK
  <2> QED BY <1>16, <2>3, IssueKeeps DEF Drop
<1>17. ASSUME NEW t \in Targets,
              \/ \E with \in withs, where \in predicates : Delete(with, t, where)
              \/ \E where \in predicates : Update(t, where)
       PROVE  DerivationOK'
  <2>1. NoWith \in withs
    BY DEF withs
  <2> QED BY <1>15, <1>17, <2>1 DEF Delete, Update
<1>18. ASSUME NEW q \in queries,
              \/ Nest(q)
              \/ \E as \in Aliases : Derive(q, as)
              \/ \E with \in withs, name \in CTENames : DefineCTE(with, name, q)
              \/ \E right \in queries : Unite(q, right)
              \/ IssueQuery(q)
              \/ \E t \in Targets : Insert(t, q) \/ CreateAs(t, q)
       PROVE  DerivationOK'
  BY <1>9, <1>10, <1>11, <1>12, <1>13, <1>14, <1>18
<1> QED
  BY <1>1, <1>2, <1>3, <1>4, <1>5, <1>6, <1>7, <1>8, <1>16, <1>17, <1>18 DEF Next

(* Whatever a client sends, the scanner sees the words of the statement in *)
(* their places, and the walk collects exactly what there is to see.       *)
THEOREM DerivationInvariant == Spec => []DerivationOK
<1>1. Init => DerivationOK
  BY DEF Init, DerivationOK, NodesOK
<1>2. DerivationOK /\ [Next]_vars => DerivationOK'
  <2>1. CASE Next
    BY <2>1, NextKeeps
  <2>2. ASSUME DerivationOK, UNCHANGED vars
        PROVE  DerivationOK'
    BY <2>2 DEF vars, DerivationOK, NodesOK
  <2> QED BY <2>1, <2>2
<1> QED BY <1>1, <1>2, PTL DEF Spec

-----------------------------------------------------------------------------
(* What Tier 1 is given of a statement.                                    *)

(* The class of a statement is its verb, or OTHER when the verb is glued   *)
(* to what follows.                                                        *)
LEMMA ClassOfIssued ==
    ASSUME NEW s, StatementOK(s), NoVerbNames(s)
    PROVE  Classify(Text(s)) = IF s.glued THEN "OTHER" ELSE s.verb
<1>1. NoVerbs(usesOf(s))
  BY DEF NoVerbNames, usesFor, NoVerbs
<1>2. s.verb \in Verbs \intersect Words /\ s.verb # "DESC"
  BY DEF StatementOK, Changes, Verbs, StatementClass, Words
<1>3. PICK w, r : HeadedBy(lexemes(s), s.verb, usesOf(s), w, r)
  BY DEF StatementOK, Headed
<1>4. /\ Fit(w) /\ r \in Seq(Lexeme) /\ lexemes(s) = (w \o Word(s.verb)) \o r
      /\ w # <<>> => w[1] = <<"WITH">> /\ OuterFree(w)
  BY <1>1, <1>3 DEF HeadedBy
<1>5. Fit(lexemes(s)) /\ Len(lexemes(s)) >= 2
  BY DEF StatementOK, Carries
<1> DEFINE v == s.verb
<1> HIDE DEF v
<1>6. v \in Verbs \intersect Words /\ v # "DESC" /\ lexemes(s) = (w \o Word(v)) \o r
  BY <1>2, <1>4 DEF v
<1>7. Classify(Text(s)) = IF s.glued THEN "OTHER" ELSE v
  BY <1>4, <1>5, <1>6, ClassOf
<1> QED BY <1>7 DEF v

(* The scan finds the tables in leading positions. *)
LEMMA LeadingScanned ==
    ASSUME NEW s, StatementOK(s)
    PROVE  /\ leading(s) \subseteq extractTableNamesRaw(tokenizeRaw(Text(s)))
           /\ \A t \in leading(s) : Len(t) >= 2 /\ t \in Lexeme
<1>1. Fit(lexemes(s)) /\ leading(s) \subseteq leadingNames(lexemes(s))
  BY DEF StatementOK, Carries, leading
<1>2. lexemes(s) \in Seq(Lexeme) /\ Len(lexemes(s)) >= 2
  BY <1>1 DEF Fit, StatementOK
<1>3. lexemes(s) # <<>>
  BY <1>2, NonEmpty
<1>4. tokenizeRaw(Text(s)) = lexemes(s)
  BY <1>1, <1>3, TokensAreLexemes
<1>5. lexemes(s) \in Seq(Seq(Ident))
  <2>1. Lexeme \subseteq Seq(Ident)
    BY DEF Lexeme
  <2> QED BY <1>2, <2>1
<1>6. leadingNames(lexemes(s)) \subseteq extractTableNamesRaw(lexemes(s))
  BY <1>5, LeadingNamesScanned
<1>7. ASSUME NEW t \in leading(s)
      PROVE  Len(t) >= 2 /\ t \in Lexeme
  <2>1. NamesOK(usesOf(s))
    BY DEF StatementOK
  <2>2. PICK u \in usesOf(s) : t = u.name /\ Len(u.name) >= 2
    BY DEF leading, leadingIn
  <2> QED BY <2>1, <2>2 DEF NamesOK
<1> QED BY <1>1, <1>4, <1>6, <1>7

(* The result, for a statement that is not bypassed. *)
LEMMA ResultOfIssued ==
    ASSUME DerivationOK, NEW s \in issued, NoVerbNames(s)
    PROVE  /\ result.class = IF s.glued THEN "OTHER" ELSE s.verb
           /\ leading(s) \subseteq result.tables
           /\ \A t \in leading(s) : Len(t) >= 2 /\ t \in Lexeme
           /\ result.refs = IF parses(s) THEN refsIn(usesOf(s), "filter") ELSE {}
           /\ parses(s) => /\ result.functions = calls(usesOf(s))
                           /\ result.selectAll <=> hasStar(usesOf(s))
           /\ AliasOK(result.aliases, usesOf(s))
           /\ NamesOK(usesOf(s))
<1> DEFINE a == analysed(s)
           scanned == extractTableNamesRaw(tokenizeRaw(Text(s)))
<1>n. \A n \in Nat : n >= 2 => n # 1
  OBVIOUS
<1>1. StatementOK(s) /\ result = Analyze(a)
  BY DEF DerivationOK
<1>2. /\ a.class = Classify(Text(s)) /\ a.parses = parses(s) /\ a.scanned = scanned
      /\ a.ctes = aliasesOf(s) /\ a.refs = walked(s).refs /\ a.aliases = walked(s).aliases
      /\ a.functions = walked(s).functions /\ a.selectAll = walked(s).selectAll
  BY DEF analysed
<1>3. leading(s) \subseteq scanned /\ \A t \in leading(s) : Len(t) >= 2 /\ t \in Lexeme
  BY <1>1, LeadingScanned
<1>4. a.class = IF s.glued THEN "OTHER" ELSE s.verb
  BY <1>1, <1>2, ClassOfIssued
<1> HIDE DEF a, scanned
<1>5. ~IsBypass(a.class)
  BY <1>1, <1>4 DEF IsBypass, StatementOK, Changes
<1>6. ResultOK(walked(s), usesOf(s)) /\ NamesOK(usesOf(s))
  BY <1>1 DEF StatementOK
<1>7. CASE parses(s)
  <2> DEFINE c == [class |-> a.class, tables |-> withoutAliases(a.scanned, a.ctes),
                   refs |-> a.refs, aliases |-> a.aliases,
                   functions |-> a.functions, selectAll |-> a.selectAll]
  <2>1. result = c
    BY <1>1, <1>2, <1>5, <1>7 DEF Analyze
  <2>2. /\ c.class = a.class /\ c.tables = withoutAliases(a.scanned, a.ctes)
        /\ c.refs = a.refs /\ c.aliases = a.aliases /\ c.functions = a.functions
        /\ c.selectAll = a.selectAll
    OBVIOUS
  <2> HIDE DEF c
  <2>3. leading(s) \subseteq result.tables
    <3>1. ASSUME NEW t \in leading(s), NEW x
          PROVE  ~EqualFoldName(t, <<x>>)
      <4>1. Len(<<x>>) = 1
        OBVIOUS
      <4>2. Len(t) >= 2
        BY <1>3
      <4>3. Len(t) \in Nat
        <5>1. t \in Lexeme
          BY <1>3
        <5> QED BY <5>1 DEF Lexeme
      <4>4. Len(t) # 1
        BY <1>n, <4>2, <4>3
      <4> QED BY <4>1, <4>4 DEF EqualFoldName
    <3> QED BY <1>2, <1>3, <2>1, <2>2, <3>1 DEF withoutAliases
  <2> QED BY <1>2, <1>3, <1>4, <1>6, <1>7, <2>1, <2>2, <2>3 DEF ResultOK
<1>8. CASE ~parses(s)
  <2> DEFINE c == [class |-> a.class, tables |-> a.scanned,
                   refs |-> {}, aliases |-> <<>>, functions |-> {}, selectAll |-> FALSE]
  <2>1. result = c
    BY <1>1, <1>2, <1>5, <1>8 DEF Analyze
  <2>2. c.class = a.class /\ c.tables = a.scanned /\ c.refs = {} /\ c.aliases = <<>>
    OBVIOUS
  <2> HIDE DEF c
  <2>3. AliasOK(result.aliases, usesOf(s))
    BY <2>1, <2>2, NoAliases
  <2> QED BY <1>2, <1>3, <1>4, <1>6, <1>8, <2>1, <2>2, <2>3
<1> QED BY <1>7, <1>8

-----------------------------------------------------------------------------
(* The class is that of the outermost verb: neither a leading comment, a   *)
(* WITH clause, nor the statements nested in it are taken for it, for      *)
(* every statement of the grammar and over any names.                      *)
THEOREM ClassFound == Spec => []ClassIsOutermost
<1>1. DerivationOK => ClassIsOutermost
  <2> SUFFICES ASSUME DerivationOK
               PROVE  \A s \in issued : NoVerbNames(s) /\ ~s.glued => result.class = s.verb
    BY DEF ClassIsOutermost
  <2> QED BY ResultOfIssued
<1> QED BY <1>1, DerivationInvariant, PTL

(* Whatever the passes of the walk enter and however their results are     *)
(* merged: the calls, the column references of the predicates and the      *)
(* stars outside the constructs that it does not enter are collected, and  *)
(* nothing is collected that is not in the statement.                      *)
THEOREM WalkMissesNothingVisible == Spec => []WalkSound
<1>1. DerivationOK => WalkSound
  <2> SUFFICES ASSUME DerivationOK, NEW s \in issued, NoVerbNames(s), parses(s)
               PROVE  /\ Between(calls(usesOf(s)), result.functions, callsIn(usesOf(s)))
                      /\ Between(refsIn(usesOf(s), "filter"), result.refs,
                                 refsOf(usesOf(s), "filter"))
                      /\ hasStar(usesOf(s)) => result.selectAll
                      /\ result.selectAll => usesFor(s, "star") # {}
    BY DEF WalkSound
  <2>1. /\ result.functions = calls(usesOf(s))
        /\ result.refs = refsIn(usesOf(s), "filter")
        /\ result.selectAll <=> hasStar(usesOf(s))
    BY ResultOfIssued
  <2>2. \A c : outside(usesOf(s), c) \subseteq usesOf(s)
    BY DEF outside
  <2>3. calls(usesOf(s)) \subseteq callsIn(usesOf(s))
    BY <2>2 DEF calls, callsIn
  <2>4. refsIn(usesOf(s), "filter") \subseteq refsOf(usesOf(s), "filter")
    BY <2>2 DEF refsIn, refsOf, refsOf
  <2>5. hasStar(usesOf(s)) => usesFor(s, "star") # {}
    BY <2>2 DEF hasStar, usesFor
  <2> QED BY <2>1, <2>3, <2>4, <2>5 DEF Between
<1> QED BY <1>1, DerivationInvariant, PTL

-----------------------------------------------------------------------------
(* Tier 1, under policies of one rule.                                     *)

(* What is in a policy of one rule. *)
LEMMA OneRule ==
    ASSUME NEW x
    PROVE  /\ LET p == [NoRules EXCEPT !.tableBlocklist = x]
              IN  p.statementBlocklist = {} /\ p.tableBlocklist = x
           /\ LET p == [NoRules EXCEPT !.functionBlocklist = x]
              IN  p.statementBlocklist = {} /\ p.tableBlocklist = {} /\ p.functionBlocklist = x
           /\ LET p == [NoRules EXCEPT !.selectStarBlockedTables = x]
              IN  /\ p.statementBlocklist = {} /\ p.tableBlocklist = {}
                  /\ p.functionBlocklist = {} /\ p.selectStarBlockedTables = x
           /\ LET p == [NoRules EXCEPT !.requiredFilters = x]
              IN  /\ p.statementBlocklist = {} /\ p.tableBlocklist = {}
                  /\ p.functionBlocklist = {} /\ p.selectStarBlockedTables = {}
                  /\ p.requiredFilters = x
<1>1. LET p == [NoRules EXCEPT !.tableBlocklist = x]
      IN  p.statementBlocklist = {} /\ p.tableBlocklist = x
  BY DEF NoRules
<1>2. LET p == [NoRules EXCEPT !.functionBlocklist = x]
      IN  p.statementBlocklist = {} /\ p.tableBlocklist = {} /\ p.functionBlocklist = x
  BY DEF NoRules
<1>3. LET p == [NoRules EXCEPT !.selectStarBlockedTables = x]
      IN  /\ p.statementBlocklist = {} /\ p.tableBlocklist = {}
          /\ p.functionBlocklist = {} /\ p.selectStarBlockedTables = x
  BY DEF NoRules
<1>4. LET p == [NoRules EXCEPT !.requiredFilters = x]
      IN  /\ p.statementBlocklist = {} /\ p.tableBlocklist = {}
          /\ p.functionBlocklist = {} /\ p.selectStarBlockedTables = {}
          /\ p.requiredFilters = x
  BY DEF NoRules
<1> QED BY <1>1, <1>2, <1>3, <1>4

(* A blocked table in a leading position is rejected, however deep it is   *)
(* nested and whether or not vitess parses the statement.                  *)
THEOREM LeadingTableRejected == Spec => []BlockedTableRejected
<1>1. DerivationOK => BlockedTableRejected
  <2> SUFFICES ASSUME DerivationOK, NEW s \in issued, NEW entry \in Entries, NoVerbNames(s),
                      NEW t \in leading(s), tableBlocklisted(t, entry)
               PROVE  verdict([NoRules EXCEPT !.tableBlocklist = {entry}]) = "TABLE_BLOCKLIST"
    BY DEF BlockedTableRejected
  <2> DEFINE p == [NoRules EXCEPT !.tableBlocklist = {entry}]
  <2>1. p.statementBlocklist = {} /\ p.tableBlocklist = {entry}
    BY OneRule
  <2>2. t \in result.tables
    BY ResultOfIssued
  <2> HIDE DEF p
  <2>3. ~statementBlocked(p, result) /\ tableBlocked(p, result)
    BY <2>1, <2>2 DEF statementBlocked, tableBlocked
  <2>4. tier1(p, result) = "TABLE_BLOCKLIST"
    BY <2>3 DEF tier1
  <2> QED BY <2>4 DEF verdict, p
<1> QED BY <1>1, DerivationInvariant, PTL

(* Under a policy that only requires a filter, the verdict is about it. *)
LEMMA OnlyFilter ==
    ASSUME NEW rf
    PROVE  verdict(Requiring(rf)) =
              IF \E t \in result.tables : /\ requiredFilterMatches(t, rf)
                                          /\ missingRequiredColumns(result, t, rf) # {}
              THEN "REQUIRED_FILTER_MISSING" ELSE "ALLOW"
<1> DEFINE p == Requiring(rf)
<1>1. /\ p.statementBlocklist = {} /\ p.tableBlocklist = {}
      /\ p.functionBlocklist = {} /\ p.selectStarBlockedTables = {}
      /\ p.requiredFilters = {rf}
  BY OneRule DEF Requiring
<1> HIDE DEF p
<1>2. /\ ~statementBlocked(p, result) /\ ~tableBlocked(p, result)
      /\ ~functionBlocked(p, result) /\ ~selectStarBlocked(p, result)
  BY <1>1 DEF statementBlocked, tableBlocked, functionBlocked, selectStarBlocked
<1>3. requiredFilterMissing(p, result) <=>
         \E t \in result.tables : /\ requiredFilterMatches(t, rf)
                                  /\ missingRequiredColumns(result, t, rf) # {}
  BY <1>1 DEF requiredFilterMissing
<1>4. tier1(p, result) = IF requiredFilterMissing(p, result)
                         THEN "REQUIRED_FILTER_MISSING" ELSE "ALLOW"
  BY <1>2 DEF tier1
<1> QED BY <1>3, <1>4 DEF verdict, p

(* A reference of the result is one of the predicates of the statement. *)
LEMMA RefIsMention ==
    ASSUME DerivationOK, NEW s \in issued, NoVerbNames(s), NEW c,
           NEW ref \in result.refs, EqualFold(ref.column, c)
    PROVE  \E u \in mentions(s, c) : ref = WhereRef(u.name) /\ u.name \in Lexeme
<1>1. ref \in refsIn(usesOf(s), "filter") /\ NamesOK(usesOf(s))
  BY ResultOfIssued
<1>2. PICK u \in usesOf(s) : u.what = "filter" /\ ref = WhereRef(u.name)
  BY <1>1 DEF refsIn, refsOf, outside
<1>3. ref.column = lastComponent(u.name)
  BY <1>2 DEF WhereRef
<1>4. u \in mentions(s, c)
  BY <1>2, <1>3 DEF mentions, usesFor
<1> QED BY <1>1, <1>2, <1>4 DEF NamesOK

(* A guarded table passes only when the predicates of the statement name   *)
(* the columns its filter requires.                                        *)
THEOREM RequiredFilterEnforced == Spec => []FilterEnforced
<1>1. DerivationOK => FilterEnforced
  <2> SUFFICES ASSUME DerivationOK, NEW s \in issued, NEW rf \in Filters, NoVerbNames(s),
                      guarded(s, rf),
                      IF rf.mode = "any-of"
                      THEN rf.columns # {} /\ \A c \in rf.columns : mentions(s, c) = {}
                      ELSE \E c \in rf.columns : mentions(s, c) = {}
               PROVE  verdict(Requiring(rf)) = "REQUIRED_FILTER_MISSING"
    BY DEF FilterEnforced
  <2>1. PICK t \in leading(s) : requiredFilterMatches(t, rf)
    BY DEF guarded
  <2>2. t \in result.tables
    BY ResultOfIssued
  <2>3. ASSUME NEW c \in rf.columns, mentions(s, c) = {}
        PROVE  ~tableHasFilter(result, t, c)
    BY <2>3, RefIsMention DEF tableHasFilter
  <2> DEFINE missing == {c \in rf.columns : ~tableHasFilter(result, t, c)}
  <2>4. missing # {} /\ (rf.mode = "any-of" => missing = rf.columns)
    BY <2>3
  <2>5. missingRequiredColumns(result, t, rf) =
           IF requiredFilterMode(rf) = "any-of" /\ missing # rf.columns THEN {} ELSE missing
    BY DEF missingRequiredColumns
  <2> HIDE DEF missing
  <2>6. missingRequiredColumns(result, t, rf) # {}
    BY <2>4, <2>5 DEF requiredFilterMode
  <2> QED BY <2>1, <2>2, <2>6, OnlyFilter
<1> QED BY <1>1, DerivationInvariant, PTL

(* A predicate on another table does not satisfy a required filter, as     *)
(* long as the bare names of the tables differ.                            *)
THEOREM RequiredFilterAttributed == Spec => []FilterAttributed
<1>n. \A n \in Nat : n >= 2 => n # 1 /\ n - 1 \in 1 .. n
  OBVIOUS
<1>1. DerivationOK => FilterAttributed
  <2> SUFFICES ASSUME DerivationOK, NEW s \in issued, NEW rf \in Filters, NEW c \in rf.columns,
                      NoVerbNames(s), guarded(s, rf), rf.mode # "any-of",
                      \A v \in usesFor(s, "table") :
                         EqualFold(lastComponent(v.name), rf.table)
                         => requiredFilterMatches(v.name, rf),
                      \A u \in mentions(s, c) : Len(u.name) >= 2,
                      verdict(Requiring(rf)) = "ALLOW"
               PROVE  \E u \in mentions(s, c) :
                         LET qualifier == u.name[Len(u.name) - 1]
                         IN  \/ EqualFold(qualifier, rf.table)
                             \/ \E v \in usesFor(s, "table") :
                                   v.as = qualifier /\ requiredFilterMatches(v.name, rf)
    BY DEF FilterAttributed
  <2>1. PICK t \in leading(s) : requiredFilterMatches(t, rf)
    BY DEF guarded
  <2>2. t \in result.tables /\ AliasOK(result.aliases, usesOf(s))
    BY ResultOfIssued
  <2>3. missingRequiredColumns(result, t, rf) = {}
    BY <2>1, <2>2, OnlyFilter
  <2>4. tableHasFilter(result, t, c)
    BY <2>3 DEF missingRequiredColumns, requiredFilterMode
  <2>5. PICK ref \in result.refs :
           /\ EqualFold(ref.column, c)
           /\ ref.table = "" \/ EqualFold(resolved(result, ref.table), lastComponent(t))
    BY <2>4 DEF tableHasFilter
  <2>6. PICK u \in mentions(s, c) : ref = WhereRef(u.name) /\ u.name \in Lexeme
    BY <2>5, RefIsMention
  <2> DEFINE q == u.name[Len(u.name) - 1]
  <2>7. ref.table = q /\ q \in Ident
    <3>1. u.name \in Seq(Ident) /\ Len(u.name) >= 2
      BY <2>6 DEF Lexeme
    <3>2. PICK i : i = Len(u.name) - 1
      OBVIOUS
    <3>n. Len(u.name) \in Nat
      BY <3>1
    <3>3. Len(u.name) # 1 /\ i \in 1 .. Len(u.name)
      BY <1>n, <3>1, <3>n, <3>2
    <3>4. u.name[i] \in Ident
      BY <3>1, <3>3
    <3> QED BY <2>6, <3>2, <3>3, <3>4 DEF WhereRef
  <2> HIDE DEF q
  <2>8. EqualFold(resolved(result, q), lastComponent(t))
    BY <2>5, <2>7, NamesAssumption
  <2>9. EqualFold(lastComponent(t), rf.table)
    BY <2>1 DEF requiredFilterMatches, lastComponent
  <2>10. EqualFold(resolved(result, q), rf.table)
    BY <2>8, <2>9 DEF EqualFold
  <2>11. CASE q \notin DOMAIN result.aliases
    <3>1. EqualFold(q, rf.table)
      BY <2>10, <2>11 DEF resolved
    <3> QED BY <2>6, <3>1 DEF q
  <2>12. CASE q \in DOMAIN result.aliases
    <3>1. PICK v \in usesOf(s) : /\ v.what = "table" /\ v.as = q
                                 /\ result.aliases[q] = lastComponent(v.name)
      BY <2>2, <2>12 DEF AliasOK
    <3>2. v \in usesFor(s, "table") /\ EqualFold(lastComponent(v.name), rf.table)
      BY <2>10, <2>12, <3>1 DEF usesFor, resolved
    <3>3. v.as = q /\ requiredFilterMatches(v.name, rf)
      BY <3>1, <3>2
    <3> QED BY <2>6, <3>2, <3>3 DEF q
  <2> QED BY <2>11, <2>12
<1> QED BY <1>1, DerivationInvariant, PTL

(* A blocked function or star is found wherever the walk goes, in every    *)
(* statement whose syntax vitess shares, with names of three components    *)
(* too.                                                                    *)
THEOREM VisibleUseFound == Spec => []VisibleUseRejected
<1>1. DerivationOK => VisibleUseRejected
  <2> SUFFICES ASSUME DerivationOK
               PROVE  VisibleUseRejected
    OBVIOUS
  <2>1. ASSUME NEW s \in issued, NoVerbNames(s), s.mysql,
               \A u \in usesOf(s) : Len(u.name) <= 3
        PROVE  parses(s)
    <3>1. NamesOK(usesOf(s))
      BY <2>1, ResultOfIssued
    <3>2. ASSUME NEW u \in usesOf(s)
          PROVE  /\ Len(normalizeForVitess(u.name)) <= 2
                 /\ Len(normalizeForVitess(u.name)) <= 3
      <4>1. u.name \in Lexeme /\ Len(u.name) <= 3
        BY <2>1, <3>1 DEF NamesOK
      <4>2. Len(normalizeForVitess(u.name)) <= 2
        BY <4>1, SameLast
      <4>3. Len(normalizeForVitess(u.name)) \in Nat
        BY <4>1 DEF normalizeForVitess, Lexeme
      <4> QED BY <4>2, <4>3
    <3> QED BY <2>1, <3>2 DEF parses
  <2>2. ASSUME NEW s \in issued, NoVerbNames(s), parses(s), NEW f \in Functions,
               Lower[f] \in calls(usesOf(s))
        PROVE  verdict([NoRules EXCEPT !.functionBlocklist = {f}]) = "FUNCTION_BLOCKLIST"
    <3> DEFINE p == [NoRules EXCEPT !.functionBlocklist = {f}]
    <3>1. p.statementBlocklist = {} /\ p.tableBlocklist = {} /\ p.functionBlocklist = {f}
      BY OneRule
    <3>2. Lower[f] \in result.functions
      BY <2>2, ResultOfIssued
    <3>3. EqualFold(Lower[f], f)
      <4>1. f \in Ident
        BY NamesAssumption DEF Plain
      <4> QED BY <4>1, LowerAssumption DEF EqualFold
    <3> HIDE DEF p
    <3>4. /\ ~statementBlocked(p, result) /\ ~tableBlocked(p, result)
          /\ functionBlocked(p, result)
      BY <3>1, <3>2, <3>3 DEF statementBlocked, tableBlocked, functionBlocked
    <3>5. tier1(p, result) = "FUNCTION_BLOCKLIST"
      BY <3>4 DEF tier1
    <3> QED BY <3>5 DEF verdict, p
  <2>3. ASSUME NEW s \in issued, NoVerbNames(s), parses(s), NEW entry \in Entries,
               hasStar(usesOf(s)), NEW t \in leading(s), tableBlocklisted(t, entry)
        PROVE  verdict([NoRules EXCEPT !.selectStarBlockedTables = {entry}])
                  = "SELECT_STAR_BLOCKED"
    <3> DEFINE p == [NoRules EXCEPT !.selectStarBlockedTables = {entry}]
    <3>1. /\ p.statementBlocklist = {} /\ p.tableBlocklist = {} /\ p.functionBlocklist = {}
          /\ p.selectStarBlockedTables = {entry}
      BY OneRule
    <3>2. t \in result.tables /\ result.selectAll
      BY <2>3, ResultOfIssued
    <3> HIDE DEF p
    <3>3. /\ ~statementBlocked(p, result) /\ ~tableBlocked(p, result)
          /\ ~functionBlocked(p, result) /\ selectStarBlocked(p, result)
      BY <2>3, <3>1, <3>2
         DEF statementBlocked, tableBlocked, functionBlocked, selectStarBlocked
    <3>4. tier1(p, result) = "SELECT_STAR_BLOCKED"
      BY <3>3 DEF tier1
    <3> QED BY <3>4 DEF verdict, p
  <2> QED BY <2>1, <2>2, <2>3 DEF VisibleUseRejected
<1> QED BY <1>1, DerivationInvariant, PTL
==============================================================================
