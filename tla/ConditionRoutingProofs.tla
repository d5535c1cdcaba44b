------------------------ MODULE ConditionRoutingProofs ------------------------
(***************************************************************************)
(* For any condition node, rules, edges and contexts: the rule that wins   *)
(* is the best of those that match, texts are as similar as the edits      *)
(* between them are few, and with a default that exists no condition node  *)
(* fails an execution.                                                     *)
(*                                                                         *)
(* The sort, the path into the context and the edit distance are computed  *)
(* recursively.  A set of numbers that is not empty has a least element,   *)
(* which gives induction (Induction) and that such functions exist         *)
(* (Recursion).                                                            *)
(***************************************************************************)
EXTENDS ConditionRouting, SequenceTheorems, FiniteSetTheorems, WellFoundedInduction, TLAPS

-----------------------------------------------------------------------------
(* Induction *)

\* A set of numbers has a least one
LEMMA LeastNatural ==
    ASSUME NEW T, T \subseteq Nat, T # {}
    PROVE  \E x \in T : \A y \in T : x <= y
<1>1. \E x \in T : \A y \in T : <<y, x>> \notin OpToRel(<, Nat)
    <2> HIDE DEF OpToRel
    <2> QED BY NatLessThanWellFounded, WFMin
<1>2. PICK x \in T : \A y \in T : <<y, x>> \notin OpToRel(<, Nat)
    BY <1>1
<1>3. \A y \in T : ~ (y < x)
    BY <1>2 DEF OpToRel
<1> QED BY <1>3

\* Induction, over a set instead of a predicate
LEMMA Induction ==
    ASSUME NEW T, 0 \in T, \A n \in Nat : n \in T => n + 1 \in T
    PROVE  Nat \subseteq T
<1>1. SUFFICES ASSUME NEW n \in Nat \ T PROVE FALSE
    OBVIOUS
<1>2. PICK x \in Nat \ T : \A y \in Nat \ T : x <= y
    BY LeastNatural
<1>3. x # 0 /\ x - 1 \in Nat /\ x - 1 \in T
    BY <1>2
<1> QED BY <1>2, <1>3

\* Each of L steps leads from a value to a value
Steps(V, base, L, step) ==
    base \in V /\ L \in Nat /\ \A n \in 1..L : \A v \in V : step[n][v] \in V
\* f[n] is what the first n steps make of the base
Iterates(f, V, base, L, step) ==
    f \in [0..L -> V] /\ f[0] = base /\ \A n \in 1..L : f[n] = step[n][f[n - 1]]

LEMMA Recursion ==
    ASSUME NEW V, NEW base, NEW L, NEW step, Steps(V, base, L, step)
    PROVE  \E f : Iterates(f, V, base, L, step)
<1>0. base \in V /\ L \in Nat /\ \A n \in 1..L : \A v \in V : step[n][v] \in V
    BY DEF Steps
<1> DEFINE Upto(m) == \E f \in [0..m -> V] : /\ f[0] = base
                                  /\ \A n \in 1..m : f[n] = step[n][f[n - 1]]
           T == {m \in Nat : m <= L => Upto(m)}
<1>1. 0 \in T
    <2>1. Upto(0)
        <3> DEFINE f == [n \in 0..0 |-> base]
        <3>1. f \in [0..0 -> V] /\ f[0] = base /\ 1..0 = {}
            BY <1>0
        <3> HIDE DEF f
        <3> QED BY <3>1
    <2> QED BY <2>1
<1>2. ASSUME NEW m \in Nat, m \in T PROVE m + 1 \in T
    <2>1. SUFFICES ASSUME m + 1 <= L PROVE Upto(m + 1)
        OBVIOUS
    <2>2. PICK f \in [0..m -> V] : f[0] = base /\ \A n \in 1..m : f[n] = step[n][f[n - 1]]
        BY <1>0, <1>2, <2>1
    <2> DEFINE g == [n \in 0..(m + 1) |-> IF n = m + 1 THEN step[m + 1][f[m]] ELSE f[n]]
    <2>3. g \in [0..(m + 1) -> V]
        BY <1>0, <2>1, <2>2
    <2>4. \A n \in 1..(m + 1) : g[n] = step[n][g[n - 1]]
        <3>1. \A n \in 1..(m + 1) : n \in 1..m \/ n = m + 1
            OBVIOUS
        <3>2. \A n \in 1..m : g[n] = f[n] /\ g[n - 1] = f[n - 1]
            OBVIOUS
        <3>3. g[m + 1] = step[m + 1][f[m]] /\ g[m] = f[m] /\ (m + 1) - 1 = m
            OBVIOUS
        <3> HIDE DEF g
        <3> QED BY <2>2, <3>1, <3>2, <3>3
    <2>5. g[0] = base
        BY <2>2
    <2> HIDE DEF g
    <2> QED BY <2>3, <2>4, <2>5
<1>3. Nat \subseteq T
    <2> HIDE DEF T
    <2> QED BY <1>1, <1>2, Induction
<1>4. Upto(L)
    BY <1>0, <1>3
<1> QED BY <1>4 DEF Iterates

\* ... and what every step keeps holds after all of them
LEMMA StaysIn ==
    ASSUME NEW f, NEW V, NEW L \in Nat, f[0] \in V,
           \A n \in 1..L : f[n - 1] \in V => f[n] \in V
    PROVE  \A n \in 0..L : f[n] \in V
<1> DEFINE T == {n \in Nat : n <= L => f[n] \in V}
<1>1. 0 \in T
    OBVIOUS
<1>2. ASSUME NEW n \in Nat, n \in T PROVE n + 1 \in T
    <2>1. SUFFICES ASSUME n + 1 <= L PROVE f[n + 1] \in V
        OBVIOUS
    <2>2. n + 1 \in 1..L /\ (n + 1) - 1 = n /\ f[n] \in V
        BY <1>2, <2>1
    <2> QED BY <2>2
<1>3. Nat \subseteq T
    <2> HIDE DEF T
    <2> QED BY <1>1, <1>2, Induction
<1> QED BY <1>3

-----------------------------------------------------------------------------
(* Sequences *)

\* The least of a set of numbers
LEMMA MinIs ==
    ASSUME NEW I, I \subseteq Nat, I # {}
    PROVE  Min(I) \in I /\ \A k \in I : Min(I) <= k
BY LeastNatural DEF Min

\* An element is inserted between the others
LEMMA InsertAtIs ==
    ASSUME NEW S, NEW s \in Seq(S), NEW x \in S, NEW p \in 1..(Len(s) + 1)
    PROVE  /\ InsertAt(s, p, x) \in Seq(S) /\ Len(InsertAt(s, p, x)) = Len(s) + 1
           /\ \A k \in 1..(Len(s) + 1) :
                InsertAt(s, p, x)[k] = IF k < p THEN s[k] ELSE IF k = p THEN x ELSE s[k - 1]
<1> DEFINE a == SubSeq(s, 1, p - 1)
           c == SubSeq(s, p, Len(s))
<1>1. a \in Seq(S) /\ Len(a) = p - 1 /\ \A k \in 1..(p - 1) : a[k] = s[k]
    BY SubSeqProperties
<1>2. c \in Seq(S) /\ Len(c) = Len(s) + 1 - p /\ \A k \in 1..(Len(s) + 1 - p) : c[k] = s[p + k - 1]
    BY SubSeqProperties
<1>3. <<x>> \in Seq(S) /\ Len(<<x>>) = 1 /\ <<x>>[1] = x
    OBVIOUS
<1> HIDE DEF a, c
<1>4. /\ a \o <<x>> \in Seq(S) /\ Len(a \o <<x>>) = p
      /\ \A k \in 1..p : (a \o <<x>>)[k] = IF k < p THEN s[k] ELSE x
    BY <1>1, <1>3, ConcatProperties
<1> DEFINE ax == a \o <<x>>
<1> HIDE DEF ax
<1>0. Len(s) \in Nat /\ p \in Nat /\ p + (Len(s) + 1 - p) = Len(s) + 1
    OBVIOUS
<1>5. /\ ax \o c \in Seq(S) /\ Len(ax \o c) = Len(s) + 1
      /\ \A k \in 1..(Len(s) + 1) : (ax \o c)[k] = IF k <= p THEN ax[k] ELSE c[k - p]
    <2>1. ax \in Seq(S) /\ Len(ax) = p
        BY <1>4 DEF ax
    <2>2. /\ ax \o c \in Seq(S) /\ Len(ax \o c) = Len(ax) + Len(c)
          /\ \A k \in 1..(Len(ax) + Len(c)) :
                 (ax \o c)[k] = IF k <= Len(ax) THEN ax[k] ELSE c[k - Len(ax)]
        BY <1>2, <2>1, ConcatProperties
    <2>3. Len(ax) + Len(c) = Len(s) + 1
        BY <1>0, <1>2, <2>1
    <2> QED BY <2>1, <2>2, <2>3
<1>6. InsertAt(s, p, x) = ax \o c
    BY DEF InsertAt, ax, a, c
<1>7. ASSUME NEW k \in 1..(Len(s) + 1), k > p PROVE c[k - p] = s[k - 1]
    <2>1. k - p \in 1..(Len(s) + 1 - p) /\ p + (k - p) - 1 = k - 1
        BY <1>0, <1>7
    <2> QED BY <1>2, <2>1
<1> QED BY <1>2, <1>4, <1>5, <1>6, <1>7 DEF ax

-----------------------------------------------------------------------------
(* The value a value_matcher looks at *)

\* What a path leads to is a value of the context, if anything
PathValues == ContextValues \cup {Undefined}

LEMMA FollowIn ==
    ASSUME NEW v \in PathValues, NEW step
    PROVE  Follow(v, step) \in PathValues
<1>1. ASSUME NEW key PROVE Field(v, key) \in PathValues
    <2>1. CASE key \in DOMAIN v.fields
        <3>1. v # Undefined
            BY <2>1 DEF Undefined, NoFields
        <3>2. v \in ContextValues
            BY <3>1 DEF PathValues
        <3>3. v.fields[key] \in ContextValues
            BY <2>1, <3>2, RoutingAssumption
        <3> QED BY <2>1, <3>3 DEF Field, PathValues
    <2>2. CASE key \notin DOMAIN v.fields
        BY <2>2 DEF Field, PathValues
    <2> QED BY <2>1, <2>2
<1>2. ASSUME NEW list \in PathValues, list.kind = "array", NEW k, k \in DOMAIN list.items
      PROVE  list.items[k] \in PathValues
    <2>1. list \in ContextValues
        BY <1>2 DEF PathValues, Undefined
    <2>2. list.items \in Seq(ContextValues)
        BY <1>2, <2>1, RoutingAssumption
    <2> QED BY <1>2, <2>2 DEF PathValues
<1> DEFINE list == IF step.key = "" THEN v ELSE Field(v, step.key)
<1>3. list \in PathValues
    BY <1>1
<1>4. Undefined \in PathValues
    BY DEF PathValues
<1>5. Follow(v, step) = IF step.index = <<>> THEN Field(v, step.key)
                        ELSE IF list.kind = "array" /\ step.index[1] + 1 \in DOMAIN list.items
                             THEN list.items[step.index[1] + 1] ELSE Undefined
    BY DEF Follow
<1> HIDE DEF list
<1> QED BY <1>1, <1>2, <1>3, <1>4, <1>5

LEMMA NestedIn ==
    ASSUME NEW context \in ContextValues, NEW path \in Seq(PathStep)
    PROVE  NestedValue(context, path) \in PathValues
<1> DEFINE L == Len(path)
           IsAfter(f) == f = [n \in 0..L |-> IF n = 0 THEN context ELSE Follow(f[n - 1], path[n])]
           after == CHOOSE f : IsAfter(f)
           step == [n \in 1..L |-> [v \in PathValues |-> Follow(v, path[n])]]
<1>0. L \in Nat /\ context \in PathValues
    BY DEF PathValues
<1>1. \A n \in 1..L : \A v \in PathValues : step[n][v] = Follow(v, path[n])
    OBVIOUS
<1>2. \A n \in 1..L : \A v \in PathValues : step[n][v] \in PathValues
    BY <1>1, FollowIn
<1> HIDE DEF L, step
<1>3. \E f : IsAfter(f)
    <2> HIDE DEF IsAfter
    <2>1. PICK f : Iterates(f, PathValues, context, L, step)
        BY <1>0, <1>2, Recursion DEF Steps
    <2>2. ASSUME NEW n \in 0..L, n # 0 PROVE f[n] = Follow(f[n - 1], path[n])
        <3>1. n \in 1..L /\ n - 1 \in 0..L
            BY <1>0, <2>2
        <3> QED BY <1>1, <2>1, <3>1 DEF Iterates
    <2>3. IsAfter(f)
        BY <1>0, <2>1, <2>2 DEF IsAfter, Iterates
    <2> QED BY <2>3
<1>4. IsAfter(after)
    <2> HIDE DEF IsAfter
    <2> QED BY <1>3
<1> HIDE DEF after
<1>5. after[0] \in PathValues
    BY <1>0, <1>4
<1>6. ASSUME NEW n \in 1..L, after[n - 1] \in PathValues PROVE after[n] \in PathValues
    <2>1. after[n] = Follow(after[n - 1], path[n])
        BY <1>0, <1>4
    <2> QED BY <1>6, <2>1, FollowIn
<1>7. \A n \in 0..L : after[n] \in PathValues
    BY <1>0, <1>5, <1>6, StaysIn
<1>8. NestedValue(context, path) = IF path = <<>> THEN Undefined ELSE after[L]
    BY DEF NestedValue, L, after
<1> QED BY <1>0, <1>7, <1>8 DEF PathValues

\* Texts are sequences with a bounded length
LEMMA TextsAre ==
    \A s : s \in Texts <=> s \in Seq(Letters) /\ Len(s) <= MaxText
<1>1. ASSUME NEW s \in Texts PROVE s \in Seq(Letters) /\ Len(s) <= MaxText
    <2>1. PICK m \in 0..MaxText : s \in [1..m -> Letters]
        BY DEF Texts, BoundedSeq, SeqOf
    <2>2. s \in Seq(Letters) /\ Len(s) = m
        BY <2>1, RoutingAssumption
    <2> QED BY <2>1, <2>2, RoutingAssumption
<1>2. ASSUME NEW s \in Seq(Letters), Len(s) <= MaxText PROVE s \in Texts
    <2>1. Len(s) \in 0..MaxText /\ s \in [1..Len(s) -> Letters]
        BY <1>2, RoutingAssumption
    <2> QED BY <2>1 DEF Texts, BoundedSeq, SeqOf
<1> QED BY <1>1, <1>2

\* What executeValueMatching works on
IsMatcher == node \in ConditionNodes /\ node.kind = "value_matcher"

LEMMA SourceIn ==
    ASSUME IsMatcher
    PROVE  Source \in Value
<1>1. Contexts[node.context] \in ContextValues /\ node.path \in Seq(PathStep)
    BY RoutingAssumption DEF IsMatcher
<1>2. NestedValue(Contexts[node.context], node.path) \in PathValues
    BY <1>1, NestedIn
<1>3. NoValue \in Value
    <2>1. <<>> \in Texts
        <3>1. <<>> \in Seq(Letters) /\ Len(<<>>) = 0
            OBVIOUS
        <3>2. 0 <= MaxText
            BY RoutingAssumption
        <3>3. Len(<<>>) <= MaxText
            BY <3>1, <3>2
        <3> QED BY <3>1, <3>3, TextsAre, Zenon
    <2> QED BY <2>1 DEF NoValue, Value
<1>4. \A v \in PathValues : v.value \in Value
    BY <1>3, RoutingAssumption DEF PathValues, Undefined
<1> QED BY <1>2, <1>4 DEF Source

-----------------------------------------------------------------------------
(* The table of edit distances *)

Rows(N) == [0..N -> Nat]

\* A cell, from the one above, the one to the left and the one before that
Cell(s, t, m, n, row, left) ==
    Min({row[n] + 1, left + 1, row[n - 1] + ReplaceCost(s[m], t[n])})
\* ... is the least of what these three allow
LeastCell(s, t, m, n, row, left, cell) ==
    LET cost == ReplaceCost(s[m], t[n]) IN
    /\ cell \in Nat
    /\ cell <= row[n] + 1 /\ cell <= left + 1 /\ cell <= row[n - 1] + cost
    /\ cell \in {row[n] + 1, left + 1, row[n - 1] + cost}

LEMMA CellIs ==
    ASSUME NEW s, NEW t, NEW m, NEW N \in Nat, NEW n \in 1..N, NEW row \in Rows(N), NEW left \in Nat
    PROVE  LeastCell(s, t, m, n, row, left, Cell(s, t, m, n, row, left))
<1> DEFINE I == {row[n] + 1, left + 1, row[n - 1] + ReplaceCost(s[m], t[n])}
<1>1. n \in 0..N /\ n - 1 \in 0..N
    OBVIOUS
<1>2. row[n] \in Nat /\ row[n - 1] \in Nat
    BY <1>1 DEF Rows
<1>3. I \subseteq Nat /\ I # {}
    BY <1>2 DEF ReplaceCost
<1>4. Cell(s, t, m, n, row, left) = Min(I)
    BY DEF Cell
<1>5. Min(I) \in I /\ \A x \in I : Min(I) <= x
    <2> HIDE DEF I
    <2> QED BY <1>3, MinIs
<1>6. Min(I) \in Nat
    BY <1>3, <1>5
<1> QED BY <1>4, <1>5, <1>6 DEF LeastCell

\* A row follows from the one above
IsNextRow(s, t, m, row, cell) ==
    /\ cell \in Rows(Len(t)) /\ cell[0] = m
    /\ \A n \in 1..Len(t) : LeastCell(s, t, m, n, row, cell[n - 1], cell[n])

LEMMA NextRowIs ==
    ASSUME NEW s, NEW t, Len(t) \in Nat, NEW m \in Nat, NEW row \in Rows(Len(t))
    PROVE  IsNextRow(s, t, m, row, NextRow(s, t, m, row))
<1> DEFINE N == Len(t)
           IsRow(f) == f = [n \in 0..N |-> IF n = 0 THEN m ELSE Cell(s, t, m, n, row, f[n - 1])]
           cell == CHOOSE f : IsRow(f)
           step == [n \in 1..N |-> [v \in Nat |-> Cell(s, t, m, n, row, v)]]
<1>0. N \in Nat /\ row \in Rows(N)
    OBVIOUS
<1>1. \A n \in 1..N : \A v \in Nat : step[n][v] = Cell(s, t, m, n, row, v)
    OBVIOUS
<1>2. NextRow(s, t, m, row) = cell
    BY DEF NextRow, Cell
<1> HIDE DEF N, step, cell
<1>3. \A n \in 1..N : \A v \in Nat : step[n][v] \in Nat
    <2>1. ASSUME NEW n \in 1..N, NEW v \in Nat PROVE Cell(s, t, m, n, row, v) \in Nat
        <3>1. LeastCell(s, t, m, n, row, v, Cell(s, t, m, n, row, v))
            BY <1>0, CellIs
        <3> QED BY <3>1 DEF LeastCell
    <2> QED BY <1>1, <2>1
<1>4. \E f : IsRow(f)
    <2> HIDE DEF IsRow
    <2>1. PICK f : Iterates(f, Nat, m, N, step)
        BY <1>0, <1>3, Recursion DEF Steps
    <2>2. ASSUME NEW n \in 0..N, n # 0 PROVE f[n] = Cell(s, t, m, n, row, f[n - 1])
        <3>1. n \in 1..N /\ n - 1 \in 0..N
            BY <1>0, <2>2
        <3> QED BY <1>1, <2>1, <3>1 DEF Iterates
    <2>3. IsRow(f)
        BY <1>0, <2>1, <2>2 DEF IsRow, Iterates
    <2> QED BY <2>3
<1>5. IsRow(cell)
    <2> HIDE DEF IsRow
    <2> QED BY <1>4 DEF cell
<1>6. cell[0] = m
    BY <1>0, <1>5
<1>7. ASSUME NEW n \in 1..N, cell[n - 1] \in Nat
      PROVE  LeastCell(s, t, m, n, row, cell[n - 1], cell[n])
    <2>1. cell[n] = Cell(s, t, m, n, row, cell[n - 1])
        BY <1>0, <1>5
    <2> QED BY <1>0, <1>7, <2>1, CellIs
<1>8. \A n \in 0..N : cell[n] \in Nat
    <2>1. \A n \in 1..N : cell[n - 1] \in Nat => cell[n] \in Nat
        BY <1>7 DEF LeastCell
    <2> QED BY <1>0, <1>6, <2>1, StaysIn
<1>9. \A n \in 1..N : n - 1 \in 0..N
    BY <1>0
<1>10. cell \in Rows(N)
    BY <1>5, <1>8 DEF Rows
<1> QED BY <1>2, <1>6, <1>7, <1>8, <1>9, <1>10 DEF IsNextRow, N

\* The table as a whole: the distances of the prefixes of s and t
IsTable(s, t, E) ==
    /\ E \in [0..Len(s) -> Rows(Len(t))]
    /\ \A n \in 0..Len(t) : E[0][n] = n
    /\ \A m \in 1..Len(s) : IsNextRow(s, t, m, E[m - 1], E[m])

LEMMA TableExists ==
    ASSUME NEW s, NEW t, Len(s) \in Nat, Len(t) \in Nat
    PROVE  \E E : IsTable(s, t, E) /\ EditDistance(s, t) = E[Len(s)][Len(t)]
<1> DEFINE M == Len(s)
           N == Len(t)
           base == [n \in 0..N |-> n]
           IsMatrix(f) == f = [m \in 0..M |-> IF m = 0 THEN base ELSE NextRow(s, t, m, f[m - 1])]
           matrix == CHOOSE f : IsMatrix(f)
           step == [m \in 1..M |-> [row \in Rows(N) |-> NextRow(s, t, m, row)]]
<1>0. M \in Nat /\ N \in Nat /\ base \in Rows(N) /\ \A n \in 0..N : base[n] = n
    BY DEF Rows
<1>1. \A m \in 1..M : \A row \in Rows(N) : step[m][row] = NextRow(s, t, m, row)
    OBVIOUS
<1>2. EditDistance(s, t) = matrix[M][N]
    BY DEF EditDistance
<1>3. \A m \in 1..M : \A row \in Rows(N) :
          IsNextRow(s, t, m, row, NextRow(s, t, m, row)) /\ NextRow(s, t, m, row) \in Rows(N)
    BY <1>0, NextRowIs DEF IsNextRow
<1> HIDE DEF base, step, matrix
<1>4. \E f : IsMatrix(f)
    <2> HIDE DEF IsMatrix, M, N
    <2>1. PICK f : Iterates(f, Rows(N), base, M, step)
        BY <1>0, <1>1, <1>3, Recursion DEF Steps
    <2>2. ASSUME NEW m \in 0..M, m # 0 PROVE f[m] = NextRow(s, t, m, f[m - 1])
        <3>1. m \in 1..M /\ m - 1 \in 0..M
            BY <1>0, <2>2
        <3> QED BY <1>1, <2>1, <3>1 DEF Iterates
    <2>3. IsMatrix(f)
        BY <1>0, <2>1, <2>2 DEF IsMatrix, Iterates
    <2> QED BY <2>3
<1>5. IsMatrix(matrix)
    <2> HIDE DEF IsMatrix
    <2> QED BY <1>4 DEF matrix
<1> HIDE DEF M, N
<1>6. matrix[0] \in Rows(N) /\ \A n \in 0..N : matrix[0][n] = n
    BY <1>0, <1>5
<1>7. \A m \in 1..M : matrix[m] = NextRow(s, t, m, matrix[m - 1])
    BY <1>0, <1>5
<1>8. \A m \in 0..M : matrix[m] \in Rows(N)
    <2>1. ASSUME NEW m \in 1..M, matrix[m - 1] \in Rows(N) PROVE matrix[m] \in Rows(N)
        BY <1>3, <1>7, <2>1
    <2> QED BY <1>0, <1>6, <2>1, StaysIn
<1>9. \A m \in 1..M : IsNextRow(s, t, m, matrix[m - 1], matrix[m])
    <2>1. \A m \in 1..M : m - 1 \in 0..M
        BY <1>0
    <2> QED BY <1>3, <1>7, <1>8, <2>1
<1>10. matrix \in [0..M -> Rows(N)]
    BY <1>5, <1>8
<1>11. IsTable(s, t, matrix)
    BY <1>6, <1>9, <1>10 DEF IsTable, M, N
<1> QED BY <1>2, <1>11 DEF M, N

LEMMA EditDistanceIn ==
    ASSUME NEW s, NEW t, Len(s) \in Nat, Len(t) \in Nat
    PROVE  EditDistance(s, t) \in Nat
<1>1. PICK E : IsTable(s, t, E) /\ EditDistance(s, t) = E[Len(s)][Len(t)]
    BY TableExists
<1> QED BY <1>1 DEF IsTable, Rows

-----------------------------------------------------------------------------
(* Scores are numbers *)

Routers == {"smart_router", "value_matcher"}

LEMMA PercentIn == ASSUME NEW n \in Int PROVE Percent(n) \in Int
BY DEF Percent, Unit

LEMMA RoutingScore ==
    ASSUME NEW r \in RoutingRule, RoutingHit(r).matched
    PROVE  RoutingHit(r).score \in Int
<1>1. Percent(80) \in Int /\ Percent(90) \in Int /\ Unit \in Int
    BY PercentIn DEF Unit
<1>2. r.value \in Value /\ r.expected \in Value /\ r.tolerance \in Int /\ r.answer.score \in Int
    BY DEF RoutingRule
<1>3. CASE r.type = "contains"
    BY <1>1, <1>3 DEF RoutingHit, Hit
<1>4. CASE r.type = "regex"
    BY <1>1, <1>4 DEF RoutingHit, Hit
<1>5. CASE r.type = "range"
    <2> DEFINE off == Distance(r.value.number, r.expected.number)
               score == (Unit * (r.tolerance - off)) \div r.tolerance
    <2>1. off \in Nat
        BY <1>2 DEF Distance, Value
    <2> HIDE DEF off
    <2>2. off <= r.tolerance /\ r.tolerance # 0
        BY <1>5 DEF RoutingHit, Hit, off
    <2>3. r.tolerance \in Nat \ {0}
        BY <1>2, <2>1, <2>2
    <2>4. score \in Int
        BY <2>1, <2>3 DEF Unit
    <2>5. RoutingHit(r).score = score
        BY <1>5, <2>3 DEF RoutingHit, Hit, off
    <2> QED BY <2>4, <2>5
<1>6. CASE r.type = "custom"
    BY <1>1, <1>2, <1>6 DEF RoutingHit, Hit
<1>7. CASE r.type \notin {"contains", "regex", "range", "custom"}
    BY <1>1, <1>7 DEF RoutingHit, Hit
<1> QED BY <1>3, <1>4, <1>5, <1>6, <1>7

LEMMA SimilarityIn ==
    ASSUME NEW s, NEW t, Len(s) \in Nat, Len(t) \in Nat
    PROVE  Similarity(s, t) \in Int
<1> DEFINE longest == IF Len(s) < Len(t) THEN Len(t) ELSE Len(s)
<1>1. longest \in Nat /\ EditDistance(s, t) \in Int
    BY EditDistanceIn
<1>2. Similarity(s, t) = IF longest = 0 THEN Unit
                         ELSE ((longest - EditDistance(s, t)) * Unit) \div longest
    BY DEF Similarity
<1> HIDE DEF longest
<1>3. (longest - EditDistance(s, t)) * Unit \in Int
    BY <1>1 DEF Unit
<1> QED BY <1>1, <1>2, <1>3 DEF Unit

LEMMA ComparedLen ==
    ASSUME NEW s \in Seq(Letters)
    PROVE  Len(Compared(s)) \in Nat
<1>1. Lowered(s) \in Seq(Letters)
    BY RoutingAssumption DEF Lowered
<1> QED BY <1>1 DEF Compared

LEMMA MatchingScore ==
    ASSUME IsMatcher, NEW r \in MatchingRule, MatchingHit(r).matched
    PROVE  MatchingHit(r).score \in Int
<1> DEFINE I == {k \in 1..Len(r.values) : EitherHit(r, r.values[k]).matched}
<1>1. Percent(80) \in Int /\ Percent(90) \in Int /\ Percent(95) \in Int /\ Unit \in Int
    BY PercentIn DEF Unit
<1>2. ASSUME NEW v PROVE ValueHit(r, v).score \in Int
    BY <1>1 DEF ValueHit, Hit
<1>3. ASSUME NEW v \in Value PROVE FuzzyHit(r, v).score \in Int
    <2>1. Source.text \in Seq(Letters) /\ v.text \in Seq(Letters)
        BY SourceIn, TextsAre DEF Value
    <2>2. Similarity(Compared(Source.text), Compared(v.text)) \in Int
        BY <2>1, ComparedLen, SimilarityIn
    <2> QED BY <2>2 DEF FuzzyHit, Hit
<1>4. ASSUME NEW v \in Value PROVE EitherHit(r, v).score \in Int
    BY <1>2, <1>3 DEF EitherHit
<1>5. MatchingHit(r) = IF (IF I # {} THEN Min(I) ELSE 0) = 0 THEN Hit(FALSE, 0)
                       ELSE EitherHit(r, r.values[IF I # {} THEN Min(I) ELSE 0])
    BY DEF MatchingHit, SelectInSeq
<1>6. r.values \in Seq(Value) /\ I \subseteq Nat
    BY DEF MatchingRule
<1>7. CASE I = {}
    BY <1>5, <1>7 DEF Hit
<1>8. CASE I # {}
    <2>1. Min(I) \in 1..Len(r.values)
        BY <1>6, <1>8, MinIs
    <2> HIDE DEF I
    <2>2. r.values[Min(I)] \in Value /\ Min(I) # 0
        <3>1. r.values \in Seq(Value)
            BY <1>6
        <3> QED BY <2>1, <3>1, ElementOfSeq
    <2>3. MatchingHit(r) = EitherHit(r, r.values[Min(I)])
        BY <1>5, <1>8, <2>2
    <2> QED BY <1>4, <2>2, <2>3
<1> QED BY <1>7, <1>8

\* What can be compared with another match
Ranked(a) ==
    /\ a.score \in Int /\ a.rule.priority \in Int
    /\ node.kind = "smart_router" => a.rule.weight \in Int

LEMMA CandidatesRanked ==
    ASSUME node \in ConditionNodes, node.kind \in Routers, NEW k \in Candidates
    PROVE  Ranked(Match(k))
<1>1. k \in DOMAIN node.rules /\ RuleHit(node.rules[k]).matched
    BY DEF Candidates
<1>2. CASE node.kind = "smart_router"
    <2>1. node.rules \in Seq(RoutingRule)
        BY <1>2, RoutingAssumption
    <2>2. node.rules[k] \in RoutingRule
        BY <1>1, <2>1
    <2>3. RuleHit(node.rules[k]).score \in Int
        BY <1>1, <1>2, <2>2, RoutingScore DEF RuleHit
    <2> QED BY <2>2, <2>3 DEF Ranked, Match, RoutingRule
<1>3. CASE node.kind = "value_matcher"
    <2>1. node.rules \in Seq(MatchingRule)
        BY <1>3, RoutingAssumption
    <2>2. node.rules[k] \in MatchingRule
        BY <1>1, <2>1
    <2>3. RuleHit(node.rules[k]).score \in Int
        BY <1>1, <1>3, <2>2, MatchingScore DEF RuleHit, IsMatcher
    <2> QED BY <1>3, <2>2, <2>3 DEF Ranked, Match, MatchingRule
<1> QED BY <1>2, <1>3 DEF Routers

-----------------------------------------------------------------------------
(* The order of the matches *)

\* Some order is defined: not under a strategy nobody knows
Ordered == node.kind = "smart_router" => node.strategy \in Strategies \ {"unknown"}

LEMMA PrecedesOrders ==
    ASSUME node.kind \in Routers, Ordered,
           NEW a, NEW b, NEW c, Ranked(a), Ranked(b), Ranked(c)
    PROVE  /\ ~Precedes(a, a)
           /\ Precedes(a, b) /\ Precedes(b, c) => Precedes(a, c)
           /\ ~Precedes(a, b) /\ ~Precedes(b, c) => ~Precedes(a, c)
<1>1. CASE node.kind = "value_matcher"
    BY <1>1 DEF Precedes, Ranked
<1>2. CASE node.kind = "smart_router" /\ node.strategy = "first_match"
    BY <1>2 DEF Precedes, Ranked
<1>3. CASE node.kind = "smart_router" /\ node.strategy = "best_match"
    BY <1>3 DEF Precedes, Ranked
<1>4. CASE node.kind = "smart_router" /\ node.strategy = "weighted_score"
    <2> DEFINE total(x) == (3 * Unit * x.rule.priority + 7 * x.score) * Weight(x.rule)
    <2>1. ASSUME NEW x, Ranked(x) PROVE total(x) \in Int
        <3>1. Weight(x.rule) \in Int
            BY <1>4, <2>1 DEF Weight, Ranked
        <3>2. 3 * Unit * x.rule.priority + 7 * x.score \in Int
            BY <2>1 DEF Ranked, Unit
        <3> QED BY <3>1, <3>2
    <2>2. \A x, y : Precedes(x, y) <=> total(x) > total(y)
        BY <1>4 DEF Precedes
    <2>3. total(a) \in Int /\ total(b) \in Int /\ total(c) \in Int
        BY <2>1
    <2> HIDE DEF total
    <2> QED BY <2>2, <2>3
<1> QED BY <1>1, <1>2, <1>3, <1>4 DEF Ordered, Strategies, Routers

\* x is the best of the first n, the first of equals
Best(s, n, x) ==
    \E m \in 1..n :
        /\ x = s[m]
        /\ \A j \in (1..n) \ {m} : ~Precedes(s[j], s[m]) /\ (Precedes(s[m], s[j]) \/ m < j)

LEMMA BestIsNotBeaten ==
    ASSUME node.kind \in Routers, Ordered, NEW s, NEW n, \A j \in 1..n : Ranked(s[j]),
           NEW x, Best(s, n, x), NEW j \in 1..n
    PROVE  ~Precedes(s[j], x) /\ Ranked(x)
<1>1. PICK m \in 1..n : x = s[m] /\ \A k \in (1..n) \ {m} : ~Precedes(s[k], s[m])
    BY DEF Best
<1>2. CASE j = m
    BY <1>1, <1>2, PrecedesOrders
<1>3. CASE j # m
    BY <1>1, <1>3
<1> QED BY <1>2, <1>3

\* One more comes before all the others, or before none it should
LEMMA BestOfOneMore ==
    ASSUME node.kind \in Routers, Ordered, NEW n \in Nat,
           NEW s, \A j \in 1..(n + 1) : Ranked(s[j]),
           NEW x, Best(s, n, x)
    PROVE  /\ Precedes(s[n + 1], x) => Best(s, n + 1, s[n + 1])
           /\ ~Precedes(s[n + 1], x) => Best(s, n + 1, x)
<1>0. \A j \in 1..n : j \in 1..(n + 1)
    OBVIOUS
<1>1. \A j \in 1..n : ~Precedes(s[j], x) /\ Ranked(x)
    BY <1>0, BestIsNotBeaten
<1>2. Ranked(s[n + 1])
    OBVIOUS
<1>3. ASSUME Precedes(s[n + 1], x), NEW j \in (1..(n + 1)) \ {n + 1}
      PROVE  ~Precedes(s[j], s[n + 1]) /\ Precedes(s[n + 1], s[j])
    <2>1. j \in 1..n /\ Ranked(s[j])
        OBVIOUS
    <2>2. ~Precedes(s[j], x) /\ Ranked(x)
        BY <1>1, <2>1
    <2>3. Precedes(s[n + 1], s[j])
        BY <1>2, <1>3, <2>1, <2>2, PrecedesOrders
    <2>4. ~Precedes(s[n + 1], s[n + 1])
        BY <1>2, PrecedesOrders
    <2> QED BY <1>2, <2>1, <2>3, <2>4, PrecedesOrders
<1>4. ASSUME Precedes(s[n + 1], x) PROVE Best(s, n + 1, s[n + 1])
    <2>1. n + 1 \in 1..(n + 1)
        OBVIOUS
    <2> QED BY <1>3, <1>4, <2>1 DEF Best
<1>5. ASSUME ~Precedes(s[n + 1], x) PROVE Best(s, n + 1, x)
    <2>1. PICK m \in 1..n : /\ x = s[m]
                            /\ \A j \in (1..n) \ {m} : /\ ~Precedes(s[j], s[m])
                                                       /\ Precedes(s[m], s[j]) \/ m < j
        BY DEF Best
    <2>2. m \in 1..(n + 1) /\ m < n + 1
        BY <1>0
    <2>3. ASSUME NEW j \in (1..(n + 1)) \ {m}
          PROVE  ~Precedes(s[j], s[m]) /\ (Precedes(s[m], s[j]) \/ m < j)
        <3>1. j = n + 1 \/ j \in (1..n) \ {m}
            OBVIOUS
        <3> QED BY <1>5, <2>1, <2>2, <3>1
    <2> QED BY <2>1, <2>2, <2>3 DEF Best
<1> QED BY <1>4, <1>5

-----------------------------------------------------------------------------
(* The first of the sorted matches is the best *)

\* It is first when it precedes all the others
LEMMA PlaceIs ==
    ASSUME NEW S, NEW s \in Seq(S), NEW x
    PROVE  /\ Place(x, s) \in 1..(Len(s) + 1)
           /\ Place(x, s) = 1 <=> \A k \in DOMAIN s : Precedes(x, s[k])
<1> DEFINE behind == {k \in DOMAIN s : ~Precedes(x, s[k])}
<1>1. behind \subseteq 1..Len(s) /\ DOMAIN s = 1..Len(s) /\ Len(s) \in Nat
    OBVIOUS
<1>2. IsFiniteSet(1..Len(s)) /\ Cardinality(1..Len(s)) = Len(s)
    <2>1. IsFiniteSet(1..Len(s)) /\ Cardinality(1..Len(s)) = IF 1 > Len(s) THEN 0 ELSE Len(s) - 1 + 1
        BY <1>1, FS_Interval
    <2> QED BY <1>1, <2>1
<1>3. IsFiniteSet(behind) /\ Cardinality(behind) <= Len(s) /\ Cardinality(behind) \in Nat
    BY <1>1, <1>2, FS_Subset, FS_CardinalityType
<1>4. Cardinality(behind) = 0 <=> behind = {}
    BY <1>3, FS_EmptySet
<1>5. Place(x, s) = Cardinality(behind) + 1
    BY DEF Place
<1>6. behind = {} <=> \A k \in DOMAIN s : Precedes(x, s[k])
    OBVIOUS
<1> HIDE DEF behind
<1> QED BY <1>1, <1>3, <1>4, <1>5, <1>6
\* The first n, in some order, the best of them at the head
Arranged(v, s, n, S) ==
    /\ v \in Seq(S) /\ Len(v) = n
    /\ \A k \in 1..n : \E j \in 1..n : v[k] = s[j]
    /\ n # 0 => Best(s, n, v[1])

LEMMA InsertKeepsArranged ==
    ASSUME node.kind \in Routers, Ordered, NEW S, \A x \in S : Ranked(x),
           NEW s \in Seq(S), NEW n \in Nat, n + 1 <= Len(s), NEW v, Arranged(v, s, n, S)
    PROVE  Arranged(InsertAt(v, Place(s[n + 1], v), s[n + 1]), s, n + 1, S)
<1> DEFINE x == s[n + 1]
           p == Place(x, v)
           w == InsertAt(v, p, x)
<1>0. v \in Seq(S) /\ Len(v) = n /\ x \in S /\ DOMAIN v = 1..n
    BY DEF Arranged
<1>1. p \in 1..(n + 1) /\ (p = 1 <=> \A k \in 1..n : Precedes(x, v[k]))
    BY <1>0, PlaceIs
<1> HIDE DEF x, p, w
<1>2. /\ w \in Seq(S) /\ Len(w) = n + 1
      /\ \A k \in 1..(n + 1) : w[k] = IF k < p THEN v[k] ELSE IF k = p THEN x ELSE v[k - 1]
    <2>1. p \in 1..(Len(v) + 1)
        BY <1>0, <1>1
    <2>2. /\ w \in Seq(S) /\ Len(w) = Len(v) + 1
          /\ \A k \in 1..(Len(v) + 1) :
                 w[k] = IF k < p THEN v[k] ELSE IF k = p THEN x ELSE v[k - 1]
        <3>1. v \in Seq(S) /\ x \in S
            BY <1>0
        <3>2. /\ InsertAt(v, p, x) \in Seq(S) /\ Len(InsertAt(v, p, x)) = Len(v) + 1
              /\ \A k \in 1..(Len(v) + 1) : InsertAt(v, p, x)[k] =
                     IF k < p THEN v[k] ELSE IF k = p THEN x ELSE v[k - 1]
            BY <2>1, <3>1, InsertAtIs
        <3> QED BY <3>2 DEF w
    <2> QED BY <1>0, <2>2
<1>3. ASSUME NEW k \in 1..(n + 1) PROVE \E j \in 1..(n + 1) : w[k] = s[j]
    <2>1. \A m \in 1..n : \E j \in 1..(n + 1) : v[m] = s[j]
        <3>1. ASSUME NEW m \in 1..n PROVE \E j \in 1..(n + 1) : v[m] = s[j]
            <4>1. PICK j \in 1..n : v[m] = s[j]
                BY DEF Arranged
            <4> QED BY <4>1
        <3> QED BY <3>1
    <2>2. CASE k < p
        BY <1>1, <1>2, <2>1, <2>2
    <2>3. CASE k = p
        BY <1>1, <1>2, <2>3 DEF x
    <2>4. CASE k > p
        <3>1. k - 1 \in 1..n /\ w[k] = v[k - 1]
            BY <1>1, <1>2, <2>4
        <3> QED BY <2>1, <3>1
    <2> QED BY <1>1, <2>2, <2>3, <2>4
<1>4. \A j \in 1..(n + 1) : Ranked(s[j])
    <2>1. \A j \in 1..(n + 1) : j \in 1..Len(s)
        OBVIOUS
    <2> QED BY <2>1, ElementOfSeq
<1>5. Best(s, n + 1, w[1])
    <2>1. CASE n = 0
        <3>1. p = 1 /\ w[1] = x
            BY <1>1, <1>2, <2>1
        <3>2. 1 \in 1..(n + 1) /\ (1..(n + 1)) \ {1} = {}
            BY <2>1
        <3> QED BY <2>1, <3>1, <3>2 DEF Best, x
    <2>2. CASE n # 0 /\ p = 1
        <3>1. w[1] = x /\ Precedes(x, v[1])
            BY <1>1, <1>2, <2>2
        <3>2. Best(s, n, v[1])
            BY <2>2 DEF Arranged
        <3> QED BY <1>4, <3>1, <3>2, BestOfOneMore DEF x
    <2>3. CASE n # 0 /\ p # 1
        <3>1. w[1] = v[1]
            BY <1>1, <1>2, <2>3
        <3>2. Best(s, n, v[1])
            BY <2>3 DEF Arranged
        <3>3. PICK k \in 1..n : ~Precedes(x, v[k])
            BY <1>1, <2>3
        <3>4. PICK j \in 1..n : v[k] = s[j]
            BY DEF Arranged
        <3>5. \A m \in 1..n : m \in 1..(n + 1)
            OBVIOUS
        <3>6. ~Precedes(s[j], v[1]) /\ Ranked(v[1])
            BY <1>4, <3>2, <3>5, BestIsNotBeaten
        <3>7. Ranked(s[j]) /\ Ranked(x)
            BY <1>4, <3>5 DEF x
        <3>8. ~Precedes(x, v[1])
            BY <3>3, <3>4, <3>6, <3>7, PrecedesOrders
        <3> QED BY <1>4, <3>1, <3>2, <3>8, BestOfOneMore DEF x
    <2> QED BY <2>1, <2>2, <2>3
<1>6. Arranged(w, s, n + 1, S)
    BY <1>2, <1>3, <1>5 DEF Arranged
<1> QED BY <1>6 DEF w, p, x

LEMMA SortedBest ==
    ASSUME node.kind \in Routers, Ordered, NEW S, \A x \in S : Ranked(x),
           NEW s \in Seq(S), s # <<>>
    PROVE  Best(s, Len(s), Sorted(s)[1])
<1> DEFINE L == Len(s)
           Insert(n, v) == InsertAt(v, Place(s[n], v), s[n])
           IsFirst(f) == f = [n \in 0..L |-> IF n = 0 THEN <<>> ELSE Insert(n, f[n - 1])]
           first == CHOOSE f : IsFirst(f)
           step == [n \in 1..L |-> [v \in Seq(S) |-> Insert(n, v)]]
<1>0. L \in Nat /\ L # 0 /\ <<>> \in Seq(S)
    OBVIOUS
<1>1. Sorted(s) = first[L]
    BY DEF Sorted
<1>2. \A n \in 1..L : \A v \in Seq(S) : step[n][v] = Insert(n, v)
    OBVIOUS
<1>3. ASSUME NEW n \in 1..L, NEW v \in Seq(S) PROVE Insert(n, v) \in Seq(S)
    <2>1. s[n] \in S /\ Place(s[n], v) \in 1..(Len(v) + 1)
        BY PlaceIs, ElementOfSeq
    <2> QED BY <2>1, InsertAtIs
<1>4. ASSUME NEW n \in Nat, n + 1 <= L, NEW v, Arranged(v, s, n, S)
      PROVE  Arranged(Insert(n + 1, v), s, n + 1, S)
    BY <1>4, InsertKeepsArranged
<1> HIDE DEF L, Insert, step, first
<1>5. \E f : IsFirst(f)
    <2> HIDE DEF IsFirst
    <2>1. PICK f : Iterates(f, Seq(S), <<>>, L, step)
        BY <1>0, <1>2, <1>3, Recursion DEF Steps
    <2>2. ASSUME NEW n \in 0..L, n # 0 PROVE f[n] = Insert(n, f[n - 1])
        <3>1. n \in 1..L /\ n - 1 \in 0..L
            BY <1>0, <2>2
        <3> QED BY <1>2, <2>1, <3>1 DEF Iterates
    <2>3. IsFirst(f)
        BY <1>0, <2>1, <2>2 DEF IsFirst, Iterates
    <2> QED BY <2>3
<1>6. IsFirst(first)
    <2> HIDE DEF IsFirst
    <2> QED BY <1>5 DEF first
<1> DEFINE T == {n \in Nat : n <= L => Arranged(first[n], s, n, S)}
<1>7. 0 \in T
    <2>1. first[0] = <<>>
        BY <1>0, <1>6
    <2>2. Arranged(<<>>, s, 0, S)
        BY DEF Arranged
    <2> QED BY <2>1, <2>2
<1>8. ASSUME NEW n \in Nat, n \in T PROVE n + 1 \in T
    <2>1. SUFFICES ASSUME n + 1 <= L PROVE Arranged(first[n + 1], s, n + 1, S)
        OBVIOUS
    <2>2. first[n + 1] = Insert(n + 1, first[n])
        BY <1>0, <1>6, <2>1
    <2>3. Arranged(first[n], s, n, S)
        BY <1>0, <1>8, <2>1
    <2> QED BY <1>4, <2>1, <2>2, <2>3
<1>9. Nat \subseteq T
    <2> HIDE DEF T
    <2> QED BY <1>7, <1>8, Induction
<1>10. Arranged(first[L], s, L, S)
    BY <1>0, <1>9
<1> QED BY <1>0, <1>1, <1>10 DEF Arranged, L

-----------------------------------------------------------------------------
(* What has been collected, and what is chosen from it *)

\* at[m] is the rule the m-th match is of: the candidates below n, in order
Places(at, n, s) ==
    /\ \A m \in 1..Len(s) : at[m] \in Candidates /\ at[m] < n /\ s[m] = Match(at[m])
    /\ \A k \in Candidates : k < n => \E m \in 1..Len(s) : at[m] = k
    /\ \A m, o \in 1..Len(s) : m < o => at[m] < at[o]

Collected(n, s) == s \in Seq({Match(k) : k \in Candidates}) /\ \E at : Places(at, n, s)

LEMMA CandidatesAreNumbers ==
    ASSUME node \in ConditionNodes, node.kind \in Routers
    PROVE  Candidates \subseteq 1..Len(node.rules) /\ Len(node.rules) \in Nat
<1>1. node.rules \in Seq(RoutingRule) \/ node.rules \in Seq(MatchingRule)
    BY RoutingAssumption DEF Routers
<1> QED BY <1>1 DEF Candidates

LEMMA NothingCollected ==
    ASSUME node \in ConditionNodes, node.kind \in Routers
    PROVE  Collected(1, <<>>)
<1>1. ~ \E k \in Candidates : k < 1
    BY CandidatesAreNumbers
<1>2. Len(<<>>) = 0 /\ 1..0 = {} /\ <<>> \in Seq({Match(k) : k \in Candidates})
    OBVIOUS
<1>3. Places(<<>>, 1, <<>>)
    BY <1>1, <1>2 DEF Places
<1> QED BY <1>2, <1>3 DEF Collected

LEMMA OneMoreCollected ==
    ASSUME node \in ConditionNodes, node.kind \in Routers, NEW n \in Nat, NEW s, Collected(n, s)
    PROVE  /\ n \in Candidates => Collected(n + 1, Append(s, Match(n)))
           /\ n \notin Candidates => Collected(n + 1, s)
<1> DEFINE S == {Match(k) : k \in Candidates}
           L == Len(s)
<1>0. PICK at : Places(at, n, s)
    BY DEF Collected
<1>1. /\ \A k \in Candidates : k < n => \E m \in 1..L : at[m] = k
      /\ \A m \in 1..L : at[m] \in Candidates /\ at[m] < n /\ s[m] = Match(at[m])
      /\ \A m, o \in 1..L : m < o => at[m] < at[o]
    BY <1>0 DEF Places
<1>2. s \in Seq(S) /\ L \in Nat
    BY DEF Collected
<1>3. Candidates \subseteq Nat
    BY CandidatesAreNumbers
<1> HIDE DEF L
<1>4. ASSUME n \notin Candidates PROVE Collected(n + 1, s)
    <2>1. \A k \in Candidates : k < n <=> k < n + 1
        BY <1>3, <1>4
    <2>2. Places(at, n + 1, s)
        BY <1>0, <2>1 DEF Places
    <2> QED BY <1>2, <2>2 DEF Collected
<1>5. ASSUME n \in Candidates PROVE Collected(n + 1, Append(s, Match(n)))
    <2> DEFINE t == Append(s, Match(n))
               to == [m \in 1..(L + 1) |-> IF m = L + 1 THEN n ELSE at[m]]
    <2>1. t \in Seq(S) /\ Len(t) = L + 1 /\ t[L + 1] = Match(n) /\ \A m \in 1..L : t[m] = s[m]
        <3>1. Match(n) \in S
            BY <1>5
        <3> HIDE DEF S
        <3> QED BY <1>2, <3>1, AppendProperties DEF L
    <2>2. to[L + 1] = n /\ \A m \in 1..L : to[m] = at[m]
        BY <1>2
    <2>3. \A m \in 1..(L + 1) : m \in 1..L \/ m = L + 1
        BY <1>2
    <2>4. \A m \in 1..L : m \in 1..(L + 1) /\ at[m] \in Candidates /\ at[m] < n
        BY <1>1, <1>2
    <2> HIDE DEF t, to
    <2>5. ASSUME NEW m \in 1..(L + 1) PROVE to[m] \in Candidates /\ to[m] < n + 1
        <3>1. CASE m \in 1..L
            <4>1. at[m] \in Nat /\ at[m] < n /\ at[m] \in Candidates
                BY <1>3, <2>4, <3>1
            <4>2. to[m] = at[m]
                BY <2>2, <3>1
            <4> QED BY <4>1, <4>2
        <3>2. CASE m = L + 1
            BY <1>5, <2>2, <3>2
        <3> QED BY <2>3, <3>1, <3>2
    <2>6. ASSUME NEW k \in Candidates, k < n + 1 PROVE \E m \in 1..(L + 1) : to[m] = k
        <3>1. CASE k = n
            BY <1>2, <2>2, <3>1
        <3>2. CASE k # n
            <4>1. k < n
                BY <1>3, <2>6, <3>2
            <4>2. PICK m \in 1..L : at[m] = k
                BY <1>1, <4>1
            <4> QED BY <2>2, <2>4, <4>2
        <3> QED BY <3>1, <3>2
    <2>7. \A m \in 1..(L + 1) : t[m] = Match(to[m])
        BY <1>1, <2>1, <2>2, <2>3
    <2>8. ASSUME NEW m \in 1..(L + 1), NEW o \in 1..(L + 1), m < o PROVE to[m] < to[o]
        <3>1. m \in 1..L
            BY <1>2, <2>8
        <3>2. CASE o = L + 1
            BY <2>2, <2>4, <3>1, <3>2
        <3>3. CASE o \in 1..L
            BY <1>1, <2>2, <2>8, <3>1, <3>3
        <3> QED BY <2>3, <3>2, <3>3
    <2>9. Places(to, n + 1, t)
        BY <2>1, <2>5, <2>6, <2>7, <2>8 DEF Places
    <2>10. Collected(n + 1, t)
        BY <2>1, <2>9 DEF Collected
    <2> QED BY <2>10 DEF t
<1> QED BY <1>4, <1>5

\* When all rules are evaluated, the first of the sorted matches is the one that wins
LEMMA ChosenWins ==
    ASSUME node \in ConditionNodes, node.kind \in Routers,
           NEW n \in Nat, n > Len(node.rules), Collected(n, matched)
    PROVE  /\ matched = <<>> <=> Candidates = {}
           /\ matched # <<>> /\ Ordered =>
                 \E k \in Candidates : /\ {c \in Candidates : Wins(c)} = {k}
                                       /\ Sorted(matched)[1].rule.target = node.rules[k].target
<1> DEFINE S == {Match(k) : k \in Candidates}
           L == Len(matched)
<1>0. PICK at : Places(at, n, matched)
    BY DEF Collected
<1>1. /\ \A k \in Candidates : k < n => \E m \in 1..L : at[m] = k
      /\ \A m \in 1..L : at[m] \in Candidates /\ at[m] < n /\ matched[m] = Match(at[m])
      /\ \A m, o \in 1..L : m < o => at[m] < at[o]
    BY <1>0 DEF Places
<1>2. matched \in Seq(S) /\ L \in Nat /\ (matched = <<>> <=> L = 0)
    BY DEF Collected
<1>3. Candidates \subseteq Nat /\ \A k \in Candidates : k < n
    BY CandidatesAreNumbers
<1> HIDE DEF L
<1>4. \A k \in Candidates : \E m \in 1..L : at[m] = k
    BY <1>1, <1>3
<1>5. \A m \in 1..L : at[m] \in Candidates
    BY <1>1
<1>6. matched = <<>> <=> Candidates = {}
    <2>1. ASSUME L = 0 PROVE Candidates = {}
        BY <1>4, <2>1
    <2>2. ASSUME L # 0 PROVE Candidates # {}
        <3>1. 1 \in 1..L
            BY <1>2, <2>2
        <3> QED BY <1>5, <3>1
    <2> QED BY <1>2, <2>1, <2>2
<1>7. ASSUME matched # <<>>, Ordered
      PROVE  \E k \in Candidates : /\ {c \in Candidates : Wins(c)} = {k}
                                   /\ Sorted(matched)[1].rule.target = node.rules[k].target
    <2>1. \A x \in S : Ranked(x)
        BY CandidatesRanked
    <2>2. Best(matched, L, Sorted(matched)[1])
        <3> HIDE DEF S
        <3> QED BY <1>2, <1>7, <2>1, SortedBest DEF L
    <2>3. PICK m \in 1..L :
              /\ Sorted(matched)[1] = matched[m]
              /\ \A o \in (1..L) \ {m} : /\ ~Precedes(matched[o], matched[m])
                                         /\ Precedes(matched[m], matched[o]) \/ m < o
        BY <2>2 DEF Best
    <2>4. at[m] \in Candidates /\ Sorted(matched)[1] = Match(at[m])
        BY <1>1, <1>5, <2>3
    <2>5. ASSUME NEW j \in Candidates \ {at[m]}
          PROVE  /\ ~Precedes(Match(j), Match(at[m]))
                 /\ Precedes(Match(at[m]), Match(j)) \/ at[m] < j
        <3>1. PICK o \in 1..L : at[o] = j
            BY <1>4
        <3>2. o # m /\ Match(j) = matched[o] /\ Match(at[m]) = matched[m]
            BY <1>1, <2>5, <3>1
        <3>3. m < o => at[m] < at[o]
            BY <1>1
        <3> QED BY <2>3, <3>1, <3>2, <3>3
    <2>6. Wins(at[m])
        BY <2>5 DEF Wins
    <2>7. ASSUME NEW c \in Candidates, Wins(c) PROVE c = at[m]
        <3>1. SUFFICES ASSUME c # at[m] PROVE FALSE
            OBVIOUS
        <3>2. ~Precedes(Match(at[m]), Match(c)) /\ (Precedes(Match(c), Match(at[m])) \/ c < at[m])
            BY <2>4, <2>7, <3>1 DEF Wins
        <3>3. ~Precedes(Match(c), Match(at[m])) /\ (Precedes(Match(at[m]), Match(c)) \/ at[m] < c)
            BY <2>5, <3>1
        <3>4. c < at[m] /\ at[m] < c
            BY <3>2, <3>3
        <3>5. c \in Nat /\ at[m] \in Nat
            BY <1>3, <2>4
        <3> QED BY <3>4, <3>5
    <2>8. {c \in Candidates : Wins(c)} = {at[m]}
        <3> DEFINE W == {c \in Candidates : Wins(c)}
        <3>1. at[m] \in W
            BY <2>4, <2>6
        <3>2. \A c \in W : c = at[m]
            BY <2>7
        <3> HIDE DEF W
        <3>3. W = {at[m]}
            BY <3>1, <3>2
        <3> QED BY <3>3 DEF W
    <2>9. Sorted(matched)[1].rule.target = node.rules[at[m]].target
        BY <2>4 DEF Match
    <2> QED BY <2>4, <2>8, <2>9
<1> QED BY <1>6, <1>7

-----------------------------------------------------------------------------
(* The steps *)

\* The result names the default, or what was wanted
Decided(selected) ==
    /\ Cardinality(Wanted) = 1
    /\ selected \in Wanted \ {None} \/ (None \in Wanted /\ selected = Spare)

IInv ==
    /\ node \in ConditionNodes
    /\ node.kind \in Routers =>
          /\ i \in Nat \ {0} /\ Collected(i, matched)
          /\ pc # "rules" => Decided(result.selected)

\* The rules stay as they are
LEMMA SameNode ==
    ASSUME node' = node
    PROVE  /\ Candidates' = Candidates /\ Wanted' = Wanted /\ Spare' = Spare
           /\ \A k : Match(k)' = Match(k)
<1>1. Source' = Source /\ Found' = Found /\ Spare' = Spare
    BY DEF Source, Found, Spare
<1>2. \A s : Compared(s)' = Compared(s)
    BY DEF Compared
<1>3. Compared(Source.text)' = Compared(Source.text)
    BY DEF Compared, Source
<1>4. \A r, v : ValueHit(r, v)' = ValueHit(r, v)
    BY <1>1, <1>2, <1>3 DEF ValueHit
<1>5. \A r, v : FuzzyHit(r, v)' = FuzzyHit(r, v)
    BY <1>1, <1>2, <1>3 DEF FuzzyHit
<1>6. \A r, v : EitherHit(r, v)' = EitherHit(r, v)
    BY <1>4, <1>5 DEF EitherHit
<1>7. \A r : MatchingHit(r)' = MatchingHit(r)
    BY <1>6 DEF MatchingHit, SelectInSeq
<1>8. \A r : RuleHit(r)' = RuleHit(r)
    BY <1>7 DEF RuleHit
<1>9. \A k : Match(k)' = Match(k)
    BY <1>8 DEF Match
<1>10. Candidates' = Candidates
    BY <1>8 DEF Candidates
<1>11. \A j, k : Precedes(Match(j), Match(k))' <=> Precedes(Match(j), Match(k))
    BY <1>9 DEF Precedes
<1>12. \A k : Wins(k)' <=> Wins(k)
    BY <1>10, <1>11 DEF Wins
<1>13. Wanted' = Wanted
    BY <1>1, <1>10, <1>12 DEF Wanted
<1> QED BY <1>1, <1>9, <1>10, <1>13

\* What is wanted alone, or the default in its place
LEMMA OrDefaultDecided ==
    ASSUME NEW x, Wanted = {x}, NEW r, r.selected = x,
           "selected" \in DOMAIN r
    PROVE  Decided(OrDefault(r).selected)
<1>1. Cardinality(Wanted) = 1
    BY FS_Singleton
<1>2. OrDefault(r).selected = IF x # None THEN x ELSE Spare
    BY DEF OrDefault, Spare
<1> QED BY <1>1, <1>2 DEF Decided

LEMMA InitEstablishes == Init => IInv
<1> SUFFICES ASSUME Init PROVE IInv
    OBVIOUS
<1>1. /\ node \in ConditionNodes /\ i = 1 /\ matched = <<>> /\ pc = "rules"
    BY DEF Init
<1>2. node.kind \in Routers => Collected(1, <<>>)
    BY <1>1, NothingCollected
<1> QED BY <1>1, <1>2 DEF IInv

\* The result of a router comes from the collected matches
LEMMA SelectionDecided ==
    ASSUME IInv, SelectTarget
    PROVE  Decided(result'.selected)
<1>0. /\ node \in ConditionNodes /\ node.kind \in Routers /\ i \in Nat /\ Collected(i, matched)
      /\ i > Len(node.rules)
    BY DEF IInv, SelectTarget, Routers
<1>1. matched = <<>> <=> Candidates = {}
    BY <1>0, ChosenWins
<1>2. ASSUME matched # <<>>, Ordered
      PROVE  \E x : Wanted = {x} /\ Chosen = x
    <2>1. PICK k \in Candidates : /\ {c \in Candidates : Wins(c)} = {k}
                                  /\ Sorted(matched)[1].rule.target = node.rules[k].target
        BY <1>0, <1>2, ChosenWins
    <2>2. node.kind = "smart_router" => node.strategy # "unknown"
        BY <1>2 DEF Ordered
    <2>3. node.kind # "smart_router" => Found
        BY DEF SelectTarget
    <2>4. Wanted = {node.rules[c].target : c \in {k}}
        BY <1>1, <1>2, <2>1, <2>2, <2>3 DEF Wanted
    <2>5. Wanted = {node.rules[k].target}
        BY <2>4
    <2>6. Chosen = node.rules[k].target
        BY <1>2, <2>1, <2>2 DEF Chosen
    <2> QED BY <2>5, <2>6
<1>3. CASE node.kind = "smart_router"
    <2> DEFINE r == [NoResult EXCEPT !.holds = matched # <<>>, !.selected = Chosen]
    <2>1. result' = OrDefault(r)
        BY <1>3 DEF SelectTarget
    <2>2. Wanted = {Chosen}
        <3>1. CASE matched # <<>> /\ Ordered
            BY <1>2, <3>1
        <3>2. CASE matched = <<>> \/ node.strategy = "unknown"
            BY <1>1, <1>3, <3>2 DEF Wanted, Chosen
        <3> QED BY <1>0, <1>3, <3>1, <3>2, RoutingAssumption DEF Ordered
    <2>3. r.selected = Chosen /\ "selected" \in DOMAIN r
        BY DEF NoResult
    <2> HIDE DEF r
    <2>4. Decided(OrDefault(r).selected)
        BY <2>2, <2>3, OrDefaultDecided
    <2> QED BY <2>1, <2>4
<1>4. CASE node.kind = "value_matcher"
    <2>1. Ordered
        BY <1>4 DEF Ordered
    <2>2. CASE matched # <<>>
        <3> DEFINE r == [NoResult EXCEPT !.holds = TRUE, !.selected = Chosen]
        <3>1. result' = OrDefault(r)
            BY <1>4, <2>2 DEF SelectTarget
        <3>2. Wanted = {Chosen}
            BY <1>2, <2>1, <2>2
        <3>3. r.selected = Chosen /\ "selected" \in DOMAIN r
            BY DEF NoResult
        <3> HIDE DEF r
        <3>4. Decided(OrDefault(r).selected)
            BY <3>2, <3>3, OrDefaultDecided
        <3> QED BY <3>1, <3>4
    <2>3. CASE matched = <<>>
        <3> DEFINE x == node.matcherDefault
                   r == [NoResult EXCEPT !.selected = x, !.usedDefault = x # None]
        <3>1. result' = OrDefault(r)
            BY <1>4, <2>3 DEF SelectTarget
        <3>2. Wanted = {x}
            BY <1>1, <1>4, <2>3 DEF Wanted
        <3>3. r.selected = x /\ "selected" \in DOMAIN r
            BY DEF NoResult
        <3> HIDE DEF r
        <3>4. Decided(OrDefault(r).selected)
            BY <3>2, <3>3, OrDefaultDecided
        <3> QED BY <3>1, <3>4
    <2> QED BY <2>2, <2>3
<1> QED BY <1>0, <1>3, <1>4 DEF Routers

LEMMA MissingDecided ==
    ASSUME IInv, FieldMissing
    PROVE  Decided(result'.selected)
<1> DEFINE x == node.matcherDefault
           r == [NoResult EXCEPT !.selected = x, !.usedDefault = TRUE]
<1>1. node.kind = "value_matcher" /\ ~Found /\ result' = OrDefault(r)
    BY DEF FieldMissing
<1>2. Wanted = {x}
    BY <1>1 DEF Wanted
<1>3. r.selected = x /\ "selected" \in DOMAIN r
    BY DEF NoResult
<1> HIDE DEF r
<1>4. Decided(OrDefault(r).selected)
    BY <1>2, <1>3, OrDefaultDecided
<1> QED BY <1>1, <1>4

LEMMA NextKeeps == IInv /\ [Next]_vars => IInv'
<1> SUFFICES ASSUME IInv, [Next]_vars PROVE IInv'
    OBVIOUS
<1>0. node \in ConditionNodes /\ node' = node
    BY DEF IInv, Next, EvaluateRule, SelectTarget, FieldMissing, EvaluateSimple, Misconfigured,
           Continue, vars
<1>1. Candidates' = Candidates /\ Wanted' = Wanted /\ Spare' = Spare /\ \A k : Match(k)' = Match(k)
    BY <1>0, SameNode
<1>2. SUFFICES ASSUME node.kind \in Routers
               PROVE  /\ i' \in Nat \ {0} /\ Collected(i, matched)'
                      /\ pc' # "rules" => Decided(result.selected)'
    BY <1>0 DEF IInv
<1>3. i \in Nat \ {0} /\ Collected(i, matched) /\ (pc # "rules" => Decided(result.selected))
    BY <1>2 DEF IInv
<1>4. ASSUME i' = i, matched' = matched PROVE Collected(i, matched)'
    BY <1>1, <1>3, <1>4 DEF Collected, Places
<1>5. ASSUME Decided(result'.selected) PROVE Decided(result.selected)'
    BY <1>1, <1>5 DEF Decided
<1>6. CASE EvaluateRule
    <2>1. /\ pc' = pc /\ pc = "rules" /\ i' = i + 1
          /\ matched' = IF node.rules[i].enabled /\ RuleHit(node.rules[i]).matched
                        THEN Append(matched, Match(i)) ELSE matched
          /\ i <= Len(node.rules)
        BY <1>6 DEF EvaluateRule, Match
    <2>2. i \in DOMAIN node.rules
        <3>1. node.rules \in Seq(RoutingRule) \/ node.rules \in Seq(MatchingRule)
            BY <1>0, <1>2, RoutingAssumption DEF Routers
        <3> QED BY <1>3, <2>1, <3>1
    <2>3. matched' = IF i \in Candidates THEN Append(matched, Match(i)) ELSE matched
        BY <2>1, <2>2 DEF Candidates
    <2>4. PICK s : s = matched'
        OBVIOUS
    <2>5. Collected(i + 1, s)
        BY <1>0, <1>2, <1>3, <2>3, <2>4, OneMoreCollected
    <2>6. Collected(i, matched)'
        <3>1. PICK at : Places(at, i + 1, s)
            BY <2>5 DEF Collected
        <3>2. Places(at, i, matched)'
            BY <1>1, <2>1, <2>4, <3>1 DEF Places
        <3>3. s \in Seq({Match(k) : k \in Candidates})
            BY <2>5 DEF Collected
        <3>4. matched' \in Seq({Match(k)' : k \in Candidates'})
            BY <1>1, <2>4, <3>3
        <3> QED BY <3>2, <3>4 DEF Collected
    <2> QED BY <1>3, <2>1, <2>6
<1>7. CASE SelectTarget
    BY <1>3, <1>4, <1>5, <1>7, SelectionDecided DEF SelectTarget
<1>8. CASE FieldMissing
    BY <1>3, <1>4, <1>5, <1>8, MissingDecided DEF FieldMissing
<1>9. CASE Continue
    BY <1>3, <1>4, <1>5, <1>9 DEF Continue
<1>10. CASE UNCHANGED vars
    BY <1>3, <1>4, <1>5, <1>10 DEF vars
<1>11. ~EvaluateSimple /\ ~Misconfigured
    BY <1>2 DEF EvaluateSimple, Misconfigured, Routers
<1> QED BY <1>6, <1>7, <1>8, <1>9, <1>10, <1>11 DEF Next

-----------------------------------------------------------------------------
(* With a default that exists *)

\* The target of the first edge that suits is one of the targets
LEMMA FirstOfEdges ==
    ASSUME node \in ConditionNodes, NEW I, I \subseteq 1..Len(node.edges), NEW k,
           k = IF I # {} THEN Min(I) ELSE 0, k # 0
    PROVE  k \in DOMAIN node.edges
<1>1. node.edges \in Seq(RoutingEdge)
    BY RoutingAssumption
<1>2. I \subseteq Nat /\ I # {}
    BY <1>1
<1>3. k \in I
    BY <1>2, MinIs
<1> QED BY <1>1, <1>3

Safe ==
    /\ node.enableFallback = "yes" /\ Spare \in Existing
    /\ \A k \in DOMAIN node.edges : node.edges[k].target \in Existing

LEMMA FollowedExists ==
    ASSUME node \in ConditionNodes, Safe, Followed # <<>>
    PROVE  Followed[1] \in Existing
<1>1. ASSUME NEW I, I \subseteq 1..Len(node.edges), NEW k, k = IF I # {} THEN Min(I) ELSE 0, k # 0
      PROVE  node.edges[k].target \in Existing
    BY <1>1, FirstOfEdges DEF Safe
<1> DEFINE To(x) == x # <<>> => x[1] \in Existing
<1>2. To(FirstTo(LAMBDA e : e.condition = IF result.holds THEN "ifTrue" ELSE "ifFalse"))
    BY <1>1 DEF FirstTo, SelectInSeq
<1>3. To(FirstTo(LAMBDA e : e.condition \in {"default", "none"} \/ e.label))
    BY <1>1 DEF FirstTo, SelectInSeq
<1>4. To(Selected)
    <2> DEFINE s == result.selected
               direct == FirstTo(LAMBDA e : e.target = s)
               special == FirstTo(LAMBDA e :
                              e.condition = "selectedNode" \/ (e.condition = "names" /\ e.names = s))
    <2>1. To(direct)
        BY <1>1 DEF FirstTo, SelectInSeq
    <2>2. To(special)
        BY <1>1 DEF FirstTo, SelectInSeq
    <2>3. Selected = IF s = None THEN <<>>
                     ELSE IF direct # <<>> THEN direct
                     ELSE IF special # <<>> THEN special
                     ELSE IF s \in Existing THEN <<s>> ELSE <<>>
        BY DEF Selected
    <2> HIDE DEF s, direct, special
    <2> QED BY <2>1, <2>2, <2>3
<1> DEFINE branch == FirstTo(LAMBDA e : e.condition = IF result.holds THEN "ifTrue" ELSE "ifFalse")
           default == FirstTo(LAMBDA e : e.condition \in {"default", "none"} \/ e.label)
<1>5. Followed = IF node.kind = "simple" THEN branch
                 ELSE IF Selected = <<>> /\ result.usedDefault THEN default ELSE Selected
    BY DEF Followed
<1> HIDE DEF branch, default
<1>6. To(branch) /\ To(default)
    BY <1>2, <1>3 DEF branch, default
<1> QED BY <1>4, <1>5, <1>6

\* Neither an error in the rules nor one in the node fails it
LEMMA FallbackKept == node \in ConditionNodes /\ FallbackHolds /\ [Next]_vars => FallbackHolds'
<1> SUFFICES ASSUME node \in ConditionNodes, FallbackHolds, [Next]_vars PROVE FallbackHolds'
    OBVIOUS
<1>0. node' = node
    BY DEF Next, EvaluateRule, SelectTarget, FieldMissing, EvaluateSimple, Misconfigured, Continue, vars
<1>1. Safe' <=> Safe
    BY <1>0 DEF Safe, Spare
<1>2. FallbackHolds <=> (Safe => pc # "failed")
    BY DEF FallbackHolds, Safe
<1>3. FallbackHolds' <=> (Safe' => pc' # "failed")
    BY DEF FallbackHolds, Safe
<1>4. SUFFICES ASSUME Safe PROVE pc' # "failed"
    BY <1>1, <1>3
<1>5. pc # "failed"
    BY <1>2, <1>4
<1> DEFINE target == IF node.default # None THEN node.default ELSE node.fallback
<1>6. target \in Existing /\ target # None /\ node.enableFallback = "yes"
    BY <1>4, RoutingAssumption DEF Safe, Spare
<1>7. CASE Misconfigured
    BY <1>6, <1>7 DEF Misconfigured
<1>8. CASE Continue
    <2>1. LastResort = <<target>>
        BY <1>6 DEF LastResort
    <2> DEFINE to == IF Followed # <<>> THEN Followed ELSE LastResort
    <2>2. to # <<>> /\ to[1] \in Existing
        BY <1>4, <1>6, <2>1, FollowedExists
    <2>3. CASE node.edges = <<>>
        BY <1>8, <2>3 DEF Continue
    <2>4. CASE node.edges # <<>>
        <3>1. pc' = CASE node.edges = <<>> -> "completed"
                      [] node.edges # <<>> /\ to # <<>> /\ to[1] \in Existing -> "routed"
                      [] OTHER -> "failed"
            BY <1>8, <2>2, <2>4 DEF Continue
        <3> HIDE DEF to
        <3> QED BY <2>2, <2>4, <3>1
    <2> QED BY <2>3, <2>4
<1>9. CASE EvaluateRule \/ SelectTarget \/ FieldMissing \/ EvaluateSimple \/ UNCHANGED vars
    BY <1>5, <1>9 DEF EvaluateRule, SelectTarget, FieldMissing, EvaluateSimple, vars
<1> QED BY <1>7, <1>8, <1>9 DEF Next

-----------------------------------------------------------------------------

\* Whatever the rules, their scores and the context: the rule that wins is the best of
\* those that match, the earliest of equals, and without one the default is taken
\* (executeSmartRouting, executeValueMatching).
THEOREM BestRuleChosen == Spec => []BestRuleWins
<1>1. Init => IInv
    BY InitEstablishes
<1>2. IInv /\ [Next]_vars => IInv'
    BY NextKeeps
<1>3. IInv => BestRuleWins
    BY DEF IInv, BestRuleWins, Decided, Routers
<1> QED BY <1>1, <1>2, <1>3, PTL DEF Spec

\* With enableFallback, a default that exists and edges to nodes that exist, a condition
\* node never fails, whatever its rules and its configuration (executeConditionNode,
\* continueToNextNode).
THEOREM FallbackSuffices == Spec => []FallbackHolds
<1>1. Init => node \in ConditionNodes /\ FallbackHolds
    BY DEF Init, FallbackHolds
<1>2. node \in ConditionNodes /\ [Next]_vars => (node \in ConditionNodes)'
    BY DEF Next, EvaluateRule, SelectTarget, FieldMissing, EvaluateSimple, Misconfigured, Continue, vars
<1> QED BY <1>1, <1>2, FallbackKept, PTL DEF Spec

-----------------------------------------------------------------------------
(* An edit changes a distance by one at most *)

\* Induction over the cells of a table
LEMMA GridInduction ==
    ASSUME NEW M \in Nat, NEW N \in Nat, NEW G,
           \A n \in 0..N : <<0, n>> \in G,
           \A m \in 0..M : <<m, 0>> \in G,
           \A m \in 1..M : \A n \in 1..N :
               <<m - 1, n>> \in G /\ <<m, n - 1>> \in G /\ <<m - 1, n - 1>> \in G => <<m, n>> \in G
    PROVE  \A m \in 0..M : \A n \in 0..N : <<m, n>> \in G
<1> DEFINE Row(m) == \A n \in 0..N : <<m, n>> \in G
           T == {m \in Nat : m <= M => Row(m)}
<1>1. 0 \in T
    OBVIOUS
<1>2. ASSUME NEW m \in Nat, m \in T PROVE m + 1 \in T
    <2>1. SUFFICES ASSUME m + 1 <= M PROVE Row(m + 1)
        OBVIOUS
    <2>2. m + 1 \in 1..M /\ (m + 1) - 1 = m /\ Row(m)
        BY <1>2, <2>1
    <2> DEFINE U == {n \in Nat : n <= N => <<m + 1, n>> \in G}
    <2>3. 0 \in U
        BY <2>2
    <2>4. ASSUME NEW n \in Nat, n \in U PROVE n + 1 \in U
        <3>1. SUFFICES ASSUME n + 1 <= N PROVE <<m + 1, n + 1>> \in G
            OBVIOUS
        <3>2. n + 1 \in 1..N /\ (n + 1) - 1 = n /\ n \in 0..N /\ n + 1 \in 0..N
            BY <3>1
        <3>3. <<m + 1, n>> \in G /\ <<m, n>> \in G /\ <<m, n + 1>> \in G
            BY <2>2, <2>4, <3>2
        <3> QED BY <2>2, <3>2, <3>3
    <2>5. Nat \subseteq U
        <3> HIDE DEF U
        <3> QED BY <2>3, <2>4, Induction
    <2> QED BY <2>5
<1>3. Nat \subseteq T
    <2> HIDE DEF T
    <2> QED BY <1>1, <1>2, Induction
<1>4. ASSUME NEW m \in 0..M PROVE Row(m)
    <2>1. m \in T /\ m <= M
        BY <1>3
    <2> QED BY <2>1
<1> QED BY <1>4

\* x is the least of what the cells above, to the left and before both allow
LeastOf(x, up, left, corner, cost) ==
    /\ x \in Nat /\ up \in Nat /\ left \in Nat /\ corner \in Nat /\ cost \in {0, 1}
    /\ x <= up + 1 /\ x <= left + 1 /\ x <= corner + cost
    /\ \/ x = up + 1
       \/ x = left + 1
       \/ x = corner + cost

\* Two steps of at most one each add up to two
LEMMA TwoSteps ==
    ASSUME NEW a \in Nat, NEW b \in Nat, NEW x \in Nat, NEW y \in Nat,
           b <= a + 1, a <= y + 1, x = y + 1
    PROVE  b <= x + 1
OBVIOUS

LEMMA LeastEqual ==
    ASSUME NEW x, NEW y, NEW up, NEW left, NEW corner, NEW cost,
           LeastOf(x, up, left, corner, cost), LeastOf(y, up, left, corner, cost)
    PROVE  x = y
BY DEF LeastOf

LEMMA LeastClose ==
    ASSUME NEW x, NEW up, NEW left, NEW corner, NEW cost, LeastOf(x, up, left, corner, cost),
           NEW y, NEW up2, NEW left2, NEW corner2, NEW cost2, LeastOf(y, up2, left2, corner2, cost2),
           up2 <= up + 1, left2 <= left + 1, corner2 + cost2 <= corner + cost + 1
    PROVE  y <= x + 1
<1>1. CASE x = up + 1
    BY <1>1 DEF LeastOf
<1>2. CASE x = left + 1
    BY <1>2 DEF LeastOf
<1>3. CASE x = corner + cost
    BY <1>3 DEF LeastOf
<1> QED BY <1>1, <1>2, <1>3 DEF LeastOf

LEMMA CostsClose ==
    ASSUME NEW x \in Nat, NEW y \in Nat, NEW c \in Nat, x <= y + 1
    PROVE  x + c <= y + c + 1
OBVIOUS

\* A table, cell by cell
LEMMA Cells ==
    ASSUME NEW s, NEW t, Len(s) \in Nat, Len(t) \in Nat, NEW E, IsTable(s, t, E)
    PROVE  /\ \A m \in 0..Len(s) : \A n \in 0..Len(t) : E[m][n] \in Nat
           /\ \A n \in 0..Len(t) : E[0][n] = n
           /\ \A m \in 0..Len(s) : E[m][0] = m
<1>1. \A m \in 0..Len(s) : E[m] \in Rows(Len(t))
    BY DEF IsTable
<1>2. ASSUME NEW m \in 0..Len(s) PROVE E[m][0] = m
    <2>1. m = 0 \/ m \in 1..Len(s)
        OBVIOUS
    <2> QED BY <2>1 DEF IsTable, IsNextRow
<1> QED BY <1>1, <1>2 DEF IsTable, Rows

LEMMA CellRule ==
    ASSUME NEW s, NEW t, Len(s) \in Nat, Len(t) \in Nat, NEW E, IsTable(s, t, E),
           NEW m \in 1..Len(s), NEW n \in 1..Len(t)
    PROVE  LeastOf(E[m][n], E[m - 1][n], E[m][n - 1], E[m - 1][n - 1], ReplaceCost(s[m], t[n]))
<1>1. m \in 0..Len(s) /\ m - 1 \in 0..Len(s) /\ n \in 0..Len(t) /\ n - 1 \in 0..Len(t)
    OBVIOUS
<1>2. LeastCell(s, t, m, n, E[m - 1], E[m][n - 1], E[m][n])
    BY DEF IsTable, IsNextRow
<1>3. E[m][n] \in Nat /\ E[m - 1][n] \in Nat /\ E[m][n - 1] \in Nat /\ E[m - 1][n - 1] \in Nat
    BY <1>1, Cells
<1>4. ReplaceCost(s[m], t[n]) \in {0, 1}
    BY DEF ReplaceCost
<1> QED BY <1>2, <1>3, <1>4 DEF LeastCell, LeastOf

LEMMA CostIs ==
    \A a, b : ReplaceCost(a, b) \in {0, 1}
BY DEF ReplaceCost

\* t is u with another letter at k
Replaced(u, t, k) ==
    /\ Len(u) = Len(t) /\ k \in 1..Len(t)
    /\ \A j \in 1..Len(t) : j # k => u[j] = t[j]
\* t is u with a letter more, at k
Inserted(u, t, k) ==
    /\ Len(t) = Len(u) + 1 /\ k \in 1..Len(t)
    /\ \A j \in 1..Len(u) : u[j] = IF j < k THEN t[j] ELSE t[j + 1]

LEMMA ReplacedClose ==
    ASSUME NEW s, NEW u, NEW t, Len(s) \in Nat, Len(u) \in Nat, Len(t) \in Nat,
           NEW k, Replaced(u, t, k), NEW E, IsTable(s, u, E), NEW F, IsTable(s, t, F)
    PROVE  F[Len(s)][Len(t)] <= E[Len(s)][Len(u)] + 1
<1> DEFINE M == Len(s)
           N == Len(t)
           Close(m, n) == /\ F[m][n] <= E[m][n] + 1
                          /\ n < k => F[m][n] = E[m][n]
           G == {p \in (0..M) \X (0..N) : Close(p[1], p[2])}
<1>0. M \in Nat /\ N \in Nat /\ Len(u) = N /\ k \in 1..N
    BY DEF Replaced
<1>1. \A n \in 0..N : <<0, n>> \in G
    BY <1>0, Cells
<1>2. \A m \in 0..M : <<m, 0>> \in G
    BY <1>0, Cells
<1>3. ASSUME NEW m \in 1..M, NEW n \in 1..N,
             <<m - 1, n>> \in G, <<m, n - 1>> \in G, <<m - 1, n - 1>> \in G
      PROVE  <<m, n>> \in G
    <2> DEFINE c == ReplaceCost(s[m], u[n])
               d == ReplaceCost(s[m], t[n])
    <2>1. LeastOf(E[m][n], E[m - 1][n], E[m][n - 1], E[m - 1][n - 1], c)
        BY <1>0, CellRule
    <2>2. LeastOf(F[m][n], F[m - 1][n], F[m][n - 1], F[m - 1][n - 1], d)
        BY <1>0, CellRule
    <2>3. n # k => c = d
        BY <1>0 DEF Replaced
    <2>4. c \in {0, 1} /\ d \in {0, 1}
        BY CostIs
    <2>5. Close(m - 1, n) /\ Close(m, n - 1) /\ Close(m - 1, n - 1)
        BY <1>3
    <2>0. m \in 0..M /\ n \in 0..N /\ m \in Int /\ n \in Int /\ k \in Int
        BY <1>0
    <2> HIDE DEF c, d
    <2>6. CASE n < k
        <3>1. /\ F[m - 1][n] = E[m - 1][n] /\ F[m][n - 1] = E[m][n - 1]
              /\ F[m - 1][n - 1] = E[m - 1][n - 1] /\ c = d
            BY <2>0, <2>3, <2>5, <2>6
        <3>2. F[m][n] = E[m][n]
            BY <2>1, <2>2, <3>1, LeastEqual
        <3>3. E[m][n] \in Nat
            BY <2>1 DEF LeastOf
        <3> QED BY <2>0, <3>2, <3>3
    <2>7. CASE n >= k
        <3>1. F[m - 1][n - 1] + d <= E[m - 1][n - 1] + c + 1
            <4>1. F[m - 1][n - 1] \in Nat /\ E[m - 1][n - 1] \in Nat
                BY <2>1, <2>2 DEF LeastOf
            <4>2. CASE n = k
                <5>1. F[m - 1][n - 1] = E[m - 1][n - 1]
                    BY <2>0, <2>5, <4>2
                <5> QED BY <2>4, <4>1, <5>1
            <4>3. CASE n # k
                <5>1. F[m - 1][n - 1] <= E[m - 1][n - 1] + 1 /\ c = d
                    BY <2>3, <2>5, <4>3
                <5> QED BY <2>4, <4>1, <5>1
            <4> QED BY <4>2, <4>3
        <3>2. F[m][n] <= E[m][n] + 1
            BY <2>1, <2>2, <2>5, <3>1, LeastClose
        <3> QED BY <2>0, <2>7, <3>2
    <2> QED BY <2>0, <2>6, <2>7
<1>4. \A m \in 0..M : \A n \in 0..N : <<m, n>> \in G
    <2> HIDE DEF M, N, G
    <2> QED BY <1>0, <1>1, <1>2, <1>3, GridInduction
<1>5. <<M, N>> \in G
    BY <1>0, <1>4
<1> QED BY <1>0, <1>5

LEMMA InsertedClose ==
    ASSUME NEW s, NEW u, NEW t, Len(s) \in Nat, Len(u) \in Nat, Len(t) \in Nat,
           NEW k, Inserted(u, t, k), NEW E, IsTable(s, u, E), NEW F, IsTable(s, t, F)
    PROVE  /\ F[Len(s)][Len(t)] <= E[Len(s)][Len(u)] + 1
           /\ E[Len(s)][Len(u)] <= F[Len(s)][Len(t)] + 1
<1> DEFINE M == Len(s)
           N == Len(t)
           Close(m, n) == /\ n < k => F[m][n] = E[m][n]
                          /\ n >= k => F[m][n] <= E[m][n - 1] + 1 /\ E[m][n - 1] <= F[m][n] + 1
           G == {p \in (0..M) \X (0..N) : Close(p[1], p[2])}
<1>0. M \in Nat /\ N \in Nat /\ Len(u) = N - 1 /\ k \in 1..N
    BY DEF Inserted
<1>1. \A n \in 0..N : <<0, n>> \in G
    <2>1. \A n \in 0..N : F[0][n] = n
        BY Cells
    <2>2. \A n \in 0..(N - 1) : E[0][n] = n
        BY <1>0, Cells
    <2>3. ASSUME NEW n \in 0..N PROVE Close(0, n)
        <3>1. CASE n < k
            BY <1>0, <2>1, <2>2, <3>1
        <3>2. CASE n >= k
            <4>1. n - 1 \in 0..(N - 1)
                BY <1>0, <3>2
            <4> QED BY <1>0, <2>1, <2>2, <3>2, <4>1
        <3> QED BY <1>0, <3>1, <3>2
    <2> QED BY <1>0, <2>3
<1>2. \A m \in 0..M : <<m, 0>> \in G
    <2>1. \A m \in 0..M : F[m][0] = m /\ E[m][0] = m
        BY <1>0, Cells
    <2> QED BY <1>0, <2>1
<1>3. ASSUME NEW m \in 1..M, NEW n \in 1..N,
             <<m - 1, n>> \in G, <<m, n - 1>> \in G, <<m - 1, n - 1>> \in G
      PROVE  <<m, n>> \in G
    <2> DEFINE d == ReplaceCost(s[m], t[n])
    <2>1. LeastOf(F[m][n], F[m - 1][n], F[m][n - 1], F[m - 1][n - 1], d)
        BY <1>0, CellRule
    <2>2. d \in {0, 1}
        BY CostIs
    <2>3. Close(m - 1, n) /\ Close(m, n - 1) /\ Close(m - 1, n - 1)
        BY <1>3
    <2>4. m \in 0..M /\ n \in 0..N /\ m - 1 \in 0..M /\ m \in Int /\ n \in Int /\ k \in Int
        BY <1>0
    <2>5. CASE n < k
        <3> DEFINE c == ReplaceCost(s[m], u[n])
        <3>1. n \in 1..Len(u) /\ c = d
            BY <1>0, <2>5 DEF Inserted
        <3>2. LeastOf(E[m][n], E[m - 1][n], E[m][n - 1], E[m - 1][n - 1], c)
            BY <1>0, <3>1, CellRule
        <3>3. F[m - 1][n] = E[m - 1][n] /\ F[m][n - 1] = E[m][n - 1] /\ F[m - 1][n - 1] = E[m - 1][n - 1]
            BY <2>3, <2>4, <2>5
        <3> HIDE DEF c, d
        <3>4. F[m][n] = E[m][n]
            BY <2>1, <3>1, <3>2, <3>3, LeastEqual
        <3> QED BY <2>4, <2>5, <3>4
    <2>6. CASE n = k
        <3>1. n - 1 \in 0..Len(u)
            BY <1>0, <2>4
        <3>2. E[m][n - 1] \in Nat /\ E[m - 1][n - 1] \in Nat
            <4>1. Len(u) \in Nat /\ m \in 0..Len(s) /\ m - 1 \in 0..Len(s)
                BY <2>4
            <4> QED BY <3>1, <4>1, Cells
        <3>3. E[m][n - 1] <= E[m - 1][n - 1] + 1
            <4>1. CASE n - 1 = 0
                <5>1. E[m][0] = m /\ E[m - 1][0] = m - 1
                    BY <1>0, <2>4, Cells
                <5> QED BY <2>4, <4>1, <5>1
            <4>2. CASE n - 1 # 0
                <5>1. n - 1 \in 1..Len(u)
                    BY <3>1, <4>2
                <5>2. LeastOf(E[m][n - 1], E[m - 1][n - 1], E[m][n - 1 - 1], E[m - 1][n - 1 - 1],
                              ReplaceCost(s[m], u[n - 1]))
                    BY <1>0, <5>1, CellRule
                <5> QED BY <5>2 DEF LeastOf
            <4> QED BY <4>1, <4>2
        <3>4. F[m][n - 1] = E[m][n - 1] /\ F[m - 1][n - 1] = E[m - 1][n - 1]
              /\ E[m - 1][n - 1] <= F[m - 1][n] + 1
            BY <2>3, <2>4, <2>6
        <3> HIDE DEF d
        <3>5. F[m][n] <= E[m][n - 1] + 1
            BY <2>1, <3>4 DEF LeastOf
        <3>6. E[m][n - 1] <= F[m][n] + 1
            <4>1. F[m][n] \in Nat /\ F[m - 1][n] \in Nat
                BY <2>1 DEF LeastOf
            <4>2. CASE F[m][n] = F[m - 1][n] + 1
                <5>1. E[m - 1][n - 1] <= F[m - 1][n] + 1
                    BY <3>4
                <5> DEFINE a == E[m - 1][n - 1]
                           b == E[m][n - 1]
                           x == F[m][n]
                           y == F[m - 1][n]
                <5>2. a \in Nat /\ b \in Nat /\ x \in Nat /\ y \in Nat
                    BY <3>2, <4>1
                <5>3. b <= a + 1 /\ a <= y + 1 /\ x = y + 1
                    BY <3>3, <4>2, <5>1
                <5> HIDE DEF a, b, x, y
                <5>4. b <= x + 1
                    BY <5>2, <5>3, TwoSteps
                <5> QED BY <5>4 DEF b, x
            <4>3. CASE F[m][n] = F[m][n - 1] + 1
                BY <3>2, <3>4, <4>1, <4>3
            <4>4. CASE F[m][n] = F[m - 1][n - 1] + d
                BY <2>2, <3>2, <3>3, <3>4, <4>1, <4>4
            <4> QED BY <2>1, <4>2, <4>3, <4>4 DEF LeastOf
        <3> QED BY <2>4, <2>6, <3>5, <3>6
    <2>7. CASE n > k
        <3> DEFINE b == n - 1
                   c == ReplaceCost(s[m], u[b])
        <3>0. b \in 1..Len(u) /\ b + 1 = n /\ ~ (b < k)
            BY <1>0, <2>4, <2>7
        <3>1. c = d
            <4>1. u[b] = t[b + 1]
                BY <3>0 DEF Inserted
            <4> QED BY <3>0, <4>1
        <3>2. LeastOf(E[m][b], E[m - 1][b], E[m][b - 1], E[m - 1][b - 1], c)
            <4> HIDE DEF b
            <4> QED BY <1>0, <3>0, CellRule
        <3>3. /\ F[m - 1][n] <= E[m - 1][b] + 1 /\ E[m - 1][b] <= F[m - 1][n] + 1
              /\ F[m][n - 1] <= E[m][b - 1] + 1 /\ E[m][b - 1] <= F[m][n - 1] + 1
              /\ F[m - 1][n - 1] <= E[m - 1][b - 1] + 1 /\ E[m - 1][b - 1] <= F[m - 1][n - 1] + 1
            BY <2>3, <2>4, <2>7
        <3> HIDE DEF b, c, d
        <3>4. /\ F[m - 1][n - 1] + d <= E[m - 1][b - 1] + c + 1
              /\ E[m - 1][b - 1] + c <= F[m - 1][n - 1] + d + 1
            <4>1. F[m - 1][n - 1] \in Nat /\ E[m - 1][b - 1] \in Nat
                BY <2>1, <3>2 DEF LeastOf
            <4>2. F[m - 1][n - 1] <= E[m - 1][b - 1] + 1 /\ E[m - 1][b - 1] <= F[m - 1][n - 1] + 1
                BY <3>3
            <4>3. d \in Nat
                BY <2>2
            <4> QED BY <3>1, <4>1, <4>2, <4>3, CostsClose
        <3>5. F[m][n] <= E[m][b] + 1
            BY <2>1, <3>2, <3>3, <3>4, LeastClose
        <3>6. E[m][b] <= F[m][n] + 1
            BY <2>1, <3>2, <3>3, <3>4, LeastClose
        <3> QED BY <2>4, <2>7, <3>5, <3>6 DEF b
    <2>8. Close(m, n)
        BY <2>4, <2>5, <2>6, <2>7
    <2> QED BY <2>4, <2>8
<1>4. \A m \in 0..M : \A n \in 0..N : <<m, n>> \in G
    <2> HIDE DEF M, N, G
    <2> QED BY <1>0, <1>1, <1>2, <1>3, GridInduction
<1>5. <<M, N>> \in G
    BY <1>0, <1>4
<1>6. N >= k /\ N \in Int
    BY <1>0
<1> QED BY <1>0, <1>5, <1>6

-----------------------------------------------------------------------------
(* Edits of texts *)

LEMMA RemoveAtIs ==
    ASSUME NEW S, NEW s \in Seq(S), NEW k \in 1..Len(s)
    PROVE  /\ RemoveAt(s, k) \in Seq(S) /\ Len(RemoveAt(s, k)) = Len(s) - 1
           /\ \A j \in 1..(Len(s) - 1) : RemoveAt(s, k)[j] = IF j < k THEN s[j] ELSE s[j + 1]
<1> DEFINE a == SubSeq(s, 1, k - 1)
           c == SubSeq(s, k + 1, Len(s))
<1>0. Len(s) \in Nat /\ k \in Nat /\ (k - 1) + (Len(s) - k) = Len(s) - 1
    OBVIOUS
<1>1. a \in Seq(S) /\ Len(a) = k - 1 /\ \A j \in 1..(k - 1) : a[j] = s[j]
    BY SubSeqProperties
<1>2. c \in Seq(S) /\ Len(c) = Len(s) - k /\ \A j \in 1..(Len(s) - k) : c[j] = s[k + j]
    <2>1. /\ k + 1 \in 1..(Len(s) + 1) /\ Len(s) \in k..Len(s) /\ Len(s) - (k + 1) + 1 = Len(s) - k
          /\ \A j \in 1..(Len(s) - k) : (k + 1) + j - 1 = k + j
        BY <1>0
    <2>2. c \in Seq(S) /\ Len(c) = Len(s) - k
        <3> HIDE DEF c
        <3>1. \A j \in (k + 1)..Len(s) : s[j] \in S
            BY <1>0
        <3>0. k + 1 \in Int /\ Len(s) \in Int
            BY <1>0
        <3>2. c \in Seq(S) /\ Len(c) = IF k + 1 <= Len(s) THEN Len(s) - (k + 1) + 1 ELSE 0
            BY <3>0, <3>1, SubSeqProperties DEF c
        <3> QED BY <3>2
    <2>3. \A j \in 1..(Len(s) - k) : c[j] = s[k + j]
        BY <1>0, <2>1, SubSeqProperties
    <2> QED BY <2>2, <2>3
<1> HIDE DEF a, c
<1>3. /\ a \o c \in Seq(S) /\ Len(a \o c) = Len(a) + Len(c)
      /\ \A j \in 1..(Len(a) + Len(c)) : (a \o c)[j] = IF j <= Len(a) THEN a[j] ELSE c[j - Len(a)]
    BY <1>1, <1>2, ConcatProperties
<1>4. Len(a) + Len(c) = Len(s) - 1
    BY <1>0, <1>1, <1>2
<1>5. ASSUME NEW j \in 1..(Len(s) - 1) PROVE (a \o c)[j] = IF j < k THEN s[j] ELSE s[j + 1]
    <2>1. CASE j < k
        BY <1>0, <1>1, <1>3, <1>4, <2>1
    <2>2. CASE ~ (j < k)
        <3>1. j - (k - 1) \in 1..(Len(s) - k) /\ k + (j - (k - 1)) = j + 1 /\ ~ (j <= k - 1)
            BY <1>0, <2>2
        <3>2. (a \o c)[j] = c[j - (k - 1)]
            BY <1>1, <1>3, <1>4, <3>1
        <3> QED BY <1>2, <2>2, <3>1, <3>2
    <2> QED BY <2>1, <2>2
<1>6. RemoveAt(s, k) = a \o c
    BY DEF RemoveAt, a, c
<1> QED BY <1>3, <1>4, <1>5, <1>6

\* ... in other words
LEMMA RemovedIs ==
    ASSUME NEW u \in Seq(Letters), NEW t \in Seq(Letters), Len(t) = Len(u) + 1, NEW k \in 1..Len(t)
    PROVE  RemoveAt(t, k) = u <=> Inserted(u, t, k)
<1> DEFINE v == RemoveAt(t, k)
<1>0. Len(u) \in Nat /\ Len(t) - 1 = Len(u)
    OBVIOUS
<1>1. /\ v \in Seq(Letters) /\ Len(v) = Len(u)
      /\ \A j \in 1..Len(u) : v[j] = IF j < k THEN t[j] ELSE t[j + 1]
    BY <1>0, RemoveAtIs
<1> HIDE DEF v
<1>2. v = u => Inserted(u, t, k)
    BY <1>1 DEF Inserted
<1>3. Inserted(u, t, k) => v = u
    BY <1>0, <1>1, SeqEqual DEF Inserted
<1> QED BY <1>2, <1>3 DEF v

LEMMA OneEditIs ==
    ASSUME NEW u \in Seq(Letters), NEW t \in Seq(Letters)
    PROVE  OneEdit(u, t) <=> \/ \E k : Replaced(u, t, k) /\ u[k] # t[k]
                             \/ \E k : Inserted(u, t, k)
                             \/ \E k : Inserted(t, u, k)
<1> DEFINE D == {k \in DOMAIN u : u[k] # t[k]}
<1>0. Len(u) \in Nat /\ Len(t) \in Nat /\ DOMAIN u = 1..Len(u) /\ DOMAIN t = 1..Len(t)
    OBVIOUS
<1>1. IsFiniteSet(D)
    <2>1. IsFiniteSet(1..Len(u))
        BY <1>0, FS_Interval
    <2>2. D \in SUBSET (1..Len(u))
        BY <1>0
    <2> QED BY <2>1, <2>2, FS_Subset
<1>2. Cardinality(D) = 1 <=> \E k : D = {k}
    BY <1>1, FS_Singleton
<1>3. Len(u) = Len(t) => ((\E k : D = {k}) <=> \E k : Replaced(u, t, k) /\ u[k] # t[k])
    <2> SUFFICES ASSUME Len(u) = Len(t)
                 PROVE  (\E k : D = {k}) <=> \E k : Replaced(u, t, k) /\ u[k] # t[k]
        OBVIOUS
    <2>1. ASSUME NEW k, D = {k} PROVE Replaced(u, t, k) /\ u[k] # t[k]
        <3>1. k \in D
            BY <2>1
        <3>2. \A j \in 1..Len(t) : j # k => j \notin D
            BY <2>1
        <3> QED BY <1>0, <3>1, <3>2 DEF Replaced
    <2>2. ASSUME NEW k, Replaced(u, t, k), u[k] # t[k] PROVE D = {k}
        BY <1>0, <2>2 DEF Replaced
    <2> QED BY <2>1, <2>2
<1>4. (\E k : Replaced(u, t, k)) => Len(u) = Len(t)
    BY DEF Replaced
<1>5. ASSUME NEW v \in Seq(Letters), NEW w \in Seq(Letters)
      PROVE  (Len(w) = Len(v) + 1 /\ \E k \in DOMAIN w : RemoveAt(w, k) = v) <=> \E k : Inserted(v, w, k)
    <2>1. DOMAIN w = 1..Len(w)
        OBVIOUS
    <2>2. ASSUME Len(w) = Len(v) + 1, NEW k \in DOMAIN w, RemoveAt(w, k) = v PROVE Inserted(v, w, k)
        BY <2>1, <2>2, RemovedIs
    <2>3. ASSUME NEW k, Inserted(v, w, k)
          PROVE  Len(w) = Len(v) + 1 /\ k \in DOMAIN w /\ RemoveAt(w, k) = v
        <3>1. Len(w) = Len(v) + 1 /\ k \in 1..Len(w)
            BY <2>3 DEF Inserted
        <3> QED BY <2>1, <2>3, <3>1, RemovedIs
    <2> QED BY <2>2, <2>3
<1>7. OneEdit(u, t) <=> \/ Len(u) = Len(t) /\ Cardinality(D) = 1
                        \/ Len(t) = Len(u) + 1 /\ \E k \in DOMAIN t : RemoveAt(t, k) = u
                        \/ Len(u) = Len(t) + 1 /\ \E k \in DOMAIN u : RemoveAt(u, k) = t
    BY DEF OneEdit
<1> HIDE DEF D
<1> QED BY <1>2, <1>3, <1>4, <1>5, <1>7

\* An edit of a text moves its distance from another by one at most
LEMMA EditClose ==
    ASSUME NEW s \in Seq(Letters), NEW u \in Seq(Letters), NEW t \in Seq(Letters), OneEdit(u, t)
    PROVE  EditDistance(s, t) <= EditDistance(s, u) + 1
<1>0. Len(s) \in Nat /\ Len(u) \in Nat /\ Len(t) \in Nat
    OBVIOUS
<1>1. PICK E : IsTable(s, u, E) /\ EditDistance(s, u) = E[Len(s)][Len(u)]
    BY <1>0, TableExists
<1>2. PICK F : IsTable(s, t, F) /\ EditDistance(s, t) = F[Len(s)][Len(t)]
    BY <1>0, TableExists
<1>3. ASSUME NEW k, Replaced(u, t, k) PROVE EditDistance(s, t) <= EditDistance(s, u) + 1
    BY <1>0, <1>1, <1>2, <1>3, ReplacedClose
<1>4. ASSUME NEW k, Inserted(u, t, k) PROVE EditDistance(s, t) <= EditDistance(s, u) + 1
    BY <1>0, <1>1, <1>2, <1>4, InsertedClose
<1>5. ASSUME NEW k, Inserted(t, u, k) PROVE EditDistance(s, t) <= EditDistance(s, u) + 1
    BY <1>0, <1>1, <1>2, <1>5, InsertedClose
<1> QED BY <1>3, <1>4, <1>5, OneEditIs

\* A text is no edits away from itself
LEMMA SameDistance ==
    ASSUME NEW s \in Seq(Letters)
    PROVE  EditDistance(s, s) = 0
<1> DEFINE M == Len(s)
<1>0. M \in Nat
    OBVIOUS
<1>1. PICK E : IsTable(s, s, E) /\ EditDistance(s, s) = E[M][M]
    BY <1>0, TableExists
<1> HIDE DEF M
<1> DEFINE f == [m \in 0..M |-> E[m][m]]
<1>2. f[0] \in {0}
    BY <1>0, <1>1, Cells DEF M
<1>3. ASSUME NEW m \in 1..M, f[m - 1] \in {0} PROVE f[m] \in {0}
    <2>1. LeastOf(E[m][m], E[m - 1][m], E[m][m - 1], E[m - 1][m - 1], ReplaceCost(s[m], s[m]))
        BY <1>0, <1>1, CellRule DEF M
    <2>2. ReplaceCost(s[m], s[m]) = 0
        BY DEF ReplaceCost
    <2>3. E[m - 1][m - 1] = 0
        BY <1>0, <1>3
    <2>4. E[m][m] = 0
        BY <2>1, <2>2, <2>3 DEF LeastOf
    <2> QED BY <1>0, <2>4
<1>4. \A m \in 0..M : f[m] \in {0}
    <2> HIDE DEF f
    <2> QED BY <1>0, <1>2, <1>3, StaysIn
<1> QED BY <1>0, <1>1, <1>4

\* What EditsAway computes
IsAway(s, r) ==
    /\ r[0] = {s}
    /\ \A n \in 1..MaxText :
           r[n] = r[n - 1] \cup {t \in Texts : \E u \in r[n - 1] : OneEdit(u, t)}

LEMMA EditsAwayIs ==
    ASSUME NEW s \in Texts
    PROVE  IsAway(s, EditsAway[s])
<1> DEFINE More(v) == v \cup {t \in Texts : \E u \in v : OneEdit(u, t)}
           IsR(f) == f = [n \in 0..MaxText |-> IF n = 0 THEN {s} ELSE More(f[n - 1])]
           r == CHOOSE f : IsR(f)
           step == [n \in 1..MaxText |-> [v \in SUBSET Texts |-> More(v)]]
<1>0. MaxText \in Nat
    BY RoutingAssumption
<1>1. EditsAway[s] = r
    BY DEF EditsAway
<1>2. \A n \in 1..MaxText : \A v \in SUBSET Texts : step[n][v] = More(v) /\ More(v) \in SUBSET Texts
    OBVIOUS
<1> HIDE DEF More, step, r
<1>3. \E f : IsR(f)
    <2> HIDE DEF IsR
    <2>1. PICK f : Iterates(f, SUBSET Texts, {s}, MaxText, step)
        BY <1>0, <1>2, Recursion DEF Steps
    <2>2. ASSUME NEW n \in 0..MaxText, n # 0 PROVE f[n] = More(f[n - 1])
        <3>1. n \in 1..MaxText /\ n - 1 \in 0..MaxText
            BY <1>0, <2>2
        <3> QED BY <1>2, <2>1, <3>1 DEF Iterates
    <2>3. IsR(f)
        BY <1>0, <2>1, <2>2 DEF IsR, Iterates
    <2> QED BY <2>3
<1>4. IsR(r)
    <2> HIDE DEF IsR
    <2> QED BY <1>3 DEF r
<1>5. r[0] = {s}
    BY <1>0, <1>4
<1>6. ASSUME NEW n \in 1..MaxText PROVE r[n] = More(r[n - 1])
    <2>1. n \in 0..MaxText /\ n # 0
        BY <1>0
    <2> QED BY <1>4, <2>1
<1> QED BY <1>1, <1>5, <1>6 DEF IsAway, More

\* Few edits never make a large distance
LEMMA AwayIsNear ==
    ASSUME NEW s \in Texts, NEW n \in 0..MaxText, NEW t \in EditsAway[s][n]
    PROVE  t \in Texts /\ EditDistance(s, t) <= n
<1> DEFINE r == EditsAway[s]
           T == {m \in Nat : m <= MaxText => \A v \in r[m] : v \in Texts /\ EditDistance(s, v) <= m}
<1>0. MaxText \in Nat /\ s \in Seq(Letters) /\ IsAway(s, r)
    BY TextsAre, EditsAwayIs, RoutingAssumption
<1> HIDE DEF r
<1>1. 0 \in T
    <2>1. r[0] = {s} /\ EditDistance(s, s) = 0
        BY <1>0, SameDistance DEF IsAway
    <2> QED BY <2>1
<1>2. ASSUME NEW m \in Nat, m \in T PROVE m + 1 \in T
    <2>1. SUFFICES ASSUME m + 1 <= MaxText, NEW v \in r[m + 1]
                   PROVE  v \in Texts /\ EditDistance(s, v) <= m + 1
        OBVIOUS
    <2>2. m + 1 \in 1..MaxText /\ (m + 1) - 1 = m /\ m <= MaxText
        BY <1>0, <2>1
    <2>3. \A u \in r[m] : u \in Texts /\ EditDistance(s, u) <= m /\ EditDistance(s, u) \in Nat
        <3>1. \A u \in r[m] : u \in Texts /\ EditDistance(s, u) <= m
            BY <1>2, <2>2
        <3>2. \A u \in Texts : Len(u) \in Nat
            BY TextsAre
        <3> QED BY <1>0, <3>1, <3>2, EditDistanceIn
    <2>4. r[m + 1] = r[m] \cup {w \in Texts : \E u \in r[m] : OneEdit(u, w)}
        BY <1>0, <2>2 DEF IsAway
    <2>5. CASE v \in r[m]
        BY <2>3, <2>5
    <2>6. CASE v \in Texts /\ \E u \in r[m] : OneEdit(u, v)
        <3>1. PICK u \in r[m] : OneEdit(u, v)
            BY <2>6
        <3>2. u \in Seq(Letters) /\ v \in Seq(Letters)
            BY <2>3, <2>6, TextsAre
        <3>3. EditDistance(s, v) <= EditDistance(s, u) + 1 /\ EditDistance(s, v) \in Nat
            BY <1>0, <3>1, <3>2, EditClose, EditDistanceIn
        <3> QED BY <2>3, <2>6, <3>3
    <2> QED BY <2>1, <2>4, <2>5, <2>6
<1>3. Nat \subseteq T
    <2> HIDE DEF T
    <2> QED BY <1>1, <1>2, Induction
<1> QED BY <1>0, <1>3 DEF r

-----------------------------------------------------------------------------
(* A distance is the length of a path of edits *)

\* p leads from a to b by k edits, through texts of at most L letters
Leads(p, a, b, k, L) ==
    /\ p \in [0..k -> Seq(Letters)] /\ p[0] = a /\ p[k] = b
    /\ \A j \in 0..k : Len(p[j]) <= L
    /\ \A j \in 1..k : OneEdit(p[j - 1], p[j])
Path(a, b, k, L) == \E p : Leads(p, a, b, k, L)

LEMMA NoEdits ==
    ASSUME NEW a \in Seq(Letters)
    PROVE  Path(a, a, 0, Len(a))
<1> DEFINE p == [j \in 0..0 |-> a]
<1>1. p \in [0..0 -> Seq(Letters)] /\ \A j \in 0..0 : p[j] = a
    OBVIOUS
<1>2. 1..0 = {} /\ 0 \in 0..0 /\ Len(a) <= Len(a)
    OBVIOUS
<1> HIDE DEF p
<1>3. Leads(p, a, a, 0, Len(a))
    BY <1>1, <1>2 DEF Leads
<1> QED BY <1>3 DEF Path

\* An edit more at the end ...
LEMMA EditAfter ==
    ASSUME NEW a, NEW b, NEW k \in Nat, NEW L \in Nat, NEW N \in Nat, Path(a, b, k, L),
           NEW c \in Seq(Letters), OneEdit(b, c), L <= N, Len(c) <= N
    PROVE  Path(a, c, k + 1, N)
<1>1. PICK p : Leads(p, a, b, k, L)
    BY DEF Path
<1> DEFINE q == [j \in 0..(k + 1) |-> IF j = k + 1 THEN c ELSE p[j]]
<1>2. /\ \A j \in 0..k : q[j] = p[j] /\ q[j] \in Seq(Letters) /\ Len(q[j]) <= N
      /\ q[k + 1] = c
    <2>1. ASSUME NEW j \in 0..k PROVE q[j] = p[j] /\ q[j] \in Seq(Letters) /\ Len(q[j]) <= N
        <3>1. j \in 0..(k + 1) /\ j # k + 1
            OBVIOUS
        <3>2. q[j] = p[j] /\ p[j] \in Seq(Letters) /\ Len(p[j]) <= L
            BY <1>1, <3>1 DEF Leads
        <3>3. Len(p[j]) \in Nat
            BY <3>2
        <3> QED BY <3>2, <3>3
    <2>2. q[k + 1] = c
        OBVIOUS
    <2> HIDE DEF q
    <2> QED BY <2>1, <2>2
<1>3. q \in [0..(k + 1) -> Seq(Letters)]
    <2>1. \A j \in 0..(k + 1) : j = k + 1 \/ j \in 0..k
        OBVIOUS
    <2> QED BY <1>2, <2>1
<1> HIDE DEF q
<1>4. \A j \in 0..(k + 1) : Len(q[j]) <= N
    <2>1. \A j \in 0..(k + 1) : j = k + 1 \/ j \in 0..k
        OBVIOUS
    <2> QED BY <1>2, <2>1
<1>5. ASSUME NEW j \in 1..(k + 1) PROVE OneEdit(q[j - 1], q[j])
    <2>1. CASE j = k + 1
        <3>1. k \in 0..k /\ j - 1 = k
            BY <2>1
        <3> QED BY <1>1, <1>2, <2>1, <3>1 DEF Leads
    <2>2. CASE j # k + 1
        <3>1. j \in 1..k /\ j \in 0..k /\ j - 1 \in 0..k
            BY <2>2
        <3> QED BY <1>1, <1>2, <3>1 DEF Leads
    <2> QED BY <2>1, <2>2
<1>6. 0 \in 0..k
    OBVIOUS
<1>7. Leads(q, a, c, k + 1, N)
    BY <1>1, <1>2, <1>3, <1>4, <1>5, <1>6 DEF Leads
<1> QED BY <1>7 DEF Path

\* ... or at the beginning
LEMMA EditBefore ==
    ASSUME NEW a \in Seq(Letters), NEW b, NEW c, NEW k \in Nat, NEW L \in Nat, NEW N \in Nat,
           OneEdit(a, b), Path(b, c, k, L), L <= N, Len(a) <= N
    PROVE  Path(a, c, k + 1, N)
<1>1. PICK p : Leads(p, b, c, k, L)
    BY DEF Path
<1> DEFINE q == [j \in 0..(k + 1) |-> IF j = 0 THEN a ELSE p[j - 1]]
<1>0. \A j \in 0..(k + 1) : j = 0 \/ (j \in 1..(k + 1) /\ j - 1 \in 0..k)
    OBVIOUS
<1>2. /\ \A j \in 1..(k + 1) : q[j] = p[j - 1] /\ q[j] \in Seq(Letters) /\ Len(q[j]) <= N
      /\ q[0] = a
    <2>1. ASSUME NEW j \in 1..(k + 1) PROVE q[j] = p[j - 1] /\ q[j] \in Seq(Letters) /\ Len(q[j]) <= N
        <3>1. j \in 0..(k + 1) /\ j # 0 /\ j - 1 \in 0..k
            OBVIOUS
        <3>2. q[j] = p[j - 1] /\ p[j - 1] \in Seq(Letters) /\ Len(p[j - 1]) <= L
            BY <1>1, <3>1 DEF Leads
        <3>3. Len(p[j - 1]) \in Nat
            BY <3>2
        <3> QED BY <3>2, <3>3
    <2>2. q[0] = a
        OBVIOUS
    <2> HIDE DEF q
    <2> QED BY <2>1, <2>2
<1>3. q \in [0..(k + 1) -> Seq(Letters)]
    BY <1>0, <1>2
<1> HIDE DEF q
<1>4. \A j \in 0..(k + 1) : Len(q[j]) <= N
    BY <1>0, <1>2
<1>5. ASSUME NEW j \in 1..(k + 1) PROVE OneEdit(q[j - 1], q[j])
    <2>1. CASE j = 1
        <3>1. j - 1 = 0 /\ 0 \in 0..k
            BY <2>1
        <3> QED BY <1>1, <1>2, <2>1, <3>1 DEF Leads
    <2>2. CASE j # 1
        <3>1. j - 1 \in 1..k /\ j - 1 \in 1..(k + 1)
            BY <2>2
        <3> QED BY <1>1, <1>2, <3>1 DEF Leads
    <2> QED BY <2>1, <2>2
<1>6. k + 1 \in 1..(k + 1) /\ (k + 1) - 1 = k
    OBVIOUS
<1>7. Leads(q, a, c, k + 1, N)
    BY <1>1, <1>2, <1>3, <1>4, <1>5, <1>6 DEF Leads
<1> QED BY <1>7 DEF Path

\* A longer text may be allowed on the way
LEMMA WiderPath ==
    ASSUME NEW a, NEW b, NEW k \in Nat, NEW L \in Nat, NEW N \in Nat, Path(a, b, k, L), L <= N
    PROVE  Path(a, b, k, N)
<1>1. PICK p : Leads(p, a, b, k, L)
    BY DEF Path
<1>2. ASSUME NEW j \in 0..k PROVE Len(p[j]) <= N
    <2>1. Len(p[j]) \in Nat /\ Len(p[j]) <= L
        BY <1>1 DEF Leads
    <2> QED BY <2>1
<1> QED BY <1>1, <1>2 DEF Leads, Path

\* Edits and a letter at the end
LEMMA EditLast ==
    ASSUME NEW a \in Seq(Letters), NEW x \in Letters
    PROVE  OneEdit(a, Append(a, x)) /\ OneEdit(Append(a, x), a)
<1>1. Append(a, x) \in Seq(Letters) /\ Len(Append(a, x)) = Len(a) + 1
    OBVIOUS
<1>2. Inserted(a, Append(a, x), Len(a) + 1)
    BY <1>1 DEF Inserted
<1> HIDE DEF Inserted
<1> QED BY <1>1, <1>2, OneEditIs

LEMMA ReplaceLast ==
    ASSUME NEW a \in Seq(Letters), NEW x \in Letters, NEW y \in Letters, x # y
    PROVE  OneEdit(Append(a, x), Append(a, y))
<1> DEFINE ax == Append(a, x)
           ay == Append(a, y)
<1>1. /\ ax \in Seq(Letters) /\ Len(ax) = Len(a) + 1 /\ ay \in Seq(Letters) /\ Len(ay) = Len(a) + 1
      /\ ax[Len(a) + 1] = x /\ ay[Len(a) + 1] = y /\ \A j \in 1..Len(a) : ax[j] = ay[j]
      /\ Len(a) \in Nat
    OBVIOUS
<1> HIDE DEF ax, ay
<1>2. Replaced(ax, ay, Len(a) + 1) /\ ax[Len(a) + 1] # ay[Len(a) + 1]
    BY <1>1 DEF Replaced
<1>3. OneEdit(ax, ay)
    BY <1>1, <1>2, OneEditIs
<1> QED BY <1>3 DEF ax, ay

LEMMA InsertedBefore ==
    ASSUME NEW u \in Seq(Letters), NEW t \in Seq(Letters), NEW x \in Letters,
           NEW k, Inserted(u, t, k)
    PROVE  Inserted(Append(u, x), Append(t, x), k)
<1> DEFINE ux == Append(u, x)
           tx == Append(t, x)
<1>0. Len(u) \in Nat /\ Len(t) = Len(u) + 1 /\ k \in 1..Len(t)
    BY DEF Inserted
<1>1. /\ Len(ux) = Len(u) + 1 /\ Len(tx) = Len(t) + 1
      /\ ux[Len(u) + 1] = x /\ tx[Len(t) + 1] = x
      /\ \A j \in 1..Len(u) : ux[j] = u[j]
      /\ \A j \in 1..Len(t) : tx[j] = t[j]
    OBVIOUS
<1> HIDE DEF ux, tx
<1>2. ASSUME NEW j \in 1..Len(ux) PROVE ux[j] = IF j < k THEN tx[j] ELSE tx[j + 1]
    <2>1. CASE j = Len(u) + 1
        BY <1>0, <1>1, <2>1
    <2>2. CASE j # Len(u) + 1
        <3>1. j \in 1..Len(u) /\ j \in 1..Len(t) /\ j + 1 \in 1..Len(t)
            BY <1>0, <1>1, <2>2
        <3>2. u[j] = IF j < k THEN t[j] ELSE t[j + 1]
            BY <3>1 DEF Inserted
        <3> QED BY <1>1, <3>1, <3>2
    <2> QED BY <2>1, <2>2
<1>3. Inserted(ux, tx, k)
    BY <1>0, <1>1, <1>2 DEF Inserted
<1> QED BY <1>3 DEF ux, tx

LEMMA EditThenLetter ==
    ASSUME NEW u \in Seq(Letters), NEW t \in Seq(Letters), NEW x \in Letters, OneEdit(u, t)
    PROVE  OneEdit(Append(u, x), Append(t, x))
<1> DEFINE ux == Append(u, x)
           tx == Append(t, x)
<1>1. ux \in Seq(Letters) /\ tx \in Seq(Letters)
    OBVIOUS
<1>2. ASSUME NEW k, Replaced(u, t, k), u[k] # t[k] PROVE Replaced(ux, tx, k) /\ ux[k] # tx[k]
    <2>0. Len(t) \in Nat /\ Len(u) = Len(t) /\ k \in 1..Len(t)
        BY <1>2 DEF Replaced
    <2>1. /\ Len(ux) = Len(t) + 1 /\ Len(tx) = Len(t) + 1
          /\ ux[Len(t) + 1] = x /\ tx[Len(t) + 1] = x
          /\ \A j \in 1..Len(t) : ux[j] = u[j] /\ tx[j] = t[j]
        BY <2>0
    <2> HIDE DEF ux, tx
    <2>2. \A j \in 1..(Len(t) + 1) : j \in 1..Len(t) \/ j = Len(t) + 1
        BY <2>0
    <2> QED BY <1>2, <2>0, <2>1, <2>2 DEF Replaced
<1>3. ASSUME NEW k, Inserted(u, t, k) PROVE Inserted(ux, tx, k)
    BY <1>3, InsertedBefore
<1>4. ASSUME NEW k, Inserted(t, u, k) PROVE Inserted(tx, ux, k)
    BY <1>4, InsertedBefore
<1> HIDE DEF ux, tx
<1>5. OneEdit(ux, tx)
    BY <1>1, <1>2, <1>3, <1>4, OneEditIs
<1> QED BY <1>5 DEF ux, tx

LEMMA PathThenLetter ==
    ASSUME NEW a, NEW b, NEW k \in Nat, NEW L \in Nat, Path(a, b, k, L), NEW x \in Letters
    PROVE  Path(Append(a, x), Append(b, x), k, L + 1)
<1>1. PICK p : Leads(p, a, b, k, L)
    BY DEF Path
<1> DEFINE q == [j \in 0..k |-> Append(p[j], x)]
<1>2. ASSUME NEW j \in 0..k PROVE q[j] \in Seq(Letters) /\ Len(q[j]) <= L + 1
    <2>1. p[j] \in Seq(Letters) /\ Len(p[j]) <= L
        BY <1>1 DEF Leads
    <2>2. Len(Append(p[j], x)) = Len(p[j]) + 1 /\ Append(p[j], x) \in Seq(Letters) /\ Len(p[j]) \in Nat
        BY <2>1
    <2> QED BY <2>1, <2>2
<1>3. ASSUME NEW j \in 1..k PROVE OneEdit(q[j - 1], q[j])
    <2>1. j \in 0..k /\ j - 1 \in 0..k
        OBVIOUS
    <2>2. p[j] \in Seq(Letters) /\ p[j - 1] \in Seq(Letters) /\ OneEdit(p[j - 1], p[j])
        BY <1>1, <2>1 DEF Leads
    <2>3. OneEdit(Append(p[j - 1], x), Append(p[j], x))
        BY <2>2, EditThenLetter
    <2> QED BY <2>1, <2>3
<1>4. q \in [0..k -> Seq(Letters)]
    BY <1>2
<1>5. q[0] = Append(a, x) /\ q[k] = Append(b, x)
    BY <1>1 DEF Leads
<1> HIDE DEF q
<1>6. Leads(q, Append(a, x), Append(b, x), k, L + 1)
    BY <1>2, <1>3, <1>4, <1>5 DEF Leads
<1> QED BY <1>6 DEF Path

\* The first letters of a text
LEMMA FirstLetters ==
    ASSUME NEW s \in Seq(Letters)
    PROVE  /\ SubSeq(s, 1, 0) = <<>> /\ SubSeq(s, 1, Len(s)) = s
           /\ \A m \in 0..Len(s) : SubSeq(s, 1, m) \in Seq(Letters) /\ Len(SubSeq(s, 1, m)) = m
           /\ \A m \in 1..Len(s) : s[m] \in Letters
                                   /\ SubSeq(s, 1, m) = Append(SubSeq(s, 1, m - 1), s[m])
<1>0. Len(s) \in Nat
    OBVIOUS
<1>1. ASSUME NEW m \in 0..Len(s)
      PROVE  /\ SubSeq(s, 1, m) \in Seq(Letters) /\ Len(SubSeq(s, 1, m)) = m
             /\ \A j \in 1..m : SubSeq(s, 1, m)[j] = s[j]
    <2>1. \A j \in 1..m : s[j] \in Letters /\ 1 + j - 1 = j
        BY <1>0
    <2>2. m - 1 + 1 = m /\ m \in Int
        OBVIOUS
    <2> QED BY <2>1, <2>2, SubSeqProperties
<1>2. ASSUME NEW m \in 1..Len(s)
      PROVE  s[m] \in Letters /\ SubSeq(s, 1, m) = Append(SubSeq(s, 1, m - 1), s[m])
    <2> DEFINE a == SubSeq(s, 1, m - 1)
               b == SubSeq(s, 1, m)
    <2>0. m - 1 \in 0..Len(s) /\ m \in 0..Len(s) /\ (m - 1) + 1 = m /\ m \in Nat
        BY <1>0
    <2>1. s[m] \in Letters
        BY <1>0
    <2>2. a \in Seq(Letters) /\ Len(a) = m - 1 /\ \A j \in 1..(m - 1) : a[j] = s[j]
        BY <1>1, <2>0
    <2>3. b \in Seq(Letters) /\ Len(b) = m /\ \A j \in 1..m : b[j] = s[j]
        BY <1>1, <2>0
    <2> HIDE DEF a, b
    <2>4. /\ Append(a, s[m]) \in Seq(Letters) /\ Len(Append(a, s[m])) = m
          /\ \A j \in 1..m : Append(a, s[m])[j] = s[j]
        BY <2>0, <2>1, <2>2
    <2>5. b = Append(a, s[m])
        BY <2>3, <2>4, SeqEqual
    <2> QED BY <2>1, <2>5 DEF a, b
<1>3. SubSeq(s, 1, Len(s)) = s
    <2>1. Len(s) \in 0..Len(s)
        BY <1>0
    <2> QED BY <1>0, <1>1, <2>1, SeqEqual
<1>4. SubSeq(s, 1, 0) = <<>>
    BY SubSeqEmpty
<1> QED BY <1>1, <1>2, <1>3, <1>4

-----------------------------------------------------------------------------
(* The similarity of two texts *)

Longer(m, n) == IF m < n THEN n ELSE m

\* Every cell of the table is the length of a path between two prefixes, whose texts
\* are not longer than these
LEMMA CellIsPath ==
    ASSUME NEW s \in Seq(Letters), NEW t \in Seq(Letters), NEW E, IsTable(s, t, E),
           NEW m \in 0..Len(s), NEW n \in 0..Len(t)
    PROVE  /\ Path(SubSeq(s, 1, m), SubSeq(t, 1, n), E[m][n], Longer(m, n))
           /\ E[m][n] <= Longer(m, n)
<1> DEFINE M == Len(s)
           N == Len(t)
           S(a) == SubSeq(s, 1, a)
           T(b) == SubSeq(t, 1, b)
           Fits(a, b) == Path(S(a), T(b), E[a][b], Longer(a, b)) /\ E[a][b] <= Longer(a, b)
           G == {p \in (0..M) \X (0..N) : Fits(p[1], p[2])}
<1>0. M \in Nat /\ N \in Nat
    OBVIOUS
<1>1. \A a \in 0..M : S(a) \in Seq(Letters) /\ Len(S(a)) = a
    BY FirstLetters
<1>2. \A b \in 0..N : T(b) \in Seq(Letters) /\ Len(T(b)) = b
    BY FirstLetters
<1>3. \A a \in 1..M : s[a] \in Letters /\ S(a) = Append(S(a - 1), s[a])
    BY FirstLetters
<1>4. \A b \in 1..N : t[b] \in Letters /\ T(b) = Append(T(b - 1), t[b])
    BY FirstLetters
<1>5. S(0) = T(0)
    BY FirstLetters
<1>6. /\ \A a \in 0..M : \A b \in 0..N : E[a][b] \in Nat
      /\ \A b \in 0..N : E[0][b] = b
      /\ \A a \in 0..M : E[a][0] = a
    BY <1>0, Cells
<1>7. \A a \in 1..M : \A b \in 1..N :
          LeastOf(E[a][b], E[a - 1][b], E[a][b - 1], E[a - 1][b - 1], ReplaceCost(s[a], t[b]))
    BY <1>0, CellRule
<1>8. \A a, b \in Nat : Longer(a, b) \in Nat /\ a <= Longer(a, b) /\ b <= Longer(a, b)
    BY DEF Longer
<1> HIDE DEF M, N, S, T
\* Deleting the last letter of the first text, adding the last one of the second
<1>9. ASSUME NEW a \in 1..M, NEW b \in 0..N, Path(S(a - 1), T(b), E[a - 1][b], Longer(a - 1, b))
      PROVE  Path(S(a), T(b), E[a - 1][b] + 1, Longer(a, b))
    <2>1. a - 1 \in 0..M /\ a \in 0..M /\ a \in Nat /\ b \in Nat /\ a - 1 \in Nat
        BY <1>0
    <2>2. OneEdit(S(a), S(a - 1))
        BY <1>1, <1>3, <2>1, EditLast
    <2>3. E[a - 1][b] \in Nat
        BY <1>6, <2>1
    <2>4. /\ Longer(a - 1, b) \in Nat /\ Longer(a, b) \in Nat /\ Longer(a - 1, b) <= Longer(a, b)
          /\ Len(S(a)) <= Longer(a, b)
        BY <1>1, <2>1 DEF Longer
    <2>5. S(a) \in Seq(Letters)
        BY <1>1, <2>1
    <2> QED BY <1>9, <2>2, <2>3, <2>4, <2>5, EditBefore
<1>10. ASSUME NEW a \in 0..M, NEW b \in 1..N, Path(S(a), T(b - 1), E[a][b - 1], Longer(a, b - 1))
       PROVE  Path(S(a), T(b), E[a][b - 1] + 1, Longer(a, b))
    <2>1. b - 1 \in 0..N /\ b \in 0..N /\ b \in Nat /\ a \in Nat /\ b - 1 \in Nat
        BY <1>0
    <2>2. OneEdit(T(b - 1), T(b))
        BY <1>2, <1>4, <2>1, EditLast
    <2>3. E[a][b - 1] \in Nat
        BY <1>6, <2>1
    <2>4. /\ Longer(a, b - 1) \in Nat /\ Longer(a, b) \in Nat /\ Longer(a, b - 1) <= Longer(a, b)
          /\ Len(T(b)) <= Longer(a, b)
        BY <1>2, <2>1 DEF Longer
    <2>5. T(b) \in Seq(Letters)
        BY <1>2, <2>1
    <2> QED BY <1>10, <2>2, <2>3, <2>4, <2>5, EditAfter
<1>11. \A b \in 0..N : Fits(0, b)
    <2> DEFINE U == {b \in Nat : b <= N => Fits(0, b)}
    <2>0. 0 \in 0..M /\ 0 \in 0..N /\ Longer(0, 0) = 0
        BY <1>0 DEF Longer
    <2>1. 0 \in U
        <3>1. Path(T(0), T(0), 0, Len(T(0)))
            BY <1>2, <2>0, NoEdits
        <3>2. Fits(0, 0)
            BY <1>2, <1>5, <1>6, <2>0, <3>1
        <3> QED BY <3>2
    <2>2. ASSUME NEW b \in Nat, b \in U PROVE b + 1 \in U
        <3>1. SUFFICES ASSUME b + 1 <= N PROVE Fits(0, b + 1)
            OBVIOUS
        <3>2. b + 1 \in 1..N /\ (b + 1) - 1 = b /\ b \in 0..N /\ b + 1 \in 0..N
            BY <1>0, <3>1
        <3>3. Fits(0, b)
            BY <1>0, <2>2, <3>1
        <3>4. Path(S(0), T(b + 1), E[0][b] + 1, Longer(0, b + 1))
            BY <1>10, <2>0, <3>2, <3>3
        <3>5. E[0][b] + 1 = E[0][b + 1] /\ E[0][b + 1] = b + 1
            BY <1>6, <3>2
        <3>6. E[0][b + 1] <= Longer(0, b + 1)
            BY <1>8, <3>2, <3>5
        <3> QED BY <3>4, <3>5, <3>6
    <2>3. Nat \subseteq U
        <3> HIDE DEF U
        <3> QED BY <2>1, <2>2, Induction
    <2>4. ASSUME NEW b \in 0..N PROVE Fits(0, b)
        <3>1. b \in U /\ b <= N
            BY <1>0, <2>3
        <3> QED BY <3>1
    <2> QED BY <2>4
<1>12. \A a \in 0..M : Fits(a, 0)
    <2> DEFINE U == {a \in Nat : a <= M => Fits(a, 0)}
    <2>1. 0 \in U
        BY <1>0, <1>11
    <2>2. ASSUME NEW a \in Nat, a \in U PROVE a + 1 \in U
        <3>1. SUFFICES ASSUME a + 1 <= M PROVE Fits(a + 1, 0)
            OBVIOUS
        <3>2. a + 1 \in 1..M /\ (a + 1) - 1 = a /\ a \in 0..M /\ a + 1 \in 0..M /\ 0 \in 0..N
            BY <1>0, <3>1
        <3>3. Fits(a, 0)
            BY <1>0, <2>2, <3>1
        <3>4. Path(S(a + 1), T(0), E[a][0] + 1, Longer(a + 1, 0))
            BY <1>9, <3>2, <3>3
        <3>5. E[a][0] + 1 = E[a + 1][0] /\ E[a + 1][0] = a + 1
            BY <1>6, <3>2
        <3>6. E[a + 1][0] <= Longer(a + 1, 0)
            BY <1>8, <3>2, <3>5
        <3> QED BY <3>4, <3>5, <3>6
    <2>3. Nat \subseteq U
        <3> HIDE DEF U
        <3> QED BY <2>1, <2>2, Induction
    <2>4. ASSUME NEW a \in 0..M PROVE Fits(a, 0)
        <3>1. a \in U /\ a <= M
            BY <1>0, <2>3
        <3> QED BY <3>1
    <2> QED BY <2>4
<1>13. ASSUME NEW a \in 1..M, NEW b \in 1..N, Fits(a - 1, b), Fits(a, b - 1), Fits(a - 1, b - 1)
       PROVE  Fits(a, b)
    <2> DEFINE cost == ReplaceCost(s[a], t[b])
    <2>0. /\ a \in 0..M /\ b \in 0..N /\ a - 1 \in 0..M /\ b - 1 \in 0..N
          /\ a \in Nat /\ b \in Nat /\ a - 1 \in Nat /\ b - 1 \in Nat
        BY <1>0
    <2>1. LeastOf(E[a][b], E[a - 1][b], E[a][b - 1], E[a - 1][b - 1], cost)
        BY <1>7
    <2>2. /\ Longer(a - 1, b - 1) \in Nat /\ Longer(a, b) \in Nat
          /\ Longer(a - 1, b - 1) + 1 = Longer(a, b)
        BY <2>0 DEF Longer
    <2>3. cost \in {0, 1} /\ (cost = 0 <=> s[a] = t[b])
        BY DEF ReplaceCost
    <2>4. s[a] \in Letters /\ t[b] \in Letters
        BY <1>3, <1>4
    <2>5. E[a - 1][b - 1] \in Nat
        BY <1>6, <2>0
    <2>6. Path(S(a), Append(T(b - 1), s[a]), E[a - 1][b - 1], Longer(a, b))
        <3>1. Path(Append(S(a - 1), s[a]), Append(T(b - 1), s[a]),
                   E[a - 1][b - 1], Longer(a - 1, b - 1) + 1)
            BY <1>13, <2>2, <2>4, <2>5, PathThenLetter
        <3> QED BY <1>3, <2>2, <3>1
    <2>7. E[a][b] <= Longer(a, b)
        <3>1. E[a][b] \in Nat /\ E[a][b] <= E[a - 1][b - 1] + cost
            BY <2>1 DEF LeastOf
        <3>2. E[a - 1][b - 1] <= Longer(a - 1, b - 1)
            BY <1>13
        <3> HIDE DEF cost
        <3> QED BY <2>2, <2>3, <2>5, <3>1, <3>2
    <2>8. CASE E[a][b] = E[a - 1][b] + 1
        BY <1>9, <1>13, <2>0, <2>7, <2>8
    <2>9. CASE E[a][b] = E[a][b - 1] + 1
        BY <1>10, <1>13, <2>0, <2>7, <2>9
    <2>10. CASE E[a][b] = E[a - 1][b - 1] + cost
        <3>1. CASE s[a] = t[b]
            <4>1. Append(T(b - 1), s[a]) = T(b) /\ cost = 0
                BY <1>4, <2>3, <3>1
            <4>2. E[a][b] = E[a - 1][b - 1]
                BY <2>5, <2>10, <4>1
            <4> QED BY <2>6, <2>7, <4>1, <4>2
        <3>2. CASE s[a] # t[b]
            <4>1. OneEdit(Append(T(b - 1), s[a]), T(b))
                BY <1>2, <1>4, <2>0, <2>4, <3>2, ReplaceLast
            <4>2. T(b) \in Seq(Letters) /\ Len(T(b)) <= Longer(a, b)
                BY <1>2, <1>8, <2>0
            <4>3. Longer(a, b) <= Longer(a, b)
                BY <2>2
            <4>4. Path(S(a), T(b), E[a - 1][b - 1] + 1, Longer(a, b))
                BY <2>2, <2>5, <2>6, <4>1, <4>2, <4>3, EditAfter
            <4>5. cost = 1
                BY <2>3, <3>2
            <4> QED BY <2>7, <2>10, <4>4, <4>5
        <3> QED BY <3>1, <3>2
    <2> QED BY <2>1, <2>8, <2>9, <2>10 DEF LeastOf
<1> HIDE DEF Fits
<1>14. \A a \in 0..M : \A b \in 0..N : <<a, b>> \in G
    <2>1. \A b \in 0..N : <<0, b>> \in G
        BY <1>0, <1>11
    <2>2. \A a \in 0..M : <<a, 0>> \in G
        BY <1>0, <1>12
    <2>3. ASSUME NEW a \in 1..M, NEW b \in 1..N,
                 <<a - 1, b>> \in G, <<a, b - 1>> \in G, <<a - 1, b - 1>> \in G
          PROVE  <<a, b>> \in G
        <3>1. Fits(a - 1, b) /\ Fits(a, b - 1) /\ Fits(a - 1, b - 1)
            BY <2>3
        <3>2. Fits(a, b)
            BY <1>13, <3>1
        <3>3. a \in 0..M /\ b \in 0..N
            BY <1>0
        <3> QED BY <3>2, <3>3
    <2> HIDE DEF G
    <2> QED BY <1>0, <2>1, <2>2, <2>3, GridInduction
<1>15. Fits(m, n)
    <2>1. <<m, n>> \in G
        BY <1>14 DEF M, N
    <2> QED BY <2>1
<1> QED BY <1>15 DEF Fits, S, T

LEMMA DistanceReached ==
    ASSUME NEW s \in Texts, NEW t \in Texts
    PROVE  LET d == EditDistance(s, t) IN
           d \in Nat /\ d <= Longer(Len(s), Len(t)) /\ t \in EditsAway[s][d]
<1> DEFINE d == EditDistance(s, t)
           r == EditsAway[s]
<1>0. /\ s \in Seq(Letters) /\ t \in Seq(Letters) /\ Len(s) \in Nat /\ Len(t) \in Nat
      /\ MaxText \in Nat /\ Longer(Len(s), Len(t)) <= MaxText
    BY TextsAre, RoutingAssumption DEF Longer
<1>1. PICK E : IsTable(s, t, E) /\ d = E[Len(s)][Len(t)]
    BY <1>0, TableExists
<1> HIDE DEF d, r
<1>2. Path(s, t, d, Longer(Len(s), Len(t))) /\ d <= Longer(Len(s), Len(t))
    <2>1. Len(s) \in 0..Len(s) /\ Len(t) \in 0..Len(t)
        BY <1>0
    <2>2. SubSeq(s, 1, Len(s)) = s /\ SubSeq(t, 1, Len(t)) = t
        BY <1>0, FirstLetters
    <2> QED BY <1>0, <1>1, <2>1, <2>2, CellIsPath
<1>3. d \in Nat
    BY <1>0, EditDistanceIn DEF d
<1>4. d <= MaxText
    <2>1. Longer(Len(s), Len(t)) \in Nat
        BY <1>0 DEF Longer
    <2> QED BY <1>0, <1>2, <1>3, <2>1
<1>5. PICK p : Leads(p, s, t, d, Longer(Len(s), Len(t)))
    BY <1>2 DEF Path
<1>6. \A j \in 0..d : p[j] \in Texts
    <2>1. ASSUME NEW j \in 0..d PROVE p[j] \in Texts
        <3>1. p[j] \in Seq(Letters) /\ Len(p[j]) <= Longer(Len(s), Len(t))
            BY <1>5 DEF Leads
        <3>2. Len(p[j]) \in Nat /\ Longer(Len(s), Len(t)) \in Nat
            BY <1>0, <3>1 DEF Longer
        <3>3. Len(p[j]) <= MaxText
            BY <1>0, <3>1, <3>2
        <3> QED BY <3>1, <3>3, TextsAre
    <2> QED BY <2>1
<1>7. IsAway(s, r)
    BY EditsAwayIs DEF r
<1> DEFINE T == {j \in Nat : j <= d => p[j] \in r[j]}
<1>8. 0 \in T
    BY <1>5, <1>7 DEF Leads, IsAway
<1>9. ASSUME NEW j \in Nat, j \in T PROVE j + 1 \in T
    <2>1. SUFFICES ASSUME j + 1 <= d PROVE p[j + 1] \in r[j + 1]
        OBVIOUS
    <2>2. j + 1 \in 1..d /\ j + 1 \in 0..d /\ j + 1 \in 1..MaxText /\ (j + 1) - 1 = j /\ j <= d
        BY <1>0, <1>3, <1>4, <2>1
    <2>3. p[j] \in r[j] /\ p[j + 1] \in Texts
        BY <1>6, <1>9, <2>2
    <2>4. OneEdit(p[j], p[j + 1])
        BY <1>5, <2>2 DEF Leads
    <2>5. r[j + 1] = r[j] \cup {w \in Texts : \E u \in r[j] : OneEdit(u, w)}
        BY <1>7, <2>2 DEF IsAway
    <2> QED BY <2>3, <2>4, <2>5
<1>10. Nat \subseteq T
    <2> HIDE DEF T
    <2> QED BY <1>8, <1>9, Induction
<1>11. t \in r[d]
    <2>1. p[d] \in r[d]
        BY <1>3, <1>10
    <2> QED BY <1>5, <2>1 DEF Leads
<1> QED BY <1>2, <1>3, <1>11 DEF d, r

\* What a quotient reaches
LEMMA QuotientReaches ==
    ASSUME NEW x \in Int, NEW L \in Nat, L # 0, NEW th \in Int
    PROVE  x \div L >= th <=> x >= th * L
<1> DEFINE q == x \div L
           rest == x % L
<1>1. q \in Int /\ rest \in 0..(L - 1) /\ x = L * q + rest
    OBVIOUS
<1> HIDE DEF q, rest
<1>2. CASE q >= th
    <2>1. PICK z \in Nat : q = th + z
        <3>1. q - th \in Nat /\ q = th + (q - th)
            BY <1>1, <1>2
        <3> QED BY <3>1
    <2>2. L * q = L * th + L * z /\ L * z \in Nat /\ L * th \in Int /\ L * th = th * L
        BY <2>1
    <2>3. x >= th * L
        BY <1>1, <2>2
    <2> QED BY <1>2, <2>3 DEF q
<1>3. CASE ~ (q >= th)
    <2>1. PICK z \in Nat : th = q + 1 + z
        <3>1. th - q - 1 \in Nat /\ th = q + 1 + (th - q - 1)
            BY <1>1, <1>3
        <3> QED BY <3>1
    <2>2. /\ L * th = L * q + L + L * z /\ L * z \in Nat /\ L * th \in Int /\ L * q \in Int
          /\ L * th = th * L
        BY <1>1, <2>1
    <2>3. ~ (x >= th * L)
        BY <1>1, <2>2
    <2> QED BY <1>3, <2>3 DEF q
<1> QED BY <1>2, <1>3

\* Similar enough, in terms of edits
LEMMA SimilarIs ==
    ASSUME NEW s \in Texts, NEW t \in Texts, NEW th \in Int
    PROVE  LET longest == Longer(Len(s), Len(t)) IN
           Similarity(s, t) >= th <=>
               \E n \in 0..longest : /\ t \in EditsAway[s][n] /\ th <= Unit
                                     /\ (longest - n) * Unit >= th * longest
<1> DEFINE L == Longer(Len(s), Len(t))
           d == EditDistance(s, t)
           Enough(n) == t \in EditsAway[s][n] /\ th <= Unit /\ (L - n) * Unit >= th * L
<1>0. /\ L \in Nat /\ L <= MaxText /\ MaxText \in Nat /\ Unit = 60
    BY TextsAre, RoutingAssumption DEF Longer, Unit
<1>1. d \in Nat /\ d <= L /\ t \in EditsAway[s][d]
    BY DistanceReached
<1>2. Similarity(s, t) = IF L = 0 THEN Unit ELSE ((L - d) * Unit) \div L
    BY DEF Similarity, Longer
<1>3. ASSUME NEW n \in 0..L, t \in EditsAway[s][n] PROVE d <= n
    <2>1. n \in 0..MaxText
        BY <1>0
    <2> QED BY <1>3, <2>1, AwayIsNear
<1> HIDE DEF L, d
<1>4. d \in 0..L
    BY <1>0, <1>1
<1>5. CASE L = 0
    <2>1. d = 0
        BY <1>1, <1>5
    <2>2. th * L = 0 /\ (L - 0) * Unit = 0
        BY <1>0, <1>5
    <2>3. Enough(0) <=> th <= Unit
        BY <1>1, <2>1, <2>2
    <2>4. (\E n \in 0..L : Enough(n)) <=> Enough(0)
        <3>1. 0..L = {0}
            BY <1>5
        <3> HIDE DEF Enough
        <3> QED BY <3>1
    <2>5. Similarity(s, t) >= th <=> th <= Unit
        BY <1>0, <1>2, <1>5
    <2> QED BY <2>3, <2>4, <2>5 DEF L
<1>6. CASE L # 0
    <2>1. Similarity(s, t) >= th <=> (L - d) * Unit >= th * L
        <3>1. (L - d) * Unit \in Int
            BY <1>0, <1>1
        <3> QED BY <1>0, <1>2, <1>6, <3>1, QuotientReaches
    <2>2. ASSUME (L - d) * Unit >= th * L PROVE Enough(d)
        <3>1. th <= Unit
            <4>1. SUFFICES ASSUME ~ (th <= Unit) PROVE FALSE
                OBVIOUS
            <4>2. PICK z \in Nat : th = 61 + z
                <5>1. th - 61 \in Nat /\ th = 61 + (th - 61)
                    BY <1>0, <4>1
                <5> QED BY <5>1
            <4>3. th * L = 61 * L + z * L /\ z * L \in Nat
                BY <1>0, <4>2
            <4>4. (L - d) * Unit = 60 * L - 60 * d
                BY <1>0, <1>1
            <4> QED BY <1>0, <1>1, <1>6, <2>2, <4>3, <4>4
        <3> QED BY <1>1, <2>2, <3>1
    <2>3. ASSUME NEW n \in 0..L, Enough(n) PROVE (L - d) * Unit >= th * L
        <3>1. d <= n
            BY <1>3, <2>3
        <3>2. (L - d) * Unit >= (L - n) * Unit /\ (L - d) * Unit \in Int /\ (L - n) * Unit \in Int
            BY <1>0, <1>1, <3>1
        <3>3. th * L \in Int /\ (L - n) * Unit >= th * L
            BY <1>0, <2>3
        <3> QED BY <3>2, <3>3
    <2> HIDE DEF Enough
    <2>4. Similarity(s, t) >= th <=> \E n \in 0..L : Enough(n)
        BY <1>4, <2>1, <2>2, <2>3
    <2> QED BY <2>4 DEF Enough, L
<1> QED BY <1>5, <1>6

LEMMA ComparedText ==
    ASSUME NEW s \in Texts
    PROVE  Compared(s) \in Texts
<1>1. s \in Seq(Letters) /\ Len(s) <= MaxText
    BY TextsAre
<1>2. Lowered(s) \in Seq(Letters) /\ Len(Lowered(s)) = Len(s)
    BY <1>1, RoutingAssumption DEF Lowered
<1>3. Lowered(s) \in Texts
    BY <1>1, <1>2, TextsAre
<1> QED BY <1>3 DEF Compared

\* For texts of any length and every threshold: two texts count as similar exactly
\* when the first becomes the second by few enough insertions, deletions and
\* replacements of single letters (calculateStringSimilarity, evaluateValueMatchingRule).
THEOREM SimilarityIsEdits == Spec => []FuzzyIsEditDistance
<1>1. Init => node \in ConditionNodes
    BY DEF Init
<1>2. node \in ConditionNodes /\ [Next]_vars => (node \in ConditionNodes)'
    BY DEF Next, EvaluateRule, SelectTarget, FieldMissing, EvaluateSimple, Misconfigured, Continue, vars
<1>3. node \in ConditionNodes => FuzzyIsEditDistance
    <2> SUFFICES ASSUME node \in ConditionNodes, node.kind = "value_matcher", Found, node.fuzzy,
                        NEW k \in DOMAIN node.rules, NEW m \in DOMAIN node.rules[k].values,
                        node.rules[k].type = "exact"
                 PROVE  LET r == node.rules[k]
                            s == Compared(Source.text)
                            t == Compared(r.values[m].text)
                            longest == IF Len(s) < Len(t) THEN Len(t) ELSE Len(s)
                        IN FuzzyHit(r, r.values[m]).matched <=>
                               \E n \in 0..longest : /\ t \in EditsAway[s][n] /\ node.threshold <= Unit
                                                     /\ (longest - n) * Unit >= node.threshold * longest
        BY DEF FuzzyIsEditDistance
    <2> DEFINE r == node.rules[k]
               v == r.values[m]
               s == Compared(Source.text)
               t == Compared(v.text)
    <2>1. node.rules \in Seq(MatchingRule) /\ node.threshold \in Int /\ node.fuzzy \in BOOLEAN
        BY RoutingAssumption
    <2>2. r \in MatchingRule
        BY <2>1
    <2>3. v \in Value
        BY <2>2 DEF MatchingRule
    <2>4. s \in Texts /\ t \in Texts
        <3>1. Source.text \in Texts /\ v.text \in Texts
            BY <2>3, SourceIn DEF IsMatcher, Value
        <3> QED BY <3>1, ComparedText
    <2>5. FuzzyHit(r, v).matched <=> Similarity(s, t) >= node.threshold
        BY DEF FuzzyHit, Hit
    <2> HIDE DEF s, t, v, r
    <2>6. LET longest == Longer(Len(s), Len(t)) IN
          Similarity(s, t) >= node.threshold <=>
              \E n \in 0..longest : /\ t \in EditsAway[s][n] /\ node.threshold <= Unit
                                    /\ (longest - n) * Unit >= node.threshold * longest
        BY <2>1, <2>4, SimilarIs
    <2> QED BY <2>5, <2>6 DEF Longer, s, t, v, r
<1>4. QED
    BY <1>1, <1>2, <1>3, PTL DEF Spec

===============================================================================
