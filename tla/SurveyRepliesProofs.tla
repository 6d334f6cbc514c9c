-------------------------- MODULE SurveyRepliesProofs --------------------------
(***************************************************************************)
(* What holds of every survey and every reply to it, for all questions,    *)
(* customers and forms: the names of options, what is made of an answer,   *)
(* and who has replied.                                                    *)
(***************************************************************************)
EXTENDS SurveyReplies, FiniteSetTheorems, FunctionTheorems, SequenceTheorems, TLAPS

-----------------------------------------------------------------------------
(* Ranks *)

LEMMA RanksGrow ==
    ASSUME NEW S, S \subseteq Int, IsFiniteSet(S), NEW i \in S
    PROVE  /\ Rank(S, i) \in 1 .. Cardinality(S)
           /\ \A k \in S : k < i => Rank(S, k) < Rank(S, i)
<1> DEFINE Below(k) == {j \in S : j <= k}
<1>1. ASSUME NEW k \in S
      PROVE  /\ IsFiniteSet(Below(k)) /\ Cardinality(Below(k)) \in Nat
             /\ Cardinality(Below(k)) <= Cardinality(S)
  BY FS_Subset, FS_CardinalityType
<1>2. Below(i) # {} /\ Cardinality(Below(i)) # 0
  <2>1. i \in Below(i)
    OBVIOUS
  <2> QED BY <2>1, <1>1, FS_EmptySet
<1>3. ASSUME NEW k \in S, k < i PROVE Cardinality(Below(k)) < Cardinality(Below(i))
  <2>ints. i \in Int /\ k \in Int /\ \A j \in S : j \in Int
    OBVIOUS
  <2>1. Below(k) \subseteq Below(i) /\ i \in Below(i) /\ i \notin Below(k)
    <3>1. i <= i /\ ~(i <= k) /\ \A j \in S : j <= k => j <= i
      BY <1>3, <2>ints
    <3> QED BY <3>1
  <2>2. /\ Cardinality(Below(k)) <= Cardinality(Below(i))
        /\ Cardinality(Below(k)) = Cardinality(Below(i)) => Below(k) = Below(i)
    BY <2>1, <1>1, FS_Subset
  <2> QED BY <2>1, <2>2, <1>1
<1>4. Cardinality(S) \in Nat
  BY FS_CardinalityType
<1> QED BY <1>1, <1>2, <1>3, <1>4 DEF Rank

LEMMA DifferentRanks ==
    ASSUME NEW S, S \subseteq Int, IsFiniteSet(S), NEW i \in S, NEW k \in S, Rank(S, i) = Rank(S, k)
    PROVE  i = k
<1> SUFFICES ASSUME i # k PROVE FALSE
  OBVIOUS
<1>1. i \in Int /\ k \in Int /\ Cardinality(S) \in Nat
  BY FS_CardinalityType
<1>2. Rank(S, i) \in Nat /\ Rank(S, k) \in Nat
  <2>1. Rank(S, i) \in 1 .. Cardinality(S) /\ Rank(S, k) \in 1 .. Cardinality(S)
    BY RanksGrow
  <2> QED BY <1>1, <2>1
<1>3. (k < i => Rank(S, k) < Rank(S, i)) /\ (i < k => Rank(S, i) < Rank(S, k))
  BY RanksGrow
<1> QED BY <1>1, <1>2, <1>3

\* Each number up to the size of a set is the rank of one of its members.
LEMMA RankExists ==
    ASSUME NEW S, S \subseteq Int, IsFiniteSet(S), NEW n \in 1 .. Cardinality(S)
    PROVE  \E i \in S : Rank(S, i) = n
<1> DEFINE T == 1 .. Cardinality(S)
           f == [i \in S |-> Rank(S, i)]
<1>1. \A i \in S : Rank(S, i) \in T
  BY RanksGrow
<1>2. f \in Injection(S, T)
  <2>1. ASSUME NEW i \in S, NEW k \in S, Rank(S, i) = Rank(S, k) PROVE i = k
    BY <2>1, DifferentRanks
  <2> QED BY <1>1, <2>1 DEF Injection, IsInjective
<1>3. Cardinality(S) \in Nat
  BY FS_CardinalityType
<1>4. IsFiniteSet(T) /\ Cardinality(T) = Cardinality(S)
  BY <1>3, FS_Interval
<1>5. f \in Surjection(S, T)
  BY <1>2, <1>4, FS_Injection
<1> QED BY <1>5 DEF Surjection

\* A finite set of numbers has a greatest one.
LEMMA GreatestElement ==
    ASSUME NEW S, S \subseteq Int, IsFiniteSet(S), S # {}
    PROVE  \E x \in S : \A y \in S : y <= x
<1>1. Cardinality(S) \in Nat /\ Cardinality(S) # 0
  BY FS_CardinalityType, FS_EmptySet
<1>2. PICK x \in S : Rank(S, x) = Cardinality(S)
  <2>1. Cardinality(S) \in 1 .. Cardinality(S)
    BY <1>1
  <2> QED BY <2>1, RankExists
<1>3. {j \in S : j <= x} = S
  BY <1>2, FS_Subset DEF Rank
<1> QED BY <1>3

LEMMA RankOfInterval ==
    ASSUME NEW n \in Nat, NEW i \in 1 .. n
    PROVE  Rank(1 .. n, i) = i
<1>1. {j \in 1 .. n : j <= i} = 1 .. i
  OBVIOUS
<1>2. Cardinality(1 .. i) = i
  <2>1. i \in Int /\ 1 \in Int /\ i >= 1
    OBVIOUS
  <2> QED BY <2>1, FS_Interval
<1> QED BY <1>1, <1>2 DEF Rank

\* The positions of a sequence.
LEMMA Positions ==
    ASSUME NEW V, NEW s \in Seq(V)
    PROVE  /\ DOMAIN s = 1 .. Len(s) /\ DOMAIN s \subseteq Int /\ Len(s) \in Nat
           /\ IsFiniteSet(DOMAIN s) /\ Cardinality(DOMAIN s) = Len(s)
<1>1. DOMAIN s = 1 .. Len(s) /\ Len(s) \in Nat
  OBVIOUS
<1>2. IsFiniteSet(1 .. Len(s)) /\ Cardinality(1 .. Len(s)) = IF 1 > Len(s) THEN 0 ELSE Len(s) - 1 + 1
  <2>1. 1 \in Int /\ Len(s) \in Int
    BY <1>1
  <2> QED BY <2>1, FS_Interval
<1> QED BY <1>1, <1>2

-----------------------------------------------------------------------------
(* Selections from sequences *)

\* The members at the selected positions, each once and in order.
LEMMA SelectedIs ==
    ASSUME NEW V, NEW s \in Seq(V), NEW S, S \subseteq DOMAIN s
    PROVE  /\ Selected(s, S) \in Seq(V) /\ Len(Selected(s, S)) = Cardinality(S)
           /\ Cardinality(S) <= Len(s)
           /\ DOMAIN Selected(s, S) = 1 .. Cardinality(S)
           /\ \A n \in DOMAIN Selected(s, S) : \E i \in S : Selected(s, S)[n] = s[i]
           /\ \A i \in S : \E n \in DOMAIN Selected(s, S) : Selected(s, S)[n] = s[i]
<1> DEFINE At(n) == CHOOSE i \in S : Rank(S, i) = n
<1>1. S \subseteq 1 .. Len(s) /\ S \subseteq Int /\ Len(s) \in Nat
  BY Positions
<1>3. IsFiniteSet(S) /\ Cardinality(S) <= Len(s) /\ Cardinality(S) \in Nat
  <2>1. IsFiniteSet(DOMAIN s) /\ Cardinality(DOMAIN s) = Len(s)
    BY Positions
  <2> QED BY <2>1, FS_Subset, FS_CardinalityType
<1>4. ASSUME NEW n \in 1 .. Cardinality(S) PROVE At(n) \in S /\ Rank(S, At(n)) = n
  BY <1>1, <1>3, <1>4, RankExists
<1>5. ASSUME NEW i \in S PROVE Rank(S, i) \in 1 .. Cardinality(S) /\ At(Rank(S, i)) = i
  <2>1. Rank(S, i) \in 1 .. Cardinality(S)
    BY <1>1, <1>3, RanksGrow
  <2>2. \A k \in S : Rank(S, k) = Rank(S, i) => k = i
    BY <1>1, <1>3, DifferentRanks
  <2>3. At(Rank(S, i)) \in S /\ Rank(S, At(Rank(S, i))) = Rank(S, i)
    BY <2>1, <1>4
  <2> QED BY <2>1, <2>2, <2>3
<1>6. Selected(s, S) = [n \in 1 .. Cardinality(S) |-> s[At(n)]]
  BY DEF Selected
<1>7. \A i \in S : s[i] \in V
  BY <1>1
<1> HIDE DEF At
<1>8. Selected(s, S) \in Seq(V) /\ Len(Selected(s, S)) = Cardinality(S)
  <2>1. \A n \in 1 .. Cardinality(S) : s[At(n)] \in V
    BY <1>4, <1>7
  <2> QED BY <2>1, <1>3, <1>6
<1> QED BY <1>3, <1>4, <1>5, <1>6, <1>8

LEMMA SelectAll ==
    ASSUME NEW V, NEW s \in Seq(V)
    PROVE  Selected(s, DOMAIN s) = s
<1> DEFINE At(n) == CHOOSE i \in DOMAIN s : Rank(DOMAIN s, i) = n
<1>1. DOMAIN s = 1 .. Len(s) /\ Len(s) \in Nat /\ Cardinality(DOMAIN s) = Len(s)
  BY Positions
<1>2. ASSUME NEW n \in DOMAIN s PROVE At(n) = n
  <2>1. \A i \in DOMAIN s : Rank(DOMAIN s, i) = i
    BY <1>1, RankOfInterval
  <2> QED BY <2>1
<1>3. Selected(s, DOMAIN s) = [n \in DOMAIN s |-> s[At(n)]]
  BY <1>1 DEF Selected
<1> HIDE DEF At
<1> QED BY <1>2, <1>3

\* Nothing is left out when as many are selected as there are.
LEMMA SelectedAsMany ==
    ASSUME NEW V, NEW s \in Seq(V), NEW S, S \subseteq DOMAIN s, Len(Selected(s, S)) = Len(s)
    PROVE  S = DOMAIN s
<1> QED BY Positions, SelectedIs, FS_Subset

-----------------------------------------------------------------------------
(* Options *)

DataTypes == {"text", "nominal", "ordinal", "discrete", "continuous"}
Kinds == TextKinds \union ChoiceKinds \union NumberKinds \union {"scale"}
Item == [kind : Kinds, ordered : BOOLEAN, start : Int, choices : Seq(Option), scores : Seq(Int),
         next : Nat \ {0}, scale : {<<>>} \union (Int \X Int), tracked : BOOLEAN, type : DataTypes]

LEMMA WrittenIs ==
    ASSUME NEW rows \in Seq(Option)
    PROVE  /\ Written(rows) \in Seq(Option)
           /\ \A n \in DOMAIN Written(rows) :
                  /\ Written(rows)[n].label # ""
                  /\ \E i \in DOMAIN rows : Written(rows)[n] = rows[i]
           /\ \A i \in DOMAIN rows : rows[i].label # "" =>
                  \E n \in DOMAIN Written(rows) : Written(rows)[n] = rows[i]
           /\ Codes(Written(rows)) \subseteq Codes(rows)
<1> DEFINE S == {i \in DOMAIN rows : rows[i].label # ""}
<1>1. Written(rows) = Selected(rows, S) /\ S \subseteq DOMAIN rows
  BY DEF Written
<1>nonblank. \A i \in S : rows[i].label # ""
  OBVIOUS
<1>positions. \A i \in DOMAIN rows : rows[i].label # "" => i \in S
  OBVIOUS
<1> HIDE DEF S
<1>2. /\ Selected(rows, S) \in Seq(Option)
      /\ \A n \in DOMAIN Selected(rows, S) : \E i \in S : Selected(rows, S)[n] = rows[i]
      /\ \A i \in S : \E n \in DOMAIN Selected(rows, S) : Selected(rows, S)[n] = rows[i]
  BY <1>1, SelectedIs
<1>3. \A n \in DOMAIN Written(rows) :
          /\ Written(rows)[n].label # ""
          /\ \E i \in DOMAIN rows : Written(rows)[n] = rows[i]
  BY <1>1, <1>2, <1>nonblank
<1>4. \A i \in DOMAIN rows : rows[i].label # "" =>
          \E n \in DOMAIN Written(rows) : Written(rows)[n] = rows[i]
  BY <1>1, <1>2, <1>positions
<1>5. Codes(Written(rows)) \subseteq Codes(rows)
  BY <1>3 DEF Codes
<1> QED BY <1>1, <1>2, <1>3, <1>4, <1>5

LEMMA WrittenAlready ==
    ASSUME NEW rows \in Seq(Option), \A i \in DOMAIN rows : rows[i].label # ""
    PROVE  Written(rows) = rows
<1>1. {i \in DOMAIN rows : rows[i].label # ""} = DOMAIN rows
  OBVIOUS
<1> QED BY <1>1, SelectAll DEF Written

\* The counter is above every code that the rows bring along, and stays when it was already.
LEMMA CounterIs ==
    ASSUME NEW item \in Item, NEW rows \in Seq(Option)
    PROVE  /\ CounterFor(item, rows) \in Nat \ {0}
           /\ CounterFor(item, rows) >= item.next
           /\ \A code \in Codes(rows) : code \in Nat \ {0} /\ code < CounterFor(item, rows)
           /\ (\A code \in Codes(rows) : code < item.next) => CounterFor(item, rows) = item.next
<1> DEFINE above == {item.next} \union {code + 1 : code \in Codes(rows)}
           f == [i \in 0 .. Len(rows) |->
                    IF i = 0 THEN item.next
                    ELSE IF rows[i].code = 0 THEN item.next ELSE rows[i].code + 1]
<1>1. item.next \in Nat \ {0} /\ Len(rows) \in Nat /\ DOMAIN rows = 1 .. Len(rows)
  BY DEF Item
<1>2. \A i \in DOMAIN rows : rows[i].code \in Nat
  <2>1. \A i \in DOMAIN rows : rows[i] \in Option
    OBVIOUS
  <2> QED BY <2>1 DEF Option
<1>3. \A code \in Codes(rows) : code \in Nat \ {0}
  BY <1>2 DEF Codes
<1>4. above \subseteq Nat \ {0} /\ item.next \in above /\ above # {}
  BY <1>1, <1>3
<1>5. IsFiniteSet(above)
  <2>1. \A i \in DOMAIN rows : rows[i].code # 0 => rows[i].code \in Codes(rows)
    BY DEF Codes
  <2>2. ASSUME NEW i \in 0 .. Len(rows) PROVE f[i] \in above
    BY <1>1, <2>1
  <2>3. ASSUME NEW n \in above PROVE \E i \in 0 .. Len(rows) : f[i] = n
    <3>1. CASE n = item.next
      BY <3>1, <1>1
    <3>2. CASE \E code \in Codes(rows) : n = code + 1
      <4>1. PICK i \in DOMAIN rows : rows[i].code # 0 /\ n = rows[i].code + 1
        BY <3>2 DEF Codes
      <4> QED BY <4>1, <1>1
    <3> QED BY <3>1, <3>2
  <2>4. f \in Surjection(0 .. Len(rows), above)
    BY <2>2, <2>3 DEF Surjection
  <2>5. IsFiniteSet(0 .. Len(rows))
    <3>1. 0 \in Int /\ Len(rows) \in Int
      BY <1>1
    <3> QED BY <3>1, FS_Interval
  <2> QED BY <2>4, <2>5, FS_Surjection
<1>6. \E n \in above : \A m \in above : m <= n
  <2>1. above \subseteq Int
    BY <1>4
  <2> QED BY <2>1, <1>4, <1>5, GreatestElement
<1>7. CounterFor(item, rows) \in above /\ \A m \in above : m <= CounterFor(item, rows)
  BY <1>6 DEF CounterFor
<1>8. \A code \in Codes(rows) : code < CounterFor(item, rows)
  <2> SUFFICES ASSUME NEW code \in Codes(rows) PROVE code < CounterFor(item, rows)
    OBVIOUS
  <2>1. code + 1 \in above /\ code + 1 <= CounterFor(item, rows)
    BY <1>7
  <2>2. CounterFor(item, rows) \in Nat /\ code \in Nat
    BY <1>3, <1>4, <1>7
  <2> QED BY <2>1, <2>2
<1>9. ASSUME \A code \in Codes(rows) : code < item.next PROVE CounterFor(item, rows) = item.next
  <2>1. \A m \in above : m <= item.next
    BY <1>9, <1>1, <1>3
  <2>2. CounterFor(item, rows) <= item.next /\ item.next <= CounterFor(item, rows)
    BY <2>1, <1>4, <1>7
  <2>3. CounterFor(item, rows) \in Nat
    BY <1>4, <1>7
  <2> QED BY <2>2, <2>3, <1>1
<1>10. CounterFor(item, rows) \in Nat \ {0} /\ CounterFor(item, rows) >= item.next
  <2>1. item.next <= CounterFor(item, rows) /\ CounterFor(item, rows) \in Nat \ {0}
    BY <1>4, <1>7
  <2> QED BY <2>1, <1>1
<1> QED BY <1>10, <1>3, <1>4, <1>7, <1>8, <1>9

\* How many of the first n options have no code yet.
Uncoded(rows, n) == CountTo(rows, n, LAMBDA c : c.code = 0)

LEMMA UncodedIs ==
    ASSUME NEW rows \in Seq(Option), NEW n \in 0 .. Len(rows)
    PROVE  /\ Uncoded(rows, n) \in Nat
           /\ \A i \in 1 .. n : rows[i].code = 0 => Uncoded(rows, i - 1) < Uncoded(rows, n)
           /\ (\A i \in 1 .. n : rows[i].code # 0) => Uncoded(rows, n) = 0
<1> DEFINE Z(m) == {i \in 1 .. m : rows[i].code = 0}
<1>1. \A m : Uncoded(rows, m) = Cardinality(Z(m))
  BY DEF Uncoded, CountTo
<1>2. IsFiniteSet(1 .. n)
  <2>1. 1 \in Int /\ n \in Int
    OBVIOUS
  <2> QED BY <2>1, FS_Interval
<1>3. IsFiniteSet(Z(n)) /\ Cardinality(Z(n)) \in Nat
  BY <1>2, FS_Subset, FS_CardinalityType
<1>4. ASSUME NEW i \in 1 .. n, rows[i].code = 0 PROVE Cardinality(Z(i - 1)) < Cardinality(Z(n))
  <2>1. Z(i - 1) \subseteq Z(n) /\ i \in Z(n) /\ i \notin Z(i - 1)
    BY <1>4
  <2>2. /\ Cardinality(Z(i - 1)) <= Cardinality(Z(n)) /\ Cardinality(Z(i - 1)) # Cardinality(Z(n))
        /\ Cardinality(Z(i - 1)) \in Nat
    BY <2>1, <1>3, FS_Subset, FS_CardinalityType
  <2> QED BY <2>2, <1>3
<1>5. ASSUME \A i \in 1 .. n : rows[i].code # 0 PROVE Cardinality(Z(n)) = 0
  <2>1. Z(n) = {}
    BY <1>5
  <2> QED BY <2>1, FS_EmptySet
<1> QED BY <1>1, <1>3, <1>4, <1>5

\* Options that get a number keep their label, get numbers from the counter on, each its own.
LEMMA CodedIs ==
    ASSUME NEW rows \in Seq(Option), NEW counter \in Nat \ {0},
           \A code \in Codes(rows) : code < counter
    PROVE  /\ Coded(rows, counter) \in Seq(Option) /\ DOMAIN Coded(rows, counter) = DOMAIN rows
           /\ Len(Coded(rows, counter)) = Len(rows)
           /\ \A i \in DOMAIN rows :
                  /\ Coded(rows, counter)[i].label = rows[i].label
                  /\ Coded(rows, counter)[i].excluded = rows[i].excluded
                  /\ Coded(rows, counter)[i].code # 0
                  /\ Coded(rows, counter)[i].code < counter + Uncoded(rows, Len(rows))
                  /\ \/ Coded(rows, counter)[i].code = rows[i].code
                     \/ Coded(rows, counter)[i].code >= counter
           /\ DistinctCodes(rows) => DistinctCodes(Coded(rows, counter))
<1> DEFINE new(i) == counter + Uncoded(rows, i - 1)
           row(i) == IF rows[i].code # 0 THEN rows[i] ELSE [rows[i] EXCEPT !.code = new(i)]
           C == Coded(rows, counter)
<1>1. DOMAIN rows = 1 .. Len(rows) /\ Len(rows) \in Nat
  OBVIOUS
<1>2. C = [i \in DOMAIN rows |-> row(i)]
  BY DEF Coded, Uncoded
<1>3. ASSUME NEW i \in DOMAIN rows
      PROVE  /\ rows[i] \in Option /\ i - 1 \in 0 .. Len(rows)
             /\ Uncoded(rows, i - 1) \in Nat /\ Uncoded(rows, Len(rows)) \in Nat
             /\ rows[i].code = 0 => Uncoded(rows, i - 1) < Uncoded(rows, Len(rows))
             /\ rows[i].code # 0 => rows[i].code < counter
  <2>1. rows[i] \in Option /\ i - 1 \in 0 .. Len(rows) /\ Len(rows) \in 0 .. Len(rows)
    BY <1>1
  <2>2. rows[i].code # 0 => rows[i].code \in Codes(rows)
    BY DEF Codes
  <2> QED BY <2>1, <2>2, <1>1, UncodedIs
<1> HIDE DEF new
<1>4. ASSUME NEW i \in DOMAIN rows
      PROVE  /\ row(i) \in Option /\ row(i).label = rows[i].label /\ row(i).excluded = rows[i].excluded
             /\ row(i).code = IF rows[i].code # 0 THEN rows[i].code ELSE new(i)
  <2>1. new(i) \in Nat
    BY <1>3 DEF new
  <2> QED BY <2>1, <1>3 DEF Option
<1> HIDE DEF row
<1>5. ASSUME NEW i \in DOMAIN rows
      PROVE  /\ row(i).code # 0 /\ row(i).code < counter + Uncoded(rows, Len(rows))
             /\ row(i).code = rows[i].code \/ row(i).code >= counter
  <2>1. rows[i].code \in Nat
    BY <1>3 DEF Option
  <2> QED BY <2>1, <1>3, <1>4 DEF new
<1>6. C \in Seq(Option) /\ DOMAIN C = DOMAIN rows /\ Len(C) = Len(rows)
  <2>1. C = [i \in 1 .. Len(rows) |-> row(i)]
    BY <1>1, <1>2
  <2>2. \A i \in 1 .. Len(rows) : row(i) \in Option
    BY <1>1, <1>4
  <2> HIDE DEF C
  <2> QED BY <2>1, <2>2, <1>1
<1>7. \A i \in DOMAIN rows : C[i] = row(i)
  BY <1>2
<1>8. ASSUME DistinctCodes(rows), NEW i \in DOMAIN rows, NEW j \in DOMAIN rows,
             row(i).code = row(j).code, i < j
      PROVE  FALSE
  <2>1. rows[i].code \in Nat /\ rows[j].code \in Nat
    BY <1>3 DEF Option
  <2>2. CASE rows[i].code # 0 /\ rows[j].code # 0
    <3>1. i = j
      BY <1>4, <1>8, <2>2 DEF DistinctCodes
    <3> QED BY <3>1, <1>1, <1>8
  <2>3. CASE rows[i].code # 0 /\ rows[j].code = 0
    BY <2>1, <2>3, <1>3, <1>4, <1>8 DEF new
  <2>4. CASE rows[i].code = 0 /\ rows[j].code # 0
    BY <2>1, <2>4, <1>3, <1>4, <1>8 DEF new
  <2>5. CASE rows[i].code = 0 /\ rows[j].code = 0
    <3>1. j - 1 \in 0 .. Len(rows) /\ i \in 1 .. (j - 1)
      BY <1>1, <1>8
    <3>2. Uncoded(rows, i - 1) < Uncoded(rows, j - 1)
      BY <3>1, <2>5, UncodedIs
    <3>3. new(i) = new(j)
      BY <2>5, <1>4, <1>8
    <3> QED BY <3>2, <3>3, <1>3 DEF new
  <2> QED BY <2>2, <2>3, <2>4, <2>5
<1>9. ASSUME DistinctCodes(rows) PROVE DistinctCodes(C)
  <2> SUFFICES ASSUME NEW i \in DOMAIN rows, NEW j \in DOMAIN rows, row(i).code = row(j).code, i # j
               PROVE  FALSE
    BY <1>6, <1>7 DEF DistinctCodes
  <2>1. i < j \/ j < i
    BY <1>1
  <2> QED BY <2>1, <1>8, <1>9
<1> HIDE DEF C
<1> QED BY <1>4, <1>5, <1>6, <1>7, <1>9 DEF C

LEMMA CodedAlready ==
    ASSUME NEW rows \in Seq(Option), \A i \in DOMAIN rows : rows[i].code # 0, NEW counter
    PROVE  Coded(rows, counter) = rows /\ Uncoded(rows, Len(rows)) = 0
<1>1. DOMAIN rows = 1 .. Len(rows) /\ Len(rows) \in 0 .. Len(rows)
  OBVIOUS
<1>2. Uncoded(rows, Len(rows)) = 0
  BY <1>1, UncodedIs
<1>3. Coded(rows, counter) = rows
  <2> DEFINE numbered(i) == [rows[i] EXCEPT !.code = counter + Uncoded(rows, i - 1)]
  <2>1. Coded(rows, counter) = [i \in DOMAIN rows |-> IF rows[i].code # 0 THEN rows[i] ELSE numbered(i)]
    BY DEF Coded, Uncoded
  <2> HIDE DEF numbered
  <2> QED BY <2>1
<1> QED BY <1>2, <1>3

LEMMA ScoredIs ==
    ASSUME NEW rows \in Seq(Option), NEW start \in Int
    PROVE  Scored(rows, start) \in Seq(Int)
<1> DEFINE In(n) == {i \in 1 .. n : ~rows[i].excluded}
<1>1. DOMAIN rows = 1 .. Len(rows) /\ Len(rows) \in Nat
  OBVIOUS
<1>2. ASSUME NEW i \in DOMAIN rows PROVE Cardinality(In(i - 1)) \in Nat
  <2>1. 1 \in Int /\ i - 1 \in Int
    BY <1>1
  <2>2. IsFiniteSet(1 .. (i - 1))
    BY <2>1, FS_Interval
  <2> QED BY <2>2, FS_Subset, FS_CardinalityType
<1>3. Scored(rows, start) = [i \in DOMAIN rows |->
          IF rows[i].excluded THEN NoScore ELSE start + Cardinality(In(i - 1))]
  BY DEF Scored, CountTo
<1>4. NoScore \in Int
  BY DEF NoScore
<1> HIDE DEF In
<1>5. \A i \in 1 .. Len(rows) :
          (IF rows[i].excluded THEN NoScore ELSE start + Cardinality(In(i - 1))) \in Int
  BY <1>1, <1>2, <1>4
<1> QED BY <1>1, <1>3, <1>5

\* Scores depend on what is left out, and on nothing else.
LEMMA SameScores ==
    ASSUME NEW rows \in Seq(Option), NEW others \in Seq(Option), DOMAIN others = DOMAIN rows,
           \A i \in DOMAIN rows : others[i].excluded = rows[i].excluded, NEW start
    PROVE  Scored(others, start) = Scored(rows, start)
<1> DEFINE In(r, n) == {i \in 1 .. n : ~r[i].excluded}
<1>1. DOMAIN rows = 1 .. Len(rows) /\ Len(rows) \in Nat
  OBVIOUS
<1>2. ASSUME NEW i \in DOMAIN rows PROVE In(others, i - 1) = In(rows, i - 1)
  <2>1. \A k \in 1 .. (i - 1) : k \in DOMAIN rows
    BY <1>1
  <2> QED BY <2>1
<1>3. ASSUME NEW r
      PROVE  Scored(r, start) = [i \in DOMAIN r |->
                 IF r[i].excluded THEN NoScore ELSE start + Cardinality(In(r, i - 1))]
  BY DEF Scored, CountTo
<1> HIDE DEF In
<1> QED BY <1>2, <1>3

-----------------------------------------------------------------------------
(* Questions *)

\* The rows of a card that become options.
Options(item) == IF item.kind \in ChoiceKinds THEN Written(item.choices) ELSE <<>>
Counter(item) == CounterFor(item, Options(item))

LEMMA OptionsAre ==
    ASSUME NEW item \in Item
    PROVE  /\ Options(item) \in Seq(Option)
           /\ \A i \in DOMAIN Options(item) : Options(item)[i].label # ""
           /\ Codes(Options(item)) \subseteq Codes(item.choices)
           /\ Counter(item) \in Nat \ {0} /\ Counter(item) >= item.next
           /\ \A code \in Codes(Options(item)) : code \in Nat \ {0} /\ code < Counter(item)
           /\ (\A code \in Codes(Options(item)) : code < item.next) => Counter(item) = item.next
<1>1. item.choices \in Seq(Option)
  BY DEF Item
<1>2. CASE item.kind \in ChoiceKinds
  <2>1. Options(item) = Written(item.choices)
    BY <1>2 DEF Options
  <2>2. /\ Written(item.choices) \in Seq(Option)
        /\ \A i \in DOMAIN Written(item.choices) : Written(item.choices)[i].label # ""
        /\ Codes(Written(item.choices)) \subseteq Codes(item.choices)
    <3> HIDE <1>2
    <3> QED BY <1>1, WrittenIs
  <2>3. /\ Options(item) \in Seq(Option)
        /\ \A i \in DOMAIN Options(item) : Options(item)[i].label # ""
        /\ Codes(Options(item)) \subseteq Codes(item.choices)
    BY <2>1, <2>2
  <2> QED BY <2>3, CounterIs DEF Counter
<1>3. CASE item.kind \notin ChoiceKinds
  <2>1. Options(item) = <<>> /\ Options(item) \in Seq(Option)
    BY <1>3 DEF Options
  <2>2. Codes(Options(item)) = {}
    BY <2>1 DEF Codes
  <2>3. \A i \in DOMAIN Options(item) : Options(item)[i].label # ""
    <3>1. DOMAIN <<>> = {}
      OBVIOUS
    <3> QED BY <2>1, <3>1
  <2>4. Codes(Options(item)) \subseteq Codes(item.choices)
    BY <2>2
  <2> QED BY <2>1, <2>3, <2>4, CounterIs DEF Counter
<1> QED BY <1>2, <1>3

Ordered(item) == item.ordered /\ item.kind = "single_choice"

\* What normalize_question makes of each field.
LEMMA NormalizeIs ==
    ASSUME NEW item \in Item
    PROVE  /\ NormalizeQuestion(item) \in Item
           /\ NormalizeQuestion(item).kind = item.kind
           /\ NormalizeQuestion(item).ordered = Ordered(item)
           /\ NormalizeQuestion(item).start = item.start
           /\ NormalizeQuestion(item).choices = Coded(Options(item), Counter(item))
           /\ NormalizeQuestion(item).scores =
                  IF Ordered(item) THEN Scored(Options(item), item.start)
                  ELSE [i \in DOMAIN Options(item) |-> NoScore]
           /\ NormalizeQuestion(item).next = Counter(item) + Uncoded(Options(item), Len(Options(item)))
           /\ NormalizeQuestion(item).scale = IF item.kind = "scale" THEN item.scale ELSE <<>>
           /\ NormalizeQuestion(item).tracked = (item.tracked /\ item.kind \in TextKinds)
           /\ NormalizeQuestion(item).type = DataType(item.kind, Ordered(item))
<1> DEFINE rows == Options(item)
           choices == Coded(rows, Counter(item))
           scores == IF Ordered(item) THEN Scored(rows, item.start)
                     ELSE [i \in DOMAIN rows |-> NoScore]
           next == Counter(item) + Uncoded(rows, Len(rows))
           scale == IF item.kind = "scale" THEN item.scale ELSE <<>>
           tracked == item.tracked /\ item.kind \in TextKinds
           type == DataType(item.kind, Ordered(item))
<1>1. NormalizeQuestion(item) =
          [item EXCEPT !.ordered = Ordered(item), !.choices = choices, !.scores = scores, !.next = next,
                       !.scale = scale, !.tracked = tracked, !.type = type]
  BY DEF NormalizeQuestion, Options, Counter, Ordered, Uncoded
<1>2. rows \in Seq(Option) /\ Counter(item) \in Nat \ {0} /\ \A code \in Codes(rows) : code < Counter(item)
  BY OptionsAre
<1>3. choices \in Seq(Option)
  BY <1>2, CodedIs
<1>4. scores \in Seq(Int)
  <2>1. Scored(rows, item.start) \in Seq(Int)
    BY <1>2, ScoredIs DEF Item
  <2>2. [i \in DOMAIN rows |-> NoScore] \in Seq(Int)
    BY <1>2 DEF NoScore
  <2> QED BY <2>1, <2>2
<1>5. next \in Nat \ {0}
  <2>1. Len(rows) \in 0 .. Len(rows)
    BY <1>2
  <2>2. Uncoded(rows, Len(rows)) \in Nat
    BY <1>2, <2>1, UncodedIs
  <2> QED BY <2>2, <1>2
<1>6. type \in DataTypes
  <2>1. item.kind \in Kinds
    BY DEF Item
  <2>2. CASE item.kind \in TextKinds
    BY <2>2 DEF DataType, DataTypes
  <2>3. CASE item.kind \in {"single_choice", "scale"}
    BY <2>3 DEF DataType, DataTypes, TextKinds
  <2>4. CASE item.kind \in {"multiple_choice", "integer", "decimal"}
    BY <2>4 DEF DataType, DataTypes, TextKinds
  <2> QED BY <2>1, <2>2, <2>3, <2>4 DEF Kinds, ChoiceKinds, NumberKinds
<1>7. /\ Ordered(item) \in BOOLEAN /\ scale \in {<<>>} \union (Int \X Int) /\ tracked \in BOOLEAN
  BY DEF Item, Ordered
<1> HIDE DEF choices, scores, next, scale, tracked, type
<1>8. NormalizeQuestion(item) \in Item
  BY <1>1, <1>3, <1>4, <1>5, <1>6, <1>7 DEF Item
<1>9. /\ NormalizeQuestion(item).kind = item.kind
      /\ NormalizeQuestion(item).ordered = Ordered(item)
      /\ NormalizeQuestion(item).start = item.start
      /\ NormalizeQuestion(item).choices = choices
      /\ NormalizeQuestion(item).scores = scores
      /\ NormalizeQuestion(item).next = next
      /\ NormalizeQuestion(item).scale = scale
      /\ NormalizeQuestion(item).tracked = tracked
      /\ NormalizeQuestion(item).type = type
  BY <1>1 DEF Item
<1> QED BY <1>8, <1>9 DEF choices, scores, next, scale, tracked, type

\* Every option of a stored question has a code below its counter: one it had, or a number
\* from its counter on.
LEMMA StoredCodes ==
    ASSUME NEW item \in Item
    PROVE  LET stored == NormalizeQuestion(item) IN
           /\ \A i \in DOMAIN stored.choices : stored.choices[i].code # 0 /\ stored.choices[i].label # ""
           /\ \A code \in Codes(stored.choices) :
                  /\ code \in Nat \ {0} /\ code < stored.next
                  /\ code \in Codes(item.choices) \/ code >= item.next
           /\ stored.next >= item.next /\ stored.next \in Nat \ {0}
<1> DEFINE rows == Options(item)
           stored == NormalizeQuestion(item)
<1>labels. \A i \in DOMAIN rows : rows[i].label # ""
  BY OptionsAre
<1>rows. rows \in Seq(Option) /\ Counter(item) \in Nat \ {0}
  BY OptionsAre
<1>below. \A code \in Codes(rows) : code < Counter(item)
  BY OptionsAre
<1>codes. Codes(rows) \subseteq Codes(item.choices)
  BY OptionsAre
<1>above. Counter(item) >= item.next
  BY OptionsAre
<1>2. /\ stored \in Item /\ stored.choices = Coded(rows, Counter(item))
      /\ stored.next = Counter(item) + Uncoded(rows, Len(rows))
  BY NormalizeIs
<1>next. item.next \in Nat
  BY DEF Item
<1> HIDE DEF rows, stored
<1>3. /\ DOMAIN stored.choices = DOMAIN rows
      /\ \A i \in DOMAIN rows :
             /\ stored.choices[i].label = rows[i].label
             /\ stored.choices[i].code # 0
             /\ stored.choices[i].code < stored.next
             /\ stored.choices[i].code = rows[i].code \/ stored.choices[i].code >= Counter(item)
  BY <1>rows, <1>below, <1>2, CodedIs
<1>4. Uncoded(rows, Len(rows)) \in Nat
  <2>1. Len(rows) \in 0 .. Len(rows)
    BY <1>rows
  <2> QED BY <1>rows, <2>1, UncodedIs
<1>5. stored.next >= item.next /\ stored.next \in Nat \ {0}
  BY <1>rows, <1>above, <1>2, <1>4, <1>next
<1>6. \A i \in DOMAIN stored.choices : stored.choices[i].code # 0 /\ stored.choices[i].label # ""
  BY <1>labels, <1>3
<1>7. ASSUME NEW code \in Codes(stored.choices)
      PROVE  /\ code \in Nat \ {0} /\ code < stored.next
             /\ code \in Codes(item.choices) \/ code >= item.next
  <2>1. PICK i \in DOMAIN rows : code = stored.choices[i].code
    BY <1>3 DEF Codes
  <2>2. stored.choices[i] \in Option
    BY <1>2, <1>3 DEF Item
  <2>3. code \in Nat \ {0} /\ code < stored.next
    BY <2>1, <2>2, <1>3 DEF Option
  <2>4. CASE code = rows[i].code
    <3>1. code \in Codes(rows)
      BY <2>3, <2>4 DEF Codes
    <3> QED BY <3>1, <2>3, <1>codes
  <2>5. CASE code >= Counter(item)
    BY <2>3, <2>5, <1>rows, <1>above, <1>next
  <2> QED BY <2>1, <2>4, <2>5, <1>3
<1>8. /\ \A i \in DOMAIN stored.choices : stored.choices[i].code # 0 /\ stored.choices[i].label # ""
      /\ \A code \in Codes(stored.choices) :
             /\ code \in Nat \ {0} /\ code < stored.next
             /\ code \in Codes(item.choices) \/ code >= item.next
      /\ stored.next >= item.next /\ stored.next \in Nat \ {0}
  BY <1>5, <1>6, <1>7
<1> QED BY <1>8 DEF stored

LEMMA SameItem ==
    ASSUME NEW q \in Item, NEW r \in Item,
           q.kind = r.kind, q.ordered = r.ordered, q.start = r.start, q.choices = r.choices,
           q.scores = r.scores, q.next = r.next, q.scale = r.scale, q.tracked = r.tracked,
           q.type = r.type
    PROVE  q = r
<1> DEFINE Fields == {"kind", "ordered", "start", "choices", "scores", "next", "scale", "tracked", "type"}
<1>1. DOMAIN q = Fields /\ DOMAIN r = Fields
  BY DEF Item
<1>2. q = [f \in Fields |-> q[f]] /\ r = [f \in Fields |-> r[f]]
  BY DEF Item
<1>3. \A f \in Fields : q[f] = r[f]
  OBVIOUS
<1> HIDE DEF Fields
<1> QED BY <1>2, <1>3

\* Storing a stored question again changes nothing.
LEMMA NormalizedAlready ==
    ASSUME NEW item \in Item
    PROVE  NormalizeQuestion(NormalizeQuestion(item)) = NormalizeQuestion(item)
<1> DEFINE stored == NormalizeQuestion(item)
           again == NormalizeQuestion(stored)
<1>1. /\ stored \in Item /\ stored.kind = item.kind /\ stored.ordered = Ordered(item)
      /\ stored.start = item.start
      /\ stored.choices = Coded(Options(item), Counter(item))
      /\ stored.scores = IF Ordered(item) THEN Scored(Options(item), item.start)
                         ELSE [i \in DOMAIN Options(item) |-> NoScore]
      /\ stored.scale = IF item.kind = "scale" THEN item.scale ELSE <<>>
      /\ stored.tracked = (item.tracked /\ item.kind \in TextKinds)
      /\ stored.type = DataType(item.kind, Ordered(item))
  BY NormalizeIs
<1>2. /\ \A i \in DOMAIN stored.choices : stored.choices[i].code # 0 /\ stored.choices[i].label # ""
      /\ \A code \in Codes(stored.choices) : code < stored.next
  BY StoredCodes
<1>3. /\ Options(item) \in Seq(Option) /\ Counter(item) \in Nat \ {0}
      /\ \A code \in Codes(Options(item)) : code < Counter(item)
  BY OptionsAre
<1>4. /\ DOMAIN stored.choices = DOMAIN Options(item)
      /\ Len(stored.choices) = Len(Options(item))
      /\ \A i \in DOMAIN Options(item) : stored.choices[i].excluded = Options(item)[i].excluded
  BY <1>1, <1>3, CodedIs
<1> HIDE DEF stored
<1>5. stored.choices \in Seq(Option)
  BY <1>1 DEF Item
<1>6. Options(stored) = stored.choices
  <2>1. CASE item.kind \in ChoiceKinds
    <3>1. Written(stored.choices) = stored.choices
      BY <1>2, <1>5, WrittenAlready
    <3> QED BY <3>1, <2>1, <1>1 DEF Options
  <2>2. CASE item.kind \notin ChoiceKinds
    <3>1. Options(item) = <<>> /\ Len(<<>>) = 0
      BY <2>2 DEF Options
    <3>2. Len(stored.choices) = 0
      BY <3>1, <1>4
    <3>3. stored.choices = <<>>
      BY <3>2, <1>5, EmptySeq
    <3> QED BY <3>3, <2>2, <1>1 DEF Options
  <2> QED BY <2>1, <2>2
<1>7. Counter(stored) = stored.next
  <2>1. \A code \in Codes(stored.choices) : code < stored.next
    BY <1>2
  <2> QED BY <2>1, <1>6, <1>1, OptionsAre
<1>8. Coded(stored.choices, Counter(stored)) = stored.choices
      /\ Uncoded(stored.choices, Len(stored.choices)) = 0
  BY <1>2, <1>5, CodedAlready
<1>9. Ordered(stored) = Ordered(item)
  BY <1>1 DEF Ordered
<1>10. Scored(stored.choices, stored.start) = Scored(Options(item), item.start)
  BY <1>1, <1>3, <1>4, <1>5, SameScores
<1>11. /\ again.kind = stored.kind /\ again.start = stored.start
       /\ again.ordered = stored.ordered
       /\ again.choices = stored.choices
       /\ again.scores = stored.scores
       /\ again.next = stored.next
       /\ again.scale = stored.scale
       /\ again.tracked = stored.tracked
       /\ again.type = stored.type
       /\ again \in Item
  <2>1. /\ again.kind = stored.kind /\ again.start = stored.start
        /\ again.ordered = Ordered(stored)
        /\ again.choices = Coded(Options(stored), Counter(stored))
        /\ again.scores = IF Ordered(stored) THEN Scored(Options(stored), stored.start)
                          ELSE [i \in DOMAIN Options(stored) |-> NoScore]
        /\ again.next = Counter(stored) + Uncoded(Options(stored), Len(Options(stored)))
        /\ again.scale = IF stored.kind = "scale" THEN stored.scale ELSE <<>>
        /\ again.tracked = (stored.tracked /\ stored.kind \in TextKinds)
        /\ again.type = DataType(stored.kind, Ordered(stored))
        /\ again \in Item
    BY <1>1, NormalizeIs
  <2> HIDE DEF again
  <2>2. again.choices = stored.choices
    BY <2>1, <1>6, <1>8
  <2>3. again.next = stored.next
    <3>1. stored.next \in Nat
      BY <1>1 DEF Item
    <3> QED BY <3>1, <2>1, <1>6, <1>7, <1>8
  <2>4. again.scores = stored.scores
    BY <2>1, <1>1, <1>4, <1>6, <1>9, <1>10
  <2>5. again.scale = stored.scale /\ again.type = stored.type /\ again.ordered = stored.ordered
    BY <2>1, <1>1, <1>9
  <2>6. again.tracked = stored.tracked
    <3>1. stored.tracked \in BOOLEAN
      BY <1>1 DEF Item
    <3> QED BY <3>1, <2>1, <1>1
  <2> QED BY <2>1, <2>2, <2>3, <2>4, <2>5, <2>6
<1> HIDE DEF again
<1>12. again = stored
  BY <1>1, <1>11, SameItem
<1> QED BY <1>12 DEF again, stored

\* A card that was accepted is still acceptable after it was stored.
LEMMA AcceptableKept ==
    ASSUME NEW item \in Item, Acceptable(item)
    PROVE  Acceptable(NormalizeQuestion(item))
<1> DEFINE rows == Written(item.choices)
           stored == NormalizeQuestion(item)
           in(r) == {i \in DOMAIN r : ~r[i].excluded}
<1>1. /\ stored \in Item /\ stored.kind = item.kind /\ stored.ordered = Ordered(item)
      /\ stored.start = item.start
      /\ stored.choices = Coded(Options(item), Counter(item))
      /\ stored.scale = IF item.kind = "scale" THEN item.scale ELSE <<>>
  BY NormalizeIs
<1>2. \A i \in DOMAIN stored.choices : stored.choices[i].label # ""
  BY StoredCodes
<1>3. /\ Options(item) \in Seq(Option) /\ Counter(item) \in Nat \ {0}
      /\ \A code \in Codes(Options(item)) : code < Counter(item)
  BY OptionsAre
<1> HIDE DEF stored
<1>4. stored.choices \in Seq(Option) /\ Written(stored.choices) = stored.choices
  <2>1. stored.choices \in Seq(Option)
    BY <1>1 DEF Item
  <2> QED BY <2>1, <1>2, WrittenAlready
<1>5. ASSUME item.kind \in ChoiceKinds
      PROVE  /\ DistinctCodes(stored.choices) /\ DistinctLabels(stored.choices)
             /\ item.kind = "multiple_choice" => Included(stored.choices) = stored.choices
             /\ Len(Included(stored.choices)) = Len(Included(rows))
  <2>1. Options(item) = rows
    BY <1>5 DEF Options
  <2>2. /\ DistinctCodes(rows) /\ DistinctLabels(rows)
        /\ item.kind = "multiple_choice" => Included(rows) = rows
    BY <1>5 DEF Acceptable
  <2> HIDE DEF rows
  <2>3. /\ rows \in Seq(Option) /\ DOMAIN stored.choices = DOMAIN rows
        /\ Len(stored.choices) = Len(rows)
        /\ \A i \in DOMAIN rows : /\ stored.choices[i].label = rows[i].label
                                  /\ stored.choices[i].excluded = rows[i].excluded
        /\ DistinctCodes(stored.choices)
    BY <2>1, <2>2, <1>1, <1>3, CodedIs
  <2>4. Labels(stored.choices) = Labels(rows)
    BY <2>3 DEF Labels
  <2>5. in(stored.choices) = in(rows)
    BY <2>3
  <2>6. \A r : Included(r) = Selected(r, in(r))
    BY DEF Included
  <2>7. in(rows) \subseteq DOMAIN rows /\ in(stored.choices) \subseteq DOMAIN stored.choices
    OBVIOUS
  <2> HIDE DEF in
  <2>8. Len(Included(stored.choices)) = Cardinality(in(rows))
    BY <2>5, <2>6, <2>7, <1>4, SelectedIs
  <2>9. Len(Included(rows)) = Cardinality(in(rows))
    BY <2>3, <2>6, <2>7, SelectedIs
  <2>10. ASSUME item.kind = "multiple_choice" PROVE Included(stored.choices) = stored.choices
    <3>1. in(rows) = DOMAIN rows
      <4>1. Len(Selected(rows, in(rows))) = Len(rows)
        BY <2>2, <2>6, <2>10
      <4> QED BY <4>1, <2>3, <2>7, SelectedAsMany
    <3>2. Included(stored.choices) = Selected(stored.choices, DOMAIN stored.choices)
      BY <3>1, <2>3, <2>5, <2>6
    <3> QED BY <3>2, <1>4, SelectAll
  <2> QED BY <2>2, <2>3, <2>4, <2>8, <2>9, <2>10 DEF DistinctLabels
<1>6. ASSUME item.kind \in ChoiceKinds
      PROVE  Len(Included(stored.choices)) >=
                 IF stored.kind = "single_choice" /\ stored.ordered THEN 2 ELSE 1
  <2>1. Len(Included(rows)) >= IF item.kind = "single_choice" /\ item.ordered THEN 2 ELSE 1
    BY <1>6 DEF Acceptable
  <2> HIDE DEF rows
  <2> QED BY <2>1, <1>1, <1>5, <1>6 DEF Ordered
<1>7. /\ stored.start \in {0, 1}
      /\ stored.kind = "scale" => stored.scale[1] \in {0, 1} /\ stored.scale[2] \in 2 .. 10
  BY <1>1 DEF Acceptable
<1>8. Acceptable(stored)
  BY <1>1, <1>4, <1>5, <1>6, <1>7 DEF Acceptable
<1> QED BY <1>8 DEF stored

-----------------------------------------------------------------------------
(* The parts of the invariant *)

\* A question as it is stored: accepted, in normal form, its codes below its counter.
Stored == {item \in Item :
              /\ Acceptable(item) /\ NormalizeQuestion(item) = item
              /\ \A code \in Codes(item.choices) : code < item.next}

\* A revision: its numbers are below its counter.
Definitions == {d \in [questions : UNION {[N -> Stored] : N \in SUBSET (Nat \ {0})}, next : Nat \ {0}] :
                   \A n \in DOMAIN d.questions : n < d.next}

\* A revision later than another has no question and no option of it that the other had lost.
Continues(old, new) ==
    /\ old.next <= new.next
    /\ \A n \in DOMAIN new.questions : n < old.next => n \in DOMAIN old.questions
    /\ \A n \in DOMAIN old.questions \cap DOMAIN new.questions :
          /\ old.questions[n].next <= new.questions[n].next
          /\ \A code \in Codes(new.questions[n].choices) :
                code < old.questions[n].next => code \in Codes(old.questions[n].choices)

Steps == {"none", "form", "prefer", "judge", "stored", "mail", "thanked", "refused", "broken"}
Statuses == {"none", "kept", "received", "synced", "quarantined", "abandoned"}
Answered == UNION {[N -> Seq(Int)] : N \in SUBSET Nat}
Form == [pc : Steps, answers : Answered, consent : BOOLEAN]
Reply == [user : Users \union {None}, answers : Answered, consent : BOOLEAN, status : Statuses]

Typed ==
    /\ revision \in Seq(Definitions) /\ Len(revision) >= 1
    /\ published \in 0 .. Len(revision)
    /\ unconverted \in {None} \union LegacySurveys
    /\ setting \in {"open", "closed", "archived"}
    /\ tab \in [Tabs -> Form] /\ reply \in [Tabs -> Reply]
    /\ optIn \in [Users -> BOOLEAN] /\ mails \in [Tabs -> Nat]
    /\ scenario \in Scenarios /\ events \in 0 .. scenario.events

\* A draft has neither forms nor replies.
DraftIsEmpty ==
    /\ published = 0 => \A t \in Tabs : tab[t].pc = "none" /\ reply[t] = NoReply
    /\ unconverted # None => published = 0

\* A form is a customer's, and what was posted is something it offered.
FormsAreFilledIn ==
    \A t \in Tabs :
        /\ tab[t].pc # "none" => User(t) \in Users
        /\ tab[t].pc \notin {"none", "form"} => tab[t].answers \in Answers

\* A stored answer names options the question has, or points of its scale.
Readable(item, stored) ==
    /\ item.kind = "single_choice" =>
          \E code \in Codes(item.choices) : Range(stored) = {code}
    /\ item.kind = "multiple_choice" => Range(stored) # {} /\ Range(stored) \subseteq Codes(item.choices)
    /\ item.kind = "scale" =>
          Range(stored) # {} /\ {ToString(n) : n \in Range(stored)} \subseteq AnalysisLevels(item)

RepliesAreReadable ==
    \A k \in Tabs : reply[k] # NoReply =>
        /\ DOMAIN reply[k].answers \subseteq DOMAIN Questions
        /\ \A n \in DOMAIN reply[k].answers : Readable(Questions[n], reply[k].answers[n])
        /\ reply[k].status # "none"
        /\ scenario.via = "site" => reply[k].status = "kept"
        /\ scenario.via = "inbox" /\ reply[k].user # None => reply[k].status # "kept"

\* The reply of a form's key is what the form posted.
Holds(t) ==
    /\ reply[t] # NoReply /\ reply[t].user = User(t) /\ reply[t].answers = Encoded(t)
    /\ scenario.via = "inbox" => reply[t].consent = tab[t].consent

StoredBeforeThanks ==
    \A t \in Tabs : tab[t].pc \in {"stored", "mail", "thanked"} => Holds(t)

\* The mail of a reply is still to be sent until its form has sent it.
MailsFollowReplies ==
    \A t \in Tabs :
        /\ reply[t] = NoReply => mails[t] = 0
        /\ tab[t].pc \in {"stored", "mail"} => mails[t] = 0
        /\ mails[t] <= 1

RevisionsContinue ==
    \A i, k \in DOMAIN revision : i <= k => Continues(revision[i], revision[k])

IInv ==
    /\ Typed /\ DraftIsEmpty /\ FormsAreFilledIn /\ RepliesAreReadable /\ OneReplyPerCustomer
    /\ StoredBeforeThanks /\ MailsFollowReplies /\ RevisionsContinue

-----------------------------------------------------------------------------
(* Questions and revisions *)

LEMMA NewItemIs == NewItem \in Item /\ \A i \in DOMAIN NewItem.choices : FALSE
<1>1. <<>> \in Seq(Option) /\ <<>> \in Seq(Int) /\ DOMAIN <<>> = {}
  OBVIOUS
<1> QED BY <1>1 DEF NewItem, Item, Kinds, TextKinds, DataTypes

LEMMA CardIs ==
    ASSUME NEW item \in Item, NEW card \in CardForm
    PROVE  /\ WithCard(item, card) \in Item /\ WithCard(item, card).next = item.next
<1> DEFINE kind == KindFor(card.ui, FALSE)
           scale == IF card.ui = "scale" THEN <<1, 5>> ELSE <<>>
<1>1. card.ui \in UiTypes /\ card.ordered \in BOOLEAN /\ card.rows \in Seq(Option)
  BY DEF CardForm
<1>2. kind \in Kinds
  <2>1. CASE card.ui \in Displays
    BY <2>1 DEF KindFor, Displays, Kinds, ChoiceKinds
  <2>2. CASE card.ui = "checkbox"
    BY <2>2 DEF KindFor, Displays, Kinds, ChoiceKinds
  <2>3. CASE card.ui = "number"
    BY <2>3 DEF KindFor, Displays, Kinds, NumberKinds
  <2>4. CASE card.ui \in TextKinds \union {"scale"}
    BY <2>4 DEF KindFor, Displays, Kinds, TextKinds
  <2> QED BY <1>1, <2>1, <2>2, <2>3, <2>4 DEF UiTypes
<1>3. scale \in {<<>>} \union (Int \X Int)
  OBVIOUS
<1>4. WithCard(item, card) =
          [item EXCEPT !.kind = kind, !.ordered = card.ordered, !.choices = card.rows, !.scale = scale]
  BY DEF WithCard
<1> HIDE DEF kind, scale
<1> QED BY <1>1, <1>2, <1>3, <1>4 DEF Item

LEMMA CodesAre ==
    ASSUME NEW rows \in Seq(Option)
    PROVE  Codes(rows) \subseteq Nat \ {0} /\ IsFiniteSet(Codes(rows))
<1> DEFINE f == [i \in DOMAIN rows |-> rows[i].code]
           All == {rows[i].code : i \in DOMAIN rows}
<1>1. \A i \in DOMAIN rows : rows[i] \in Option
  OBVIOUS
<1>2. \A i \in DOMAIN rows : rows[i].code \in Nat
  BY <1>1 DEF Option
<1>3. IsFiniteSet(DOMAIN rows)
  BY Positions
<1>4. f \in Surjection(DOMAIN rows, All)
  BY DEF Surjection
<1>5. IsFiniteSet(All)
  BY <1>3, <1>4, FS_Surjection
<1>6. Codes(rows) = All \ {0}
  BY DEF Codes
<1>7. Codes(rows) \subseteq Nat \ {0}
  BY <1>2, <1>6
<1> QED BY <1>5, <1>6, <1>7, FS_Subset

\* An accepted card becomes a stored question.
LEMMA StoredIs ==
    ASSUME NEW item \in Item, Acceptable(item)
    PROVE  NormalizeQuestion(item) \in Stored
<1>1. NormalizeQuestion(item) \in Item
  BY NormalizeIs
<1>2. \A code \in Codes(NormalizeQuestion(item).choices) : code < NormalizeQuestion(item).next
  BY StoredCodes
<1> QED BY <1>1, <1>2, NormalizedAlready, AcceptableKept DEF Stored

LEMMA DefinitionIs ==
    ASSUME NEW questions, NEW N, N \subseteq Nat \ {0}, questions \in [N -> Stored],
           NEW next \in Nat \ {0}, \A n \in N : n < next
    PROVE  [questions |-> questions, next |-> next] \in Definitions
<1>1. questions \in UNION {[M -> Stored] : M \in SUBSET (Nat \ {0})}
  OBVIOUS
<1> QED BY <1>1 DEF Definitions

LEMMA QuestionsAre ==
    ASSUME NEW d \in Definitions
    PROVE  /\ d.next \in Nat \ {0} /\ DOMAIN d.questions \subseteq Nat \ {0}
           /\ d.questions \in [DOMAIN d.questions -> Stored]
           /\ \A n \in DOMAIN d.questions : n < d.next /\ d.questions[n] \in Stored
           /\ d = [questions |-> d.questions, next |-> d.next]
<1>1. /\ d.next \in Nat \ {0} /\ d = [questions |-> d.questions, next |-> d.next]
      /\ \A n \in DOMAIN d.questions : n < d.next
  BY DEF Definitions
<1>2. PICK N \in SUBSET (Nat \ {0}) : d.questions \in [N -> Stored]
  BY DEF Definitions
<1> QED BY <1>1, <1>2

LEMMA ContinuesItself ==
    ASSUME NEW d \in Definitions
    PROVE  Continues(d, d)
<1>1. d.next \in Nat /\ \A n \in DOMAIN d.questions : d.questions[n] \in Item
  BY QuestionsAre DEF Stored
<1>2. \A n \in DOMAIN d.questions : d.questions[n].next \in Nat
  BY <1>1 DEF Item
<1> QED BY <1>1, <1>2 DEF Continues

LEMMA ContinuesOn ==
    ASSUME NEW a \in Definitions, NEW b \in Definitions, NEW c \in Definitions,
           Continues(a, b), Continues(b, c)
    PROVE  Continues(a, c)
<1>1. a.next \in Nat /\ b.next \in Nat /\ c.next \in Nat
  BY QuestionsAre
<1>2. a.next <= b.next /\ b.next <= c.next
  BY DEF Continues
<1>3. ASSUME NEW n \in DOMAIN c.questions, n < a.next
      PROVE  n \in DOMAIN b.questions /\ n \in DOMAIN a.questions
  <2>1. n \in Nat
    BY QuestionsAre
  <2>2. n < b.next
    BY <2>1, <1>1, <1>2, <1>3
  <2> QED BY <2>2, <1>3 DEF Continues
<1>4. ASSUME NEW n \in DOMAIN a.questions \cap DOMAIN c.questions
      PROVE  /\ a.questions[n].next <= c.questions[n].next
             /\ \A code \in Codes(c.questions[n].choices) :
                   code < a.questions[n].next => code \in Codes(a.questions[n].choices)
  <2>1. n \in DOMAIN b.questions
    BY <1>3, QuestionsAre
  <2>2. /\ a.questions[n].next \in Nat /\ b.questions[n].next \in Nat /\ c.questions[n].next \in Nat
        /\ c.questions[n].choices \in Seq(Option)
    <3>1. a.questions[n] \in Item /\ b.questions[n] \in Item /\ c.questions[n] \in Item
      BY <2>1, <1>4, QuestionsAre DEF Stored
    <3> QED BY <3>1 DEF Item
  <2>3. a.questions[n].next <= b.questions[n].next /\ b.questions[n].next <= c.questions[n].next
    BY <2>1, <1>4 DEF Continues
  <2>4. ASSUME NEW code \in Codes(c.questions[n].choices), code < a.questions[n].next
        PROVE  code \in Codes(a.questions[n].choices)
    <3>1. code \in Nat
      BY <2>2, CodesAre
    <3>2. code < b.questions[n].next
      BY <3>1, <2>2, <2>3, <2>4
    <3>3. code \in Codes(b.questions[n].choices)
      BY <3>2, <2>1, <2>4, <1>4 DEF Continues
    <3> QED BY <3>3, <2>1, <2>4, <1>4 DEF Continues
  <2> QED BY <2>2, <2>3, <2>4
<1> QED BY <1>1, <1>2, <1>3, <1>4 DEF Continues

\* A question whose options were edited keeps the codes it keeps, and gets none it had lost.
LEMMA UpdatedIs ==
    ASSUME NEW old \in Stored, NEW item \in Item, item.next = old.next, CodesAreFresh(item, old)
    PROVE  /\ NormalizeQuestion(item).next >= old.next
           /\ \A code \in Codes(NormalizeQuestion(item).choices) :
                 code < old.next => code \in Codes(old.choices)
<1>1. old.next \in Nat
  BY DEF Stored, Item
<1>2. /\ \A code \in Codes(NormalizeQuestion(item).choices) :
             code \in Nat /\ (code \in Codes(item.choices) \/ code >= old.next)
      /\ NormalizeQuestion(item).next >= old.next
  BY StoredCodes
<1>3. \A code \in Codes(item.choices) : code \in Codes(old.choices) \/ code >= old.next
  BY DEF CodesAreFresh
<1> QED BY <1>1, <1>2, <1>3

LEMMA AddedIs ==
    ASSUME NEW d \in Definitions, NEW item \in Stored
    PROVE  LET new == [questions |-> [m \in DOMAIN d.questions \union {d.next} |->
                                         IF m = d.next THEN item ELSE d.questions[m]],
                       next |-> d.next + 1]
           IN new \in Definitions /\ Continues(d, new)
<1> DEFINE N == DOMAIN d.questions \union {d.next}
           questions == [m \in N |-> IF m = d.next THEN item ELSE d.questions[m]]
           new == [questions |-> questions, next |-> d.next + 1]
<1>1. /\ d.next \in Nat \ {0} /\ DOMAIN d.questions \subseteq Nat \ {0}
      /\ \A n \in DOMAIN d.questions : n < d.next /\ d.questions[n] \in Stored
  BY QuestionsAre
<1>2. N \subseteq Nat \ {0} /\ d.next + 1 \in Nat \ {0} /\ \A n \in N : n < d.next + 1
  BY <1>1
<1>3. questions \in [N -> Stored]
  BY <1>1
<1>4. new \in Definitions
  <2> HIDE DEF N, questions
  <2> QED BY <1>2, <1>3, DefinitionIs
<1>5. Continues(d, new)
  <2>1. DOMAIN new.questions = N /\ new.next = d.next + 1
    OBVIOUS
  <2>2. \A n \in DOMAIN d.questions : new.questions[n] = d.questions[n]
    BY <1>1
  <2>3. \A n \in DOMAIN d.questions : d.questions[n].next \in Nat
    BY <1>1 DEF Stored, Item
  <2>4. \A n \in N : n < d.next => n \in DOMAIN d.questions
    BY <1>1
  <2> HIDE DEF new, N
  <2>5. \A n \in DOMAIN d.questions \cap DOMAIN new.questions :
            /\ d.questions[n].next <= new.questions[n].next
            /\ \A code \in Codes(new.questions[n].choices) : code \in Codes(d.questions[n].choices)
    BY <2>2, <2>3
  <2> QED BY <1>1, <2>1, <2>4, <2>5 DEF Continues
<1> QED BY <1>4, <1>5

LEMMA ReplacedIs ==
    ASSUME NEW d \in Definitions, NEW n \in DOMAIN d.questions, NEW item \in Stored,
           item.next >= d.questions[n].next,
           \A code \in Codes(item.choices) :
              code < d.questions[n].next => code \in Codes(d.questions[n].choices)
    PROVE  LET new == [questions |-> [d.questions EXCEPT ![n] = item], next |-> d.next]
           IN new \in Definitions /\ Continues(d, new)
<1> DEFINE N == DOMAIN d.questions
           questions == [d.questions EXCEPT ![n] = item]
           new == [questions |-> questions, next |-> d.next]
<1>1. /\ d.next \in Nat \ {0} /\ N \subseteq Nat \ {0} /\ d.questions \in [N -> Stored]
      /\ \A m \in N : m < d.next /\ d.questions[m] \in Stored
  BY QuestionsAre
<1>2. questions \in [N -> Stored]
  BY <1>1
<1>3. new \in Definitions
  <2> HIDE DEF N, questions
  <2> QED BY <1>1, <1>2, DefinitionIs
<1>4. Continues(d, new)
  <2>1. DOMAIN new.questions = N /\ new.next = d.next
    BY <1>1
  <2>2. new.questions[n] = item /\ \A m \in N : m # n => new.questions[m] = d.questions[m]
    BY <1>1
  <2>3. \A m \in N : d.questions[m].next \in Nat
    BY <1>1 DEF Stored, Item
  <2>4. item.next \in Nat
    BY DEF Stored, Item
  <2> HIDE DEF new
  <2>5. ASSUME NEW m \in N
        PROVE  /\ d.questions[m].next <= new.questions[m].next
               /\ \A code \in Codes(new.questions[m].choices) :
                     code < d.questions[m].next => code \in Codes(d.questions[m].choices)
    <3>1. CASE m = n
      BY <3>1, <2>2, <2>3, <2>4
    <3>2. CASE m # n
      BY <3>2, <2>2, <2>3
    <3> QED BY <3>1, <3>2
  <2> QED BY <1>1, <2>1, <2>5 DEF Continues
<1> QED BY <1>3, <1>4

LEMMA DeletedIs ==
    ASSUME NEW d \in Definitions, NEW n \in DOMAIN d.questions
    PROVE  LET new == [questions |-> [m \in DOMAIN d.questions \ {n} |-> d.questions[m]],
                       next |-> d.next]
           IN new \in Definitions /\ Continues(d, new)
<1> DEFINE N == DOMAIN d.questions \ {n}
           questions == [m \in N |-> d.questions[m]]
           new == [questions |-> questions, next |-> d.next]
<1>1. /\ d.next \in Nat \ {0} /\ N \subseteq Nat \ {0}
      /\ \A m \in N : m < d.next /\ d.questions[m] \in Stored
  BY QuestionsAre
<1>2. questions \in [N -> Stored]
  BY <1>1
<1>3. new \in Definitions
  <2> HIDE DEF N, questions
  <2> QED BY <1>1, <1>2, DefinitionIs
<1>4. Continues(d, new)
  <2>1. DOMAIN new.questions = N /\ new.next = d.next
    OBVIOUS
  <2>2. \A m \in N : new.questions[m] = d.questions[m]
    OBVIOUS
  <2>3. \A m \in N : d.questions[m].next \in Nat
    BY <1>1 DEF Stored, Item
  <2> HIDE DEF new
  <2>4. \A m \in N :
            /\ d.questions[m].next <= new.questions[m].next
            /\ \A code \in Codes(new.questions[m].choices) : code \in Codes(d.questions[m].choices)
    BY <2>2, <2>3
  <2>5. N \subseteq DOMAIN d.questions
    OBVIOUS
  <2> QED BY <1>1, <2>1, <2>4, <2>5 DEF Continues
<1> QED BY <1>3, <1>4

LEMMA EmptyDefinition == [questions |-> <<>>, next |-> 1] \in Definitions
<1>1. <<>> \in [{} -> Stored] /\ {} \subseteq Nat \ {0} /\ 1 \in Nat \ {0}
  OBVIOUS
<1> QED BY <1>1, DefinitionIs

LEMMA OnlyIsStored ==
    ASSUME NEW item, NormalizeQuestion(item) \in Stored
    PROVE  /\ Only(item) \in Definitions /\ DOMAIN Only(item).questions = {1}
           /\ Only(item).questions[1] = NormalizeQuestion(item)
<1> DEFINE q == NormalizeQuestion(item)
<1> HIDE DEF q
<1>1. DOMAIN <<q>> = {1} /\ <<q>>[1] = q
  OBVIOUS
<1>2. <<q>> \in [{1} -> Stored] /\ {1} \subseteq Nat \ {0} /\ 2 \in Nat \ {0} /\ \A n \in {1} : n < 2
  BY DEF q
<1>3. [questions |-> <<q>>, next |-> 2] \in Definitions
  BY <1>2, DefinitionIs
<1> QED BY <1>1, <1>3 DEF Only, q

\* What the migration makes of an old question.
LEMMA LegacyIs ==
    ASSUME NEW legacy \in LegacySurveys
    PROVE  LET item == FromLegacy(legacy.question)
               points == IF legacy.question.lines = <<>> THEN {<<1, 5>>} ELSE RangeOf(legacy.question.lines)
               scale == legacy.question.kind = "scale"
           IN /\ item \in Item
              /\ item.kind \in ChoiceKinds \union {"scale"}
              /\ item.kind = "scale" => scale /\ item.scale \in points
              /\ item.kind = "multiple_choice" => legacy.question.kind = "multiple_choice"
              /\ item.kind # "scale" =>
                    /\ item.choices = [i \in DOMAIN legacy.question.lines |->
                          [code |-> i, label |-> legacy.question.lines[i], excluded |-> FALSE]]
                    /\ scale => RangeOf(legacy.question.lines) = {} /\ legacy.question.lines # <<>>
<1> DEFINE question == legacy.question
           lines == question.lines
           points == IF lines = <<>> THEN {<<1, 5>>} ELSE RangeOf(lines)
           scale == question.kind = "scale"
           choices == [i \in DOMAIN lines |-> [code |-> i, label |-> lines[i], excluded |-> FALSE]]
           item == FromLegacy(question)
<1>1. question.kind \in ChoiceKinds \union {"scale"} /\ lines \in Seq(STRING)
  BY LegacyAssumption
<1>2. choices \in Seq(Option)
  <2>1. DOMAIN lines = 1 .. Len(lines) /\ Len(lines) \in Nat /\ \A i \in DOMAIN lines : lines[i] \in STRING
    BY <1>1
  <2>2. \A i \in DOMAIN lines : [code |-> i, label |-> lines[i], excluded |-> FALSE] \in Option
    BY <2>1 DEF Option
  <2> DEFINE row(i) == [code |-> i, label |-> lines[i], excluded |-> FALSE]
  <2>3. choices = [i \in 1 .. Len(lines) |-> row(i)] /\ \A i \in 1 .. Len(lines) : row(i) \in Option
    BY <2>1, <2>2
  <2> HIDE DEF row, choices
  <2> QED BY <2>1, <2>3
<1>3. points \subseteq Int \X Int
  BY DEF RangeOf
<1>4. NewItem \in Item
  BY NewItemIs
<1>5. CASE scale /\ points # {}
  <2> DEFINE ends == CHOOSE p \in points : TRUE
  <2>1. ends \in points
    BY <1>5
  <2>2. item = [NewItem EXCEPT !.kind = "scale", !.scale = ends]
    BY <1>5 DEF FromLegacy
  <2> HIDE DEF ends
  <2>3. item \in Item /\ item.kind = "scale" /\ item.scale = ends
    <3> HIDE DEF points, item
    <3>1. "scale" \in Kinds /\ ends \in {<<>>} \union (Int \X Int)
      BY <2>1, <1>3 DEF Kinds
    <3> QED BY <3>1, <2>2, <1>4 DEF Item
  <2> HIDE DEF item
  <2>4. "scale" \notin {"single_choice", "multiple_choice"}
    OBVIOUS
  <2> QED BY <2>1, <2>3, <2>4, <1>5 DEF item
<1>6. CASE ~(scale /\ points # {})
  <2> DEFINE kind == IF scale THEN "single_choice" ELSE question.kind
             ordered == scale \/ (question.kind = "single_choice" /\ question.type = "ordinal")
  <2>1. item = [NewItem EXCEPT !.kind = kind, !.ordered = ordered, !.choices = choices]
    BY <1>6 DEF FromLegacy
  <2>2. kind \in ChoiceKinds /\ ordered \in BOOLEAN /\ (scale => kind = "single_choice")
    BY <1>1 DEF ChoiceKinds
  <2>3. ~scale => kind = question.kind
    OBVIOUS
  <2>4. scale => points = {}
    BY <1>6
  <2>5. scale => lines # <<>> /\ RangeOf(lines) = {}
    BY <2>4
  <2> HIDE DEF kind, ordered, choices, item
  <2>6. item \in Item /\ item.kind = kind /\ item.choices = choices
    <3>1. kind \in Kinds
      BY <2>2 DEF Kinds
    <3> QED BY <3>1, <2>1, <2>2, <1>2, <1>4 DEF Item
  <2>7. kind # "scale" /\ (kind = "multiple_choice" => question.kind = "multiple_choice")
    BY <2>2, <2>3 DEF ChoiceKinds
  <2> QED BY <2>2, <2>5, <2>6, <2>7 DEF item, choices
<1> QED BY <1>5, <1>6

-----------------------------------------------------------------------------
(* Answers *)

\* What the form offers is readable, as it is posted and as it is stored.
LEMMA OfferedIsReadable ==
    ASSUME NEW item \in Stored, NEW value \in ValuesOffered(item)
    PROVE  /\ value \in Seq(Int) /\ Readable(item, value)
           /\ EncodeAnswer(item, value) \in Seq(Int) /\ Readable(item, EncodeAnswer(item, value))
<1>1. item \in Item
  BY DEF Stored
<1>2. item.kind \in Kinds /\ item.choices \in Seq(Option) /\ item.scale \in {<<>>} \union (Int \X Int)
  BY <1>1 DEF Item
<1>3. Codes(item.choices) \subseteq Nat \ {0} /\ IsFiniteSet(Codes(item.choices))
  BY <1>2, CodesAre
<1>4. ASSUME item.kind \in ChoiceKinds
      PROVE  /\ value \in Seq(Int) /\ Range(value) # {} /\ Range(value) \subseteq Codes(item.choices)
             /\ item.kind = "single_choice" => \E code \in Codes(item.choices) : Range(value) = {code}
  <2>1. CASE item.kind = "single_choice"
    <3>1. PICK code \in Codes(item.choices) : value = <<code>>
      BY <2>1 DEF ValuesOffered
    <3>2. Range(value) = {code} /\ value \in Seq(Int)
      BY <3>1, <1>3 DEF Range
    <3> QED BY <3>2
  <2>2. CASE item.kind = "multiple_choice"
    <3>1. PICK codes \in (SUBSET Codes(item.choices)) \ {{}} : value \in SetToSeqs(codes)
      BY <2>2 DEF ValuesOffered
    <3>2. IsFiniteSet(codes) /\ Cardinality(codes) \in Nat /\ Cardinality(codes) # 0
      <4>1. codes \subseteq Codes(item.choices) /\ codes # {}
        BY <3>1
      <4>2. IsFiniteSet(codes)
        BY <4>1, <1>3, FS_Subset
      <4> QED BY <4>1, <4>2, FS_CardinalityType, FS_EmptySet
    <3>3. value \in [1 .. Cardinality(codes) -> codes]
      BY <3>1 DEF SetToSeqs
    <3>4. value \in Seq(Int)
      BY <3>2, <3>3, <1>3
    <3>5. 1 \in DOMAIN value /\ Range(value) \subseteq codes /\ value[1] \in Range(value)
      BY <3>2, <3>3 DEF Range
    <3> QED BY <3>4, <3>5, <2>2
  <2> QED BY <2>1, <2>2, <1>4 DEF ChoiceKinds
<1>5. ASSUME item.kind \in ChoiceKinds
      PROVE  EncodeAnswer(item, value) \in Seq(Int) /\ Range(EncodeAnswer(item, value)) = Range(value)
  <2> DEFINE codes == [i \in DOMAIN item.choices |-> item.choices[i].code]
             S == {i \in DOMAIN item.choices : item.choices[i].code \in Range(value)}
  <2>1. EncodeAnswer(item, value) = Selected(codes, S)
    BY <1>5 DEF EncodeAnswer
  <2>2. codes \in Seq(Int) /\ DOMAIN codes = DOMAIN item.choices
    <3>1. DOMAIN item.choices = 1 .. Len(item.choices) /\ Len(item.choices) \in Nat
      BY <1>2
    <3>2. \A i \in DOMAIN item.choices : item.choices[i] \in Option
      BY <1>2
    <3>3. \A i \in DOMAIN item.choices : item.choices[i].code \in Int
      BY <3>2 DEF Option
    <3> QED BY <3>1, <3>3
  <2>S. S \subseteq DOMAIN codes
    OBVIOUS
  <2>3. \A i \in S : codes[i] \in Range(value)
    OBVIOUS
  <2>4. ASSUME NEW code \in Range(value) PROVE \E i \in S : codes[i] = code
    <3>1. code \in Codes(item.choices)
      BY <1>4, <1>5
    <3>2. PICK i \in DOMAIN item.choices : item.choices[i].code = code
      BY <3>1 DEF Codes
    <3> QED BY <3>2
  <2> HIDE DEF codes, S
  <2>5. /\ Selected(codes, S) \in Seq(Int)
        /\ \A n \in DOMAIN Selected(codes, S) : \E i \in S : Selected(codes, S)[n] = codes[i]
        /\ \A i \in S : \E n \in DOMAIN Selected(codes, S) : Selected(codes, S)[n] = codes[i]
    <3>1. codes \in Seq(Int)
      BY <2>2
    <3>2. ASSUME NEW V, codes \in Seq(V)
          PROVE  /\ Selected(codes, S) \in Seq(V)
                 /\ \A n \in DOMAIN Selected(codes, S) : \E i \in S : Selected(codes, S)[n] = codes[i]
                 /\ \A i \in S : \E n \in DOMAIN Selected(codes, S) : Selected(codes, S)[n] = codes[i]
      BY <3>2, <2>S, SelectedIs
    <3> QED BY <3>1, <3>2
  <2>6. \A n \in DOMAIN Selected(codes, S) : Selected(codes, S)[n] \in Range(value)
    BY <2>3, <2>5
  <2>7. \A code \in Range(value) : \E n \in DOMAIN Selected(codes, S) : Selected(codes, S)[n] = code
    BY <2>4, <2>5
  <2>8. Range(Selected(codes, S)) = {Selected(codes, S)[n] : n \in DOMAIN Selected(codes, S)}
    BY DEF Range
  <2> QED BY <2>1, <2>5, <2>6, <2>7, <2>8
<1>6. CASE item.kind \in ChoiceKinds
  BY <1>4, <1>5, <1>6 DEF Readable, ChoiceKinds
<1>7. CASE item.kind = "scale"
  <2>1. item.kind \notin ChoiceKinds
    BY <1>7 DEF ChoiceKinds
  <2>2. PICK n \in item.scale[1] .. item.scale[2] : value = <<n>>
    BY <1>7 DEF ValuesOffered
  <2>3. n \in Int
    OBVIOUS
  <2>4. Range(value) = {n} /\ value \in Seq(Int)
    BY <2>2, <2>3 DEF Range
  <2>5. ToString(n) \in AnalysisLevels(item)
    BY <1>7 DEF AnalysisLevels
  <2>6. {ToString(m) : m \in Range(value)} = {ToString(n)}
    BY <2>4
  <2>7. Readable(item, value)
    BY <1>7, <2>4, <2>5, <2>6 DEF Readable
  <2>8. EncodeAnswer(item, value) = value
    BY <2>1 DEF EncodeAnswer
  <2> QED BY <2>4, <2>7, <2>8
<1>8. CASE item.kind \notin ChoiceKinds \union {"scale"}
  <2>1. value = <<>> /\ EncodeAnswer(item, value) = value
    BY <1>8 DEF ValuesOffered, EncodeAnswer, ChoiceKinds
  <2>2. value \in Seq(Int)
    BY <2>1
  <2> QED BY <2>1, <2>2, <1>8 DEF Readable, ChoiceKinds
<1> QED BY <1>6, <1>7, <1>8

\* A readable answer is classed as valid, or left out on purpose.
LEMMA ReadableIsClassed ==
    ASSUME NEW item \in Stored, item.kind \in ChoiceKinds \union {"scale"},
           NEW stored, Readable(item, stored)
    PROVE  Classify(item, AnswerCell(item, stored)) \in {"valid", "excluded"}
<1> DEFINE cell == AnswerCell(item, stored)
<1>1. item \in Item /\ item.choices \in Seq(Option)
  BY DEF Stored, Item
<1>2. ASSUME item.kind \in ChoiceKinds, NEW code \in Codes(item.choices)
      PROVE  LabelOf(item, code) \in Labels(item.choices)
  <2>1. PICK i \in DOMAIN item.choices : item.choices[i].code = code
    BY <1>2 DEF Codes
  <2> QED BY <2>1 DEF LabelOf, Labels
<1>3. ASSUME item.kind \in ChoiceKinds, Range(stored) \subseteq Codes(item.choices)
      PROVE  cell = {LabelOf(item, code) : code \in Range(stored)}
  BY <1>3 DEF AnswerCell
<1>4. CASE item.kind = "single_choice"
  <2>0. item.kind \in ChoiceKinds /\ item.kind # "scale"
    BY <1>4 DEF ChoiceKinds
  <2>1. PICK code \in Codes(item.choices) : Range(stored) = {code}
    BY <1>4 DEF Readable
  <2>2. cell = {LabelOf(item, code)} /\ LabelOf(item, code) \in Labels(item.choices)
    BY <2>0, <2>1, <1>2, <1>3
  <2> HIDE DEF cell
  <2>3. cell # {} /\ (cell \subseteq AnalysisLevels(item) \/ cell \subseteq AnalysisExcluded(item))
    BY <2>0, <2>2 DEF AnalysisLevels, AnalysisExcluded
  <2> QED BY <2>3, <1>4 DEF Classify, cell
<1>5. CASE item.kind = "multiple_choice"
  <2>0. item.kind \in ChoiceKinds /\ item.kind # "scale"
    BY <1>5 DEF ChoiceKinds
  <2>1. Range(stored) # {} /\ Range(stored) \subseteq Codes(item.choices)
    BY <1>5 DEF Readable
  <2>2. cell = {LabelOf(item, code) : code \in Range(stored)}
    BY <2>0, <2>1, <1>3
  <2>3. \A code \in Range(stored) : LabelOf(item, code) \in Labels(item.choices)
    BY <2>0, <2>1, <1>2
  <2>4. Included(item.choices) = item.choices
    <3>1. Written(item.choices) = item.choices
      <4>1. NormalizeQuestion(item) = item
        BY DEF Stored
      <4>2. \A i \in DOMAIN item.choices : item.choices[i].label # ""
        BY <4>1, <1>1, StoredCodes
      <4> QED BY <4>2, <1>1, WrittenAlready
    <3>2. Acceptable(item)
      BY DEF Stored
    <3> QED BY <3>1, <3>2, <2>0, <1>5 DEF Acceptable
  <2> HIDE DEF cell
  <2>5. cell # {} /\ cell \subseteq AnalysisLevels(item)
    BY <2>0, <2>1, <2>2, <2>3, <2>4 DEF AnalysisLevels
  <2> QED BY <2>5 DEF Classify, cell
<1>6. CASE item.kind = "scale"
  <2>0. item.kind \notin ChoiceKinds
    BY <1>6 DEF ChoiceKinds
  <2>1. Range(stored) # {} /\ {ToString(n) : n \in Range(stored)} \subseteq AnalysisLevels(item)
    BY <1>6 DEF Readable
  <2>2. cell = {ToString(n) : n \in Range(stored)}
    BY <2>0 DEF AnswerCell
  <2> HIDE DEF cell
  <2>3. cell # {} /\ cell \subseteq AnalysisLevels(item)
    BY <2>1, <2>2
  <2> QED BY <2>3 DEF Classify, cell
<1> QED BY <1>4, <1>5, <1>6 DEF ChoiceKinds

\* A converted answer is readable in the converted question.
LEMMA ConvertedIsReadable ==
    ASSUME NEW legacy \in LegacySurveys, NEW t \in Tabs, legacy.values[t] # None,
           Convertible(legacy.question, Range(legacy.values) \ {None})
    PROVE  LET item == FromLegacy(legacy.question)
               answer == ConvertedAnswer(item, legacy.values[t])
           IN answer \in Seq(Int) /\ Readable(NormalizeQuestion(item), answer)
<1> DEFINE question == legacy.question
           lines == question.lines
           values == Range(legacy.values) \ {None}
           value == legacy.values[t]
           points == IF lines = <<>> THEN {<<1, 5>>} ELSE RangeOf(lines)
           item == FromLegacy(question)
           stored == NormalizeQuestion(item)
           answer == ConvertedAnswer(item, value)
<1>1. /\ question.kind \in ChoiceKinds \union {"scale"} /\ lines \in Seq(STRING) /\ "" \notin Range(lines)
      /\ DOMAIN legacy.values = Tabs
      /\ question.kind = "scale" =>
             \/ value = None \/ value \in Range(lines)
             \/ lines = <<>> /\ value \in {ToString(n) : n \in 1 .. 5}
  BY LegacyAssumption
<1>2. /\ item \in Item /\ item.kind \in ChoiceKinds \union {"scale"}
      /\ item.kind = "scale" => question.kind = "scale" /\ item.scale \in points
      /\ item.kind = "multiple_choice" => question.kind = "multiple_choice"
      /\ item.kind # "scale" =>
            /\ item.choices = [i \in DOMAIN lines |-> [code |-> i, label |-> lines[i], excluded |-> FALSE]]
            /\ question.kind = "scale" => RangeOf(lines) = {} /\ lines # <<>>
  BY LegacyIs
<1>3. value \in values /\ values # {}
  BY <1>1 DEF Range
<1>4. /\ question.kind = "single_choice" => values \subseteq Range(lines)
      /\ question.kind = "scale" => lines = <<>> \/ RangeOf(lines) # {}
      /\ question.kind # "multiple_choice"
  <2>1. values # {} =>
            CASE question.kind = "single_choice" -> values \subseteq Range(lines)
              [] question.kind = "scale" -> lines = <<>> \/ RangeOf(lines) # {}
              [] question.kind = "multiple_choice" -> FALSE
    BY DEF Convertible
  <2> HIDE DEF values, question, lines
  <2> QED BY <2>1, <1>3
<1>5. stored.kind = item.kind /\ stored.scale = IF item.kind = "scale" THEN item.scale ELSE <<>>
  BY <1>2, NormalizeIs
<1>6. CASE item.kind = "scale"
  <2>0. item.kind # "single_choice" /\ question.kind = "scale" /\ item.scale \in points
    BY <1>2, <1>6
  <2>1. points \subseteq (0 .. 10) \X (0 .. 10)
    BY DEF RangeOf
  <2>2. \E n \in item.scale[1] .. item.scale[2] : n \in 0 .. 10 /\ ToString(n) = value
    <3>1. CASE lines = <<>>
      <4>1. item.scale[1] = 1 /\ item.scale[2] = 5
        BY <2>0, <3>1
      <4>2. Range(lines) = {}
        <5>1. DOMAIN <<>> = {}
          OBVIOUS
        <5> QED BY <3>1, <5>1 DEF Range
      <4>3. \E n \in 1 .. 5 : ToString(n) = value
        BY <2>0, <4>2, <1>1
      <4> QED BY <4>1, <4>3
    <3>2. CASE lines # <<>>
      <4>1. item.scale \in RangeOf(lines) /\ value \in Range(lines)
        BY <2>0, <3>2, <1>1
      <4> DEFINE low == item.scale[1]
                 high == item.scale[2]
      <4>2. low \in 0 .. 10 /\ high \in 0 .. 10
        <5>1. item.scale \in (0 .. 10) \X (0 .. 10)
          BY <2>0, <2>1
        <5> QED BY <5>1
      <4>3. lines = [i \in 1 .. (high - low + 1) |-> ToString(low + i - 1)]
        BY <4>1 DEF RangeOf
      <4> HIDE DEF low, high
      <4>4. PICK i \in 1 .. (high - low + 1) : value = ToString(low + i - 1)
        BY <4>1, <4>3 DEF Range
      <4>5. low + i - 1 \in low .. high /\ low + i - 1 \in 0 .. 10
        BY <4>2
      <4> QED BY <4>4, <4>5 DEF low, high
    <3> QED BY <3>1, <3>2
  <2> DEFINE m == CHOOSE n \in 0 .. 10 : ToString(n) = value
  <2>3. m \in 0 .. 10 /\ ToString(m) = value
    BY <2>2
  <2>4. answer = <<m>>
    BY <2>0 DEF ConvertedAnswer
  <2> HIDE DEF m, answer
  <2>5. Range(answer) = {m} /\ answer \in Seq(Int)
    BY <2>3, <2>4 DEF Range
  <2>6. value \in AnalysisLevels(stored)
    BY <2>2, <1>5, <1>6 DEF AnalysisLevels
  <2>7. {ToString(n) : n \in Range(answer)} \subseteq AnalysisLevels(stored)
    BY <2>3, <2>5, <2>6
  <2>8. Readable(stored, answer)
    BY <2>5, <2>7, <1>5, <1>6 DEF Readable
  <2> QED BY <2>5, <2>8 DEF answer
<1>7. CASE item.kind # "scale"
  <2>1. item.kind = "single_choice" /\ question.kind = "single_choice" /\ item.kind \in ChoiceKinds
    BY <1>1, <1>2, <1>4, <1>7 DEF ChoiceKinds
  <2> DEFINE row(i) == [code |-> i, label |-> lines[i], excluded |-> FALSE]
  <2>2. item.choices = [i \in DOMAIN lines |-> row(i)]
    BY <1>2, <1>7
  <2>n. DOMAIN lines = 1 .. Len(lines) /\ Len(lines) \in Nat
    <3>1. lines \in Seq(STRING)
      BY LegacyAssumption
    <3> HIDE DEF lines
    <3> QED BY <3>1
  <2>3. \A i \in DOMAIN lines : row(i).code = i /\ row(i).label = lines[i] /\ lines[i] # ""
    BY <1>1 DEF Range
  <2>kind. item \in Item /\ stored.kind = "single_choice"
    BY <2>1, <1>2, <1>5
  <2>value. value \in Range(lines)
    BY <2>1, <1>3, <1>4
  <2>answer. answer = <<(CHOOSE r \in Range(item.choices) : r.label = value).code>>
    BY <2>1 DEF ConvertedAnswer
  <2>stored. stored.choices = Coded(Options(item), Counter(item))
    BY <1>2, NormalizeIs
  <2> HIDE DEF row, item, lines, value, stored, answer
  <2>4. item.choices \in Seq(Option) /\ DOMAIN item.choices = DOMAIN lines
    BY <2>2, <2>kind DEF Item
  <2>5. stored.choices = item.choices
    <3>1. Options(item) = item.choices
      <4>1. \A i \in DOMAIN item.choices : item.choices[i].label # ""
        <5>1. \A i \in DOMAIN lines : item.choices[i] = row(i) /\ row(i).label # ""
          BY <2>2, <2>3
        <5> QED BY <5>1, <2>4
      <4> QED BY <4>1, <2>1, <2>4, WrittenAlready DEF Options
    <3>2. stored.choices = Coded(item.choices, Counter(item))
      BY <3>1, <2>stored
    <3>3. \A i \in DOMAIN item.choices : item.choices[i].code # 0
      <4>1. \A i \in DOMAIN lines : item.choices[i] = row(i) /\ row(i).code # 0
        <5>1. \A i \in DOMAIN lines : item.choices[i] = row(i) /\ row(i).code = i
          BY <2>2, <2>3
        <5>2. \A i \in DOMAIN lines : i # 0
          BY <2>n
        <5> QED BY <5>1, <5>2
      <4> QED BY <4>1, <2>4
    <3> QED BY <3>2, <3>3, <2>4, CodedAlready
  <2> DEFINE c == CHOOSE r \in Range(item.choices) : r.label = value
  <2>6. c \in Range(item.choices)
    <3>2. PICK i \in DOMAIN lines : lines[i] = value
      BY <2>value DEF Range
    <3>3. item.choices[i] \in Range(item.choices) /\ item.choices[i].label = value
      BY <3>2, <2>2, <2>3, <2>4 DEF Range
    <3> QED BY <3>3
  <2>7. PICK i \in DOMAIN lines : c = item.choices[i]
    BY <2>4, <2>6 DEF Range
  <2>8. c.code = i /\ i # 0 /\ i \in Int
    <3>1. c.code = i
      <4> HIDE DEF c
      <4>1. item.choices[i] = row(i) /\ row(i).code = i
        BY <2>2, <2>3
      <4> QED BY <4>1, <2>7
    <3>2. i # 0 /\ i \in Int
      BY <2>n
    <3> QED BY <3>1, <3>2
  <2>9. i \in Codes(stored.choices)
    BY <2>4, <2>5, <2>7, <2>8 DEF Codes
  <2>10. answer = <<i>>
    BY <2>8, <2>answer
  <2>11. Range(answer) = {i} /\ answer \in Seq(Int)
    BY <2>8, <2>10 DEF Range
  <2>12. Readable(stored, answer)
    BY <2>9, <2>11, <2>kind DEF Readable
  <2> QED BY <2>11, <2>12 DEF answer, item, lines, value, stored
<1> QED BY <1>6, <1>7

\* What a form's answers become when they are stored.
LEMMA EncodedIs ==
    ASSUME Live \in Definitions, NEW t \in Tabs, tab[t].answers \in Answers
    PROVE  /\ Encoded(t) \in Answered /\ DOMAIN Encoded(t) = DOMAIN Questions
           /\ \A n \in DOMAIN Questions : Readable(Questions[n], Encoded(t)[n])
<1> DEFINE answers == tab[t].answers
           code(n) == IF scenario.via = "site" THEN EncodeAnswer(Questions[n], answers[n]) ELSE answers[n]
<1>1. DOMAIN Questions \subseteq Nat /\ \A n \in DOMAIN Questions : Questions[n] \in Stored
  BY QuestionsAre DEF Questions
<1>2. DOMAIN answers = DOMAIN Questions /\ \A n \in DOMAIN Questions : answers[n] \in ValuesOffered(Questions[n])
  BY DEF Answers
<1>3. Encoded(t) = [n \in DOMAIN Questions |-> code(n)]
  BY <1>2 DEF Encoded
<1>4. \A n \in DOMAIN Questions : code(n) \in Seq(Int) /\ Readable(Questions[n], code(n))
  BY <1>1, <1>2, OfferedIsReadable
<1> HIDE DEF code
<1>5. Encoded(t) \in [DOMAIN Questions -> Seq(Int)]
  BY <1>3, <1>4
<1>6. Encoded(t) \in Answered
  <2> DEFINE N == DOMAIN Questions
  <2>1. N \in SUBSET Nat /\ Encoded(t) \in [N -> Seq(Int)]
    BY <1>1, <1>5
  <2> HIDE DEF N
  <2> QED BY <2>1 DEF Answered
<1> QED BY <1>3, <1>4, <1>6

LEMMA AnswersAre ==
    ASSUME Live \in Definitions
    PROVE  Answers \subseteq Answered
<1> SUFFICES ASSUME NEW a \in Answers PROVE a \in Answered
  OBVIOUS
<1> DEFINE N == DOMAIN Questions
<1>1. N \in SUBSET Nat /\ \A n \in N : Questions[n] \in Stored
  BY QuestionsAre DEF Questions
<1>2. \E V : a \in [N -> V]
  BY DEF Answers
<1>3. a = [n \in N |-> a[n]] /\ \A n \in N : a[n] \in ValuesOffered(Questions[n])
  BY <1>2 DEF Answers
<1>4. \A n \in N : a[n] \in Seq(Int)
  BY <1>1, <1>3, OfferedIsReadable
<1> HIDE DEF N
<1>5. a \in [N -> Seq(Int)]
  BY <1>3, <1>4
<1> QED BY <1>1, <1>5 DEF Answered

LEMMA LiveIs ==
    ASSUME Typed
    PROVE  Live \in Definitions /\ Len(revision) \in DOMAIN revision
<1>1. revision \in Seq(Definitions) /\ Len(revision) >= 1
  BY DEF Typed
<1>2. Len(revision) \in DOMAIN revision
  BY <1>1
<1> QED BY <1>1, <1>2 DEF Live

LEMMA NoReplyIs == NoReply \in Reply
<1>1. <<>> \in [{} -> Seq(Int)] /\ {} \in SUBSET Nat
  OBVIOUS
<1>2. <<>> \in Answered
  BY <1>1 DEF Answered
<1> QED BY <1>2 DEF NoReply, Reply, Statuses

-----------------------------------------------------------------------------
(* The invariant begins to hold *)

LEMMA InitInv == Init => IInv
<1> SUFFICES ASSUME Init PROVE IInv
  OBVIOUS
<1>0. /\ scenario \in Scenarios /\ setting = "open" /\ events = 0
      /\ tab = [t \in Tabs |-> FirstForm] /\ reply = [t \in Tabs |-> NoReply]
      /\ optIn = [u \in Users |-> TRUE] /\ mails = [t \in Tabs |-> 0]
  BY DEF Init
<1>1. \E d \in Definitions : revision = <<d>> /\ published \in 0 .. 1
  <2>1. CASE scenario.start = "published"
    <3>1. PICK card \in FirstCards : revision = <<Only(WithCard(NewItem, card))>> /\ published = 1
      BY <2>1 DEF Init
    <3>2. card \in CardForm /\ Acceptable(WithCard(NewItem, card))
      BY CardsAssumption
    <3>3. WithCard(NewItem, card) \in Item
      BY <3>2, NewItemIs, CardIs
    <3>4. Only(WithCard(NewItem, card)) \in Definitions
      BY <3>2, <3>3, StoredIs, OnlyIsStored
    <3> QED BY <3>1, <3>4
  <2>2. CASE scenario.start # "published"
    BY <2>2, EmptyDefinition DEF Init
  <2> QED BY <2>1, <2>2
<1>2. PICK d \in Definitions : revision = <<d>> /\ published \in 0 .. 1
  BY <1>1
<1>3. revision \in Seq(Definitions) /\ Len(revision) = 1 /\ DOMAIN revision = {1} /\ revision[1] = d
  BY <1>2
<1>4. unconverted \in {None} \union LegacySurveys /\ (unconverted # None => published = 0)
  BY DEF Init
<1>5. FirstForm \in Form
  <2>1. <<>> \in Answered
    BY NoReplyIs DEF NoReply, Reply
  <2> QED BY <2>1 DEF FirstForm, Form, Steps
<1>6. Typed
  <2>1. 0 \in 0 .. scenario.events
    BY <1>0, ScenarioAssumption
  <2>2. tab \in [Tabs -> Form] /\ reply \in [Tabs -> Reply]
    BY <1>0, <1>5, NoReplyIs
  <2> QED BY <1>0, <1>2, <1>3, <1>4, <2>1, <2>2 DEF Typed
<1>7. \A t \in Tabs : tab[t].pc = "none" /\ reply[t] = NoReply /\ mails[t] = 0
  BY <1>0 DEF FirstForm
<1>8. RevisionsContinue
  BY <1>2, <1>3, ContinuesItself DEF RevisionsContinue
<1> QED BY <1>4, <1>6, <1>7, <1>8
        DEF IInv, DraftIsEmpty, FormsAreFilledIn, RepliesAreReadable, OneReplyPerCustomer,
            StoredBeforeThanks, MailsFollowReplies

-----------------------------------------------------------------------------
(* The invariant is kept: drafts *)

\* A draft with a new revision, published or not.
LEMMA NewRevision ==
    ASSUME IInv, published = 0, unconverted = None, NEW d \in Definitions, Continues(Live, d),
           revision' = Append(revision, d), published' \in {0, Len(revision) + 1},
           UNCHANGED <<unconverted, setting, tab, reply, optIn, mails, scenario, events>>
    PROVE  IInv'
<1>1. Typed /\ RevisionsContinue /\ DraftIsEmpty /\ MailsFollowReplies
  BY DEF IInv
<1>2. revision \in Seq(Definitions) /\ Len(revision) \in Nat /\ Len(revision) >= 1
      /\ DOMAIN revision = 1 .. Len(revision)
  BY <1>1 DEF Typed
<1>3. /\ revision' \in Seq(Definitions) /\ Len(revision') = Len(revision) + 1
      /\ DOMAIN revision' = 1 .. Len(revision) + 1
      /\ revision'[Len(revision) + 1] = d
      /\ \A i \in 1 .. Len(revision) : revision'[i] = revision[i]
  BY <1>2
<1>4. Typed'
  <2>1. published' \in 0 .. Len(revision') /\ Len(revision') >= 1
    BY <1>2, <1>3
  <2> QED BY <1>1, <1>3, <2>1 DEF Typed
<1>5. \A t \in Tabs : /\ tab'[t].pc = "none" /\ reply'[t] = NoReply
                      /\ mails'[t] = 0
  <2>1. \A t \in Tabs : tab[t].pc = "none" /\ reply[t] = NoReply
    BY <1>1 DEF DraftIsEmpty
  <2> QED BY <2>1, <1>1 DEF MailsFollowReplies
<1>6. RevisionsContinue'
  <2> SUFFICES ASSUME NEW i \in 1 .. Len(revision) + 1, NEW k \in 1 .. Len(revision) + 1, i <= k
               PROVE  Continues(revision'[i], revision'[k])
    BY <1>3 DEF RevisionsContinue
  <2>0. i \in Int /\ k \in Int
    OBVIOUS
  <2>1. CASE k # Len(revision) + 1
    <3>1. i \in DOMAIN revision /\ k \in DOMAIN revision
      BY <2>0, <2>1, <1>2
    <3>2. Continues(revision[i], revision[k])
      BY <3>1, <1>1 DEF RevisionsContinue
    <3> QED BY <3>1, <3>2, <1>2, <1>3
  <2>2. CASE k = Len(revision) + 1 /\ i = Len(revision) + 1
    BY <2>2, <1>3, ContinuesItself
  <2>3. CASE k = Len(revision) + 1 /\ i # Len(revision) + 1
    <3>1. i \in DOMAIN revision /\ Len(revision) \in DOMAIN revision /\ i <= Len(revision)
      BY <2>0, <2>3, <1>2
    <3>2. Continues(revision[i], Live)
      BY <3>1, <1>1 DEF RevisionsContinue, Live
    <3>3. revision[i] \in Definitions /\ Live \in Definitions
      BY <3>1, <1>2 DEF Live
    <3>4. Continues(revision[i], d)
      BY <3>2, <3>3, ContinuesOn
    <3> QED BY <3>1, <3>4, <2>3, <1>2, <1>3
  <2> QED BY <2>1, <2>2, <2>3
<1>7. DraftIsEmpty'
  BY <1>5 DEF DraftIsEmpty
<1>8. FormsAreFilledIn' /\ RepliesAreReadable' /\ OneReplyPerCustomer' /\ StoredBeforeThanks'
      /\ MailsFollowReplies'
  BY <1>5 DEF FormsAreFilledIn, RepliesAreReadable, OneReplyPerCustomer, StoredBeforeThanks,
              MailsFollowReplies
<1> QED BY <1>4, <1>6, <1>7, <1>8 DEF IInv

LEMMA AddKeeps ==
    ASSUME IInv, NEW card \in Cards, AddQuestion(card)
    PROVE  IInv'
<1> DEFINE item == WithCard(NewItem, card)
           new == [questions |-> WithQuestion(Live.next, NormalizeQuestion(item)), next |-> Live.next + 1]
<1>1. Live \in Definitions
  BY LiveIs DEF IInv
<1>2. item \in Item
  BY CardsAssumption, NewItemIs, CardIs
<1>3. NormalizeQuestion(item) \in Stored
  BY <1>2, StoredIs DEF AddQuestion
<1>4. new \in Definitions /\ Continues(Live, new)
  BY <1>1, <1>3, AddedIs DEF WithQuestion, Questions
<1>5. /\ published = 0 /\ unconverted = None /\ revision' = Append(revision, new)
      /\ UNCHANGED <<published, unconverted, setting, tab, reply, optIn, mails, scenario, events>>
  BY DEF AddQuestion, Drafting, Store
<1> HIDE DEF new
<1> QED BY <1>4, <1>5, NewRevision

LEMMA UpdateKeeps ==
    ASSUME IInv, NEW n \in DOMAIN Questions, NEW card \in Cards, UpdateQuestion(n, card)
    PROVE  IInv'
<1> DEFINE item == WithCard(Questions[n], card)
           new == [questions |-> [Questions EXCEPT ![n] = NormalizeQuestion(item)], next |-> Live.next]
<1>1. Live \in Definitions /\ n \in DOMAIN Live.questions /\ Live.questions[n] \in Stored
  BY LiveIs, QuestionsAre DEF IInv, Questions
<1>2. item \in Item /\ item.next = Live.questions[n].next
  BY <1>1, CardsAssumption, CardIs DEF Stored, Questions
<1>3. NormalizeQuestion(item) \in Stored
  BY <1>2, StoredIs DEF UpdateQuestion
<1>4. /\ NormalizeQuestion(item).next >= Live.questions[n].next
      /\ \A code \in Codes(NormalizeQuestion(item).choices) :
            code < Live.questions[n].next => code \in Codes(Live.questions[n].choices)
  <2>1. CodesAreFresh(item, Live.questions[n])
    BY DEF UpdateQuestion, Questions
  <2> HIDE DEF item
  <2> QED BY <2>1, <1>1, <1>2, UpdatedIs
<1>5. new \in Definitions /\ Continues(Live, new)
  <2> HIDE DEF item
  <2> QED BY <1>1, <1>3, <1>4, ReplacedIs DEF Questions
<1>6. /\ published = 0 /\ unconverted = None /\ revision' = Append(revision, new)
      /\ UNCHANGED <<published, unconverted, setting, tab, reply, optIn, mails, scenario, events>>
  BY DEF UpdateQuestion, Drafting, Store
<1> HIDE DEF new
<1> QED BY <1>5, <1>6, NewRevision

LEMMA DuplicateKeeps ==
    ASSUME IInv, NEW n \in DOMAIN Questions, DuplicateQuestion(n)
    PROVE  IInv'
<1> DEFINE new == [questions |-> WithQuestion(Live.next, Questions[n]), next |-> Live.next + 1]
<1>1. Live \in Definitions /\ Questions[n] \in Stored
  BY LiveIs, QuestionsAre DEF IInv, Questions
<1>2. new \in Definitions /\ Continues(Live, new)
  BY <1>1, AddedIs DEF WithQuestion, Questions
<1>3. /\ published = 0 /\ unconverted = None /\ revision' = Append(revision, new)
      /\ UNCHANGED <<published, unconverted, setting, tab, reply, optIn, mails, scenario, events>>
  BY DEF DuplicateQuestion, Drafting, Store
<1> HIDE DEF new
<1> QED BY <1>2, <1>3, NewRevision

LEMMA DeleteKeeps ==
    ASSUME IInv, NEW n \in DOMAIN Questions, DeleteQuestion(n)
    PROVE  IInv'
<1> DEFINE new == [questions |-> [m \in (DOMAIN Questions) \ {n} |-> Questions[m]], next |-> Live.next]
<1>1. Live \in Definitions /\ n \in DOMAIN Live.questions
  BY LiveIs DEF IInv, Questions
<1>2. new \in Definitions /\ Continues(Live, new)
  BY <1>1, DeletedIs DEF Questions
<1>3. /\ published = 0 /\ unconverted = None /\ revision' = Append(revision, new)
      /\ UNCHANGED <<published, unconverted, setting, tab, reply, optIn, mails, scenario, events>>
  BY DEF DeleteQuestion, Drafting, Store
<1> HIDE DEF new
<1> QED BY <1>2, <1>3, NewRevision

LEMMA PublishKeeps ==
    ASSUME IInv, Publish
    PROVE  IInv'
<1>1. Live \in Definitions
  BY LiveIs DEF IInv
<1>2. Continues(Live, Live)
  BY <1>1, ContinuesItself
<1>3. /\ published = 0 /\ unconverted = None /\ revision' = Append(revision, Live)
      /\ published' = Len(revision) + 1
      /\ UNCHANGED <<unconverted, setting, tab, reply, optIn, mails, scenario, events>>
  BY DEF Publish
<1> QED BY <1>1, <1>2, <1>3, NewRevision

\* The migration stores what the old replies held.
LEMMA ConvertKeeps ==
    ASSUME IInv, ConvertDefinitions
    PROVE  IInv'
<1> DEFINE legacy == unconverted
           item == FromLegacy(legacy.question)
           value == legacy.values
           stored(t) == [user |-> None, answers |-> <<ConvertedAnswer(item, value[t])>>,
                         consent |-> FALSE, status |-> "kept"]
<1>1. /\ unconverted # None /\ Convertible(legacy.question, Range(value) \ {None})
      /\ revision' = <<Only(item)>> /\ published' = 1 /\ unconverted' = None
      /\ reply' = [t \in Tabs |-> IF value[t] = None THEN NoReply ELSE stored(t)]
      /\ UNCHANGED <<setting, tab, optIn, mails, scenario, events>>
  BY DEF ConvertDefinitions
<1>2. Typed /\ DraftIsEmpty /\ MailsFollowReplies /\ legacy \in LegacySurveys
  BY <1>1 DEF IInv, Typed
<1>3. \A t \in Tabs : tab[t].pc = "none" /\ mails[t] = 0
  BY <1>1, <1>2 DEF DraftIsEmpty, MailsFollowReplies
<1>4. item \in Item
  BY <1>2, LegacyIs
<1>5. /\ Only(item) \in Definitions /\ DOMAIN Only(item).questions = {1}
      /\ Only(item).questions[1] = NormalizeQuestion(item)
  <2>1. /\ NormalizeQuestion(item) \in Item
        /\ NormalizeQuestion(NormalizeQuestion(item)) = NormalizeQuestion(item)
        /\ \A code \in Codes(NormalizeQuestion(item).choices) : code < NormalizeQuestion(item).next
    BY <1>4, NormalizeIs, NormalizedAlready, StoredCodes
  <2>2. Acceptable(NormalizeQuestion(item))
    BY <1>1 DEF Convertible
  <2>3. NormalizeQuestion(item) \in Stored
    BY <2>1, <2>2 DEF Stored
  <2> QED BY <2>3, OnlyIsStored
<1>6. ASSUME NEW t \in Tabs, value[t] # None
      PROVE  /\ ConvertedAnswer(item, value[t]) \in Seq(Int)
             /\ Readable(NormalizeQuestion(item), ConvertedAnswer(item, value[t]))
  BY <1>1, <1>2, <1>6, ConvertedIsReadable
<1> HIDE DEF item
<1>7. ASSUME NEW t \in Tabs, value[t] # None
      PROVE  /\ stored(t) \in Reply /\ stored(t) # NoReply
             /\ stored(t).user = None /\ stored(t).status = "kept"
             /\ DOMAIN stored(t).answers = {1}
             /\ Readable(NormalizeQuestion(item), stored(t).answers[1])
  <2> DEFINE a == ConvertedAnswer(item, value[t])
  <2>1. a \in Seq(Int) /\ Readable(NormalizeQuestion(item), a)
    BY <1>6, <1>7
  <2> HIDE DEF a
  <2>2. DOMAIN <<a>> = {1} /\ <<a>>[1] = a
    OBVIOUS
  <2>3. <<a>> \in Answered
    <3>1. <<a>> \in [{1} -> Seq(Int)] /\ {1} \in SUBSET Nat
      BY <2>1
    <3> QED BY <3>1 DEF Answered
  <2>4. stored(t) = [user |-> None, answers |-> <<a>>, consent |-> FALSE, status |-> "kept"]
    BY DEF a
  <2> HIDE DEF stored
  <2>5. stored(t) \in Reply
    BY <2>3, <2>4 DEF Reply, Statuses
  <2> QED BY <2>1, <2>2, <2>4, <2>5 DEF NoReply
<1> HIDE DEF stored, value
<1>8. revision' \in Seq(Definitions) /\ Len(revision') = 1 /\ DOMAIN revision' = {1}
      /\ revision'[1] = Only(item)
  BY <1>1, <1>5
<1>9. \A t \in Tabs : /\ value[t] = None => reply'[t] = NoReply
                      /\ value[t] # None => reply'[t] = stored(t)
  BY <1>1
<1>10. Typed'
  <2>1. reply' \in [Tabs -> Reply]
    BY <1>1, <1>7, NoReplyIs
  <2>2. published' \in 0 .. Len(revision') /\ Len(revision') >= 1
    BY <1>1, <1>8
  <2> QED BY <1>1, <1>2, <1>8, <2>1, <2>2 DEF Typed
<1>11. RevisionsContinue'
  BY <1>5, <1>8, ContinuesItself DEF RevisionsContinue
<1>12. DraftIsEmpty' /\ FormsAreFilledIn' /\ StoredBeforeThanks'
  BY <1>1, <1>3 DEF DraftIsEmpty, FormsAreFilledIn, StoredBeforeThanks
<1>13. MailsFollowReplies'
  BY <1>1, <1>3 DEF MailsFollowReplies
<1>14. RepliesAreReadable'
  <2>1. DOMAIN Questions' = {1} /\ Questions'[1] = NormalizeQuestion(item)
    BY <1>5, <1>8 DEF Questions, Live
  <2> SUFFICES ASSUME NEW k \in Tabs, reply'[k] # NoReply
               PROVE  /\ DOMAIN reply'[k].answers \subseteq DOMAIN Questions'
                      /\ \A n \in DOMAIN reply'[k].answers : Readable(Questions'[n], reply'[k].answers[n])
                      /\ reply'[k].status = "kept" /\ reply'[k].user = None
    BY DEF RepliesAreReadable
  <2>2. reply'[k] = stored(k) /\ value[k] # None
    BY <1>9
  <2> QED BY <2>1, <2>2, <1>7
<1>15. OneReplyPerCustomer'
  <2>1. \A k \in Tabs : reply'[k] # NoReply => reply'[k].user = None
    BY <1>7, <1>9
  <2> QED BY <2>1, UsersAssumption DEF OneReplyPerCustomer
<1> QED BY <1>10, <1>11, <1>12, <1>13, <1>14, <1>15 DEF IInv

-----------------------------------------------------------------------------
(* The invariant is kept: a published survey *)

\* The survey stays as it is, but for its setting.
SameSurvey == UNCHANGED <<revision, published, unconverted, scenario>>

LEMMA SameQuestions ==
    ASSUME SameSurvey
    PROVE  /\ Questions' = Questions /\ Answers' = Answers
           /\ \A t \in Tabs : User(t)' = User(t)
           /\ \A t \in Tabs : tab'[t].answers = tab[t].answers => Encoded(t)' = Encoded(t)
           /\ RevisionsContinue => RevisionsContinue'
<1>1. Questions' = Questions /\ scenario' = scenario /\ revision' = revision
  BY DEF SameSurvey, Questions, Live
<1>2. Answers' = Answers
  BY <1>1 DEF Answers
<1>3. \A t \in Tabs : tab'[t].answers = tab[t].answers => Encoded(t)' = Encoded(t)
  BY <1>1 DEF Encoded
<1> QED BY <1>1, <1>2, <1>3 DEF User, RevisionsContinue

\* Settings and preferences.
LEMMA SettingsKeep ==
    ASSUME IInv, SameSurvey, UNCHANGED <<tab, reply, mails>>,
           setting' \in {"open", "closed", "archived"}, optIn' \in [Users -> BOOLEAN],
           events' \in 0 .. scenario.events
    PROVE  IInv'
<1>1. /\ Questions' = Questions /\ Answers' = Answers
      /\ \A t \in Tabs : User(t)' = User(t) /\ Encoded(t)' = Encoded(t)
      /\ RevisionsContinue'
  BY SameQuestions DEF IInv
<1>2. Typed' /\ DraftIsEmpty' /\ MailsFollowReplies'
  BY DEF IInv, Typed, DraftIsEmpty, MailsFollowReplies, SameSurvey
<1>3. FormsAreFilledIn'
  BY <1>1 DEF IInv, FormsAreFilledIn
<1>4. RepliesAreReadable'
  BY <1>1 DEF IInv, RepliesAreReadable, SameSurvey
<1>5. OneReplyPerCustomer'
  BY DEF IInv, OneReplyPerCustomer, SameSurvey
<1>6. StoredBeforeThanks'
  BY <1>1 DEF IInv, StoredBeforeThanks, Holds, SameSurvey
<1> QED BY <1>1, <1>2, <1>3, <1>4, <1>5, <1>6 DEF IInv

\* One form moves on, and what is stored stays.
LEMMA FormKeeps ==
    ASSUME IInv, SameSurvey, UNCHANGED <<setting, reply>>, published # 0,
           optIn' \in [Users -> BOOLEAN], events' \in 0 .. scenario.events,
           NEW t \in Tabs, NEW form \in Form, tab' = [tab EXCEPT ![t] = form],
           User(t) \in Users, form.pc # "none",
           form.pc # "form" => form.answers \in Answers,
           form.pc \in {"stored", "mail", "thanked"} =>
              /\ tab[t].pc \in {"stored", "mail", "thanked"}
              /\ form.answers = tab[t].answers /\ form.consent = tab[t].consent,
           NEW sent \in Nat, mails' = [mails EXCEPT ![t] = sent], sent <= 1,
           reply[t] = NoReply => sent = 0,
           form.pc \in {"stored", "mail"} => sent = 0
    PROVE  IInv'
<1>0. Typed /\ tab \in [Tabs -> Form] /\ mails \in [Tabs -> Nat]
  BY DEF IInv, Typed
<1>1. /\ Questions' = Questions /\ Answers' = Answers
      /\ \A u \in Tabs : User(u)' = User(u)
      /\ \A u \in Tabs : tab'[u].answers = tab[u].answers => Encoded(u)' = Encoded(u)
      /\ RevisionsContinue'
  BY SameQuestions DEF IInv
<1>2. /\ tab'[t] = form /\ mails'[t] = sent
      /\ \A u \in Tabs : u # t => tab'[u] = tab[u] /\ mails'[u] = mails[u]
      /\ tab' \in [Tabs -> Form] /\ mails' \in [Tabs -> Nat]
  BY <1>0
<1>3. Typed'
  BY <1>0, <1>2 DEF Typed, SameSurvey
<1>4. DraftIsEmpty'
  BY DEF IInv, DraftIsEmpty, SameSurvey
<1>5. FormsAreFilledIn'
  <2> SUFFICES ASSUME NEW u \in Tabs
               PROVE  /\ tab'[u].pc # "none" => User(u) \in Users
                      /\ tab'[u].pc \notin {"none", "form"} => tab'[u].answers \in Answers
    BY <1>1 DEF FormsAreFilledIn
  <2>1. CASE u = t
    BY <2>1, <1>2
  <2>2. CASE u # t
    BY <2>2, <1>2 DEF IInv, FormsAreFilledIn
  <2> QED BY <2>1, <2>2
<1>6. RepliesAreReadable'
  BY <1>1 DEF IInv, RepliesAreReadable, SameSurvey
<1>7. OneReplyPerCustomer'
  BY DEF IInv, OneReplyPerCustomer, SameSurvey
<1>8. StoredBeforeThanks'
  <2> SUFFICES ASSUME NEW u \in Tabs, tab'[u].pc \in {"stored", "mail", "thanked"} PROVE Holds(u)'
    BY DEF StoredBeforeThanks
  <2>1. /\ tab[u].pc \in {"stored", "mail", "thanked"}
        /\ tab'[u].answers = tab[u].answers /\ tab'[u].consent = tab[u].consent
    BY <1>2
  <2>2. Holds(u)
    BY <2>1 DEF IInv, StoredBeforeThanks
  <2> QED BY <2>1, <2>2, <1>1 DEF Holds, SameSurvey
<1>9. MailsFollowReplies'
  <2> SUFFICES ASSUME NEW u \in Tabs
               PROVE  /\ reply[u] = NoReply => mails'[u] = 0
                      /\ tab'[u].pc \in {"stored", "mail"} => mails'[u] = 0
                      /\ mails'[u] <= 1
    BY DEF MailsFollowReplies
  <2>1. CASE u = t
    BY <2>1, <1>2
  <2>2. CASE u # t
    BY <2>2, <1>2 DEF IInv, MailsFollowReplies
  <2> QED BY <2>1, <2>2
<1> QED BY <1>1, <1>3, <1>4, <1>5, <1>6, <1>7, <1>8, <1>9 DEF IInv

\* Replies change, but neither their customers nor their answers.
LEMMA RepliesKeep ==
    ASSUME IInv, SameSurvey, UNCHANGED <<setting, tab, optIn, mails>>,
           events' \in 0 .. scenario.events, reply' \in [Tabs -> Reply],
           \A k \in Tabs : reply[k] = NoReply => reply'[k] = NoReply,
           \A k \in Tabs : reply[k] # NoReply =>
              /\ reply'[k] # NoReply /\ reply'[k].user = reply[k].user
              /\ reply'[k].answers = reply[k].answers
              /\ reply'[k].status # "none"
              /\ scenario.via = "site" => reply'[k].status = "kept"
              /\ scenario.via = "inbox" /\ reply[k].user # None =>
                    reply'[k].status # "kept" /\ reply'[k].consent = reply[k].consent
    PROVE  IInv'
<1>1. /\ Questions' = Questions /\ Answers' = Answers
      /\ \A u \in Tabs : User(u)' = User(u) /\ Encoded(u)' = Encoded(u)
      /\ RevisionsContinue'
  BY SameQuestions DEF IInv
<1>2. Typed'
  BY DEF IInv, Typed, SameSurvey
<1>3. DraftIsEmpty' /\ MailsFollowReplies'
  BY DEF IInv, DraftIsEmpty, MailsFollowReplies, SameSurvey
<1>4. FormsAreFilledIn'
  BY <1>1 DEF IInv, FormsAreFilledIn
<1>5. RepliesAreReadable'
  <2> SUFFICES ASSUME NEW k \in Tabs, reply'[k] # NoReply
               PROVE  /\ DOMAIN reply'[k].answers \subseteq DOMAIN Questions
                      /\ \A n \in DOMAIN reply'[k].answers : Readable(Questions[n], reply'[k].answers[n])
                      /\ reply'[k].status # "none"
                      /\ scenario.via = "site" => reply'[k].status = "kept"
                      /\ scenario.via = "inbox" /\ reply'[k].user # None => reply'[k].status # "kept"
    BY <1>1 DEF RepliesAreReadable, SameSurvey
  <2>1. reply[k] # NoReply
    OBVIOUS
  <2>2. /\ DOMAIN reply[k].answers \subseteq DOMAIN Questions
        /\ \A n \in DOMAIN reply[k].answers : Readable(Questions[n], reply[k].answers[n])
    BY <2>1 DEF IInv, RepliesAreReadable
  <2> QED BY <2>1, <2>2
<1>6. OneReplyPerCustomer'
  BY DEF IInv, OneReplyPerCustomer, SameSurvey
<1>7. StoredBeforeThanks'
  <2> SUFFICES ASSUME NEW u \in Tabs, tab[u].pc \in {"stored", "mail", "thanked"} PROVE Holds(u)'
    BY DEF StoredBeforeThanks
  <2>1. Holds(u) /\ User(u) \in Users
    BY DEF IInv, StoredBeforeThanks, FormsAreFilledIn
  <2>2. reply[u] # NoReply /\ reply[u].user # None
    BY <2>1, UsersAssumption DEF Holds
  <2> QED BY <2>1, <2>2, <1>1 DEF Holds, SameSurvey
<1> QED BY <1>1, <1>2, <1>3, <1>4, <1>5, <1>6, <1>7 DEF IInv

\* A post is judged: thanked for as a resend, refused, or stored.
LEMMA JudgedKeeps ==
    ASSUME IInv, UNCHANGED <<survey, optIn, mails, scenario, events>>,
           NEW t \in Tabs, tab[t].pc = "judge", NEW same \in BOOLEAN, NEW may \in BOOLEAN,
           NEW status \in {"kept", "received"}, NEW next \in {"stored", "mail"},
           Judged(t, same, may, status, next),
           same /\ reply[t] # NoReply => Holds(t),
           scenario.via = "site" => status = "kept",
           scenario.via = "inbox" => status = "received",
           may /\ scenario.via = "site" =>
              User(t) \in Managers \/ \A k \in Tabs : reply[k] # NoReply => reply[k].user # User(t)
    PROVE  IInv'
<1>0. /\ Typed /\ tab \in [Tabs -> Form] /\ reply \in [Tabs -> Reply] /\ mails \in [Tabs -> Nat]
      /\ Live \in Definitions
  BY LiveIs DEF IInv, Typed
<1>1. SameSurvey /\ UNCHANGED setting
  BY DEF survey, SameSurvey
<1>2. /\ User(t) \in Users /\ tab[t].answers \in Answers /\ published # 0 /\ tab[t].consent \in BOOLEAN
      /\ tab[t].answers \in Answered
  BY <1>0 DEF IInv, FormsAreFilledIn, DraftIsEmpty, Form
<1>3. /\ Encoded(t) \in Answered /\ DOMAIN Encoded(t) = DOMAIN Questions
      /\ \A n \in DOMAIN Questions : Readable(Questions[n], Encoded(t)[n])
  BY <1>0, <1>2, EncodedIs
<1>4. CASE reply' = reply /\ \E pc \in {"thanked", "refused"} :
              Answer(t, pc) /\ (pc = "thanked" => reply[t] # NoReply /\ same)
  <2>1. PICK pc \in {"thanked", "refused"} :
            Answer(t, pc) /\ (pc = "thanked" => reply[t] # NoReply /\ same)
    BY <1>4
  <2> DEFINE form == [tab[t] EXCEPT !.pc = pc]
  <2>2. /\ form \in Form /\ form.pc = pc /\ form.answers = tab[t].answers /\ form.consent = tab[t].consent
        /\ tab' = [tab EXCEPT ![t] = form]
    BY <2>1, <1>0 DEF Answer, Form, Steps
  <2> HIDE DEF form
  <2>3. /\ tab' \in [Tabs -> Form] /\ tab'[t] = form
        /\ \A u \in Tabs : u # t => tab'[u] = tab[u]
    BY <2>2, <1>0
  <2>4. /\ Questions' = Questions /\ Answers' = Answers
        /\ \A u \in Tabs : User(u)' = User(u) /\ Encoded(u)' = Encoded(u)
        /\ RevisionsContinue'
    <3>1. \A u \in Tabs : tab'[u].answers = tab[u].answers
      BY <2>2, <2>3
    <3> QED BY <3>1, <1>1, SameQuestions DEF IInv
  <2>5. Typed'
    BY <1>0, <1>1, <1>4, <2>3 DEF Typed, SameSurvey
  <2>6. DraftIsEmpty'
    BY <1>1, <1>2 DEF IInv, DraftIsEmpty, SameSurvey
  <2>7. FormsAreFilledIn'
    <3>1. \A u \in Tabs : /\ tab'[u].pc # "none" => User(u) \in Users
                          /\ tab'[u].pc \notin {"none", "form"} => tab'[u].answers \in Answers
      BY <1>2, <2>2, <2>3 DEF IInv, FormsAreFilledIn
    <3> QED BY <3>1, <2>4 DEF FormsAreFilledIn
  <2>8. RepliesAreReadable' /\ OneReplyPerCustomer'
    BY <1>1, <1>4, <2>4 DEF IInv, RepliesAreReadable, OneReplyPerCustomer, SameSurvey
  <2>9. StoredBeforeThanks'
    <3> SUFFICES ASSUME NEW u \in Tabs, tab'[u].pc \in {"stored", "mail", "thanked"} PROVE Holds(u)'
      BY DEF StoredBeforeThanks
    <3>1. Holds(u)
      <4>1. CASE u = t
        BY <4>1, <2>1, <2>2, <2>3
      <4>2. CASE u # t
        BY <4>2, <2>3 DEF IInv, StoredBeforeThanks
      <4> QED BY <4>1, <4>2
    <3>2. tab'[u].consent = tab[u].consent
      BY <2>2, <2>3
    <3> QED BY <3>1, <3>2, <2>4, <1>1, <1>4 DEF Holds, SameSurvey
  <2>10. MailsFollowReplies'
    <3>1. \A u \in Tabs : tab'[u].pc \in {"stored", "mail"} => tab[u].pc \in {"stored", "mail"}
      BY <2>1, <2>2, <2>3
    <3> QED BY <3>1, <1>4 DEF IInv, MailsFollowReplies
  <2> QED BY <2>4, <2>5, <2>6, <2>7, <2>8, <2>9, <2>10 DEF IInv
<1>5. CASE /\ reply[t] = NoReply /\ may /\ Answer(t, next)
           /\ reply' = [reply EXCEPT ![t] = [user |-> User(t), answers |-> Encoded(t),
                                             consent |-> tab[t].consent, status |-> status]]
  <2> DEFINE form == [tab[t] EXCEPT !.pc = next]
             new == [user |-> User(t), answers |-> Encoded(t),
                     consent |-> tab[t].consent, status |-> status]
  <2>1. /\ form \in Form /\ form.pc = next /\ form.answers = tab[t].answers /\ form.consent = tab[t].consent
        /\ tab' = [tab EXCEPT ![t] = form]
    BY <1>5, <1>0 DEF Answer, Form, Steps
  <2>2. /\ new \in Reply /\ new # NoReply /\ new.user = User(t) /\ new.answers = Encoded(t)
        /\ new.consent = tab[t].consent /\ new.status = status
    <3> HIDE DEF new
    <3>1. new = [user |-> User(t), answers |-> Encoded(t), consent |-> tab[t].consent, status |-> status]
      BY DEF new
    <3>2. new \in Reply
      BY <3>1, <1>2, <1>3 DEF Reply, Statuses
    <3> QED BY <3>1, <3>2 DEF NoReply
  <2>3. reply' = [reply EXCEPT ![t] = new]
    BY <1>5
  <2> HIDE DEF form, new
  <2>4. /\ tab' \in [Tabs -> Form] /\ tab'[t] = form /\ reply' \in [Tabs -> Reply] /\ reply'[t] = new
        /\ \A u \in Tabs : u # t => tab'[u] = tab[u] /\ reply'[u] = reply[u]
    BY <2>1, <2>2, <2>3, <1>0
  <2>5. /\ Questions' = Questions /\ Answers' = Answers
        /\ \A u \in Tabs : User(u)' = User(u) /\ Encoded(u)' = Encoded(u)
        /\ RevisionsContinue'
    <3>1. \A u \in Tabs : tab'[u].answers = tab[u].answers
      BY <2>1, <2>4
    <3> QED BY <3>1, <1>1, SameQuestions DEF IInv
  <2>6. Typed'
    BY <1>0, <1>1, <2>4 DEF Typed, SameSurvey
  <2>7. DraftIsEmpty'
    BY <1>1, <1>2 DEF IInv, DraftIsEmpty, SameSurvey
  <2>8. FormsAreFilledIn'
    <3>1. \A u \in Tabs : /\ tab'[u].pc # "none" => User(u) \in Users
                          /\ tab'[u].pc \notin {"none", "form"} => tab'[u].answers \in Answers
      BY <1>2, <2>1, <2>4 DEF IInv, FormsAreFilledIn
    <3> QED BY <3>1, <2>5 DEF FormsAreFilledIn
  <2>9. RepliesAreReadable'
    <3> SUFFICES ASSUME NEW k \in Tabs, reply'[k] # NoReply
                 PROVE  /\ DOMAIN reply'[k].answers \subseteq DOMAIN Questions
                        /\ \A n \in DOMAIN reply'[k].answers : Readable(Questions[n], reply'[k].answers[n])
                        /\ reply'[k].status # "none"
                        /\ scenario.via = "site" => reply'[k].status = "kept"
                        /\ scenario.via = "inbox" /\ reply'[k].user # None => reply'[k].status # "kept"
      BY <1>1, <2>5 DEF RepliesAreReadable, SameSurvey
    <3>1. CASE k = t
      BY <3>1, <1>3, <2>2, <2>4
    <3>2. CASE k # t
      BY <3>2, <2>4 DEF IInv, RepliesAreReadable
    <3> QED BY <3>1, <3>2
  <2>10. OneReplyPerCustomer'
    <3> SUFFICES ASSUME scenario.via = "site", NEW j \in Tabs, NEW k \in Tabs, reply'[j] # NoReply,
                        reply'[k] # NoReply, reply'[j].user = reply'[k].user,
                        reply'[j].user \in Users \ Managers
                 PROVE  j = k
      BY <1>1 DEF OneReplyPerCustomer, SameSurvey
    <3>1. CASE j # t /\ k # t
      BY <3>1, <2>4 DEF IInv, OneReplyPerCustomer
    <3>2. CASE j = t /\ k # t
      BY <3>2, <2>2, <2>4, <1>5
    <3>3. CASE j # t /\ k = t
      BY <3>3, <2>2, <2>4, <1>5
    <3> QED BY <3>1, <3>2, <3>3
  <2>11. StoredBeforeThanks'
    <3> SUFFICES ASSUME NEW u \in Tabs, tab'[u].pc \in {"stored", "mail", "thanked"} PROVE Holds(u)'
      BY DEF StoredBeforeThanks
    <3>1. CASE u = t
      BY <3>1, <2>1, <2>2, <2>4, <2>5, <1>1 DEF Holds, SameSurvey
    <3>2. CASE u # t
      <4>1. Holds(u)
        BY <3>2, <2>4 DEF IInv, StoredBeforeThanks
      <4> QED BY <4>1, <3>2, <2>4, <2>5, <1>1 DEF Holds, SameSurvey
    <3> QED BY <3>1, <3>2
  <2>12. MailsFollowReplies'
    <3> SUFFICES ASSUME NEW u \in Tabs
                 PROVE  /\ reply'[u] = NoReply => mails[u] = 0
                        /\ tab'[u].pc \in {"stored", "mail"} => mails[u] = 0
                        /\ mails[u] <= 1
      BY DEF MailsFollowReplies
    <3>1. CASE u = t
      BY <3>1, <1>5 DEF IInv, MailsFollowReplies
    <3>2. CASE u # t
      BY <3>2, <2>4 DEF IInv, MailsFollowReplies
    <3> QED BY <3>1, <3>2
  <2> QED BY <2>5, <2>6, <2>7, <2>8, <2>9, <2>10, <2>11, <2>12 DEF IInv
<1>6. QED
  <2>1. CASE reply[t] # NoReply
    BY <2>1, <1>4 DEF Judged
  <2>2. CASE reply[t] = NoReply /\ ~may
    BY <2>2, <1>4 DEF Judged
  <2>3. CASE reply[t] = NoReply /\ may
    BY <2>3, <1>5 DEF Judged
  <2> QED BY <2>1, <2>2, <2>3

LEMMA SubmitKeeps ==
    ASSUME IInv, NEW t \in Tabs, Submit(t)
    PROVE  IInv'
<1> DEFINE same == SameSubmission(t)
           may == MaySubmit(t)
<1>1. /\ scenario.via = "site" /\ tab[t].pc = "judge"
      /\ Judged(t, same, may, "kept", "stored")
      /\ UNCHANGED <<survey, optIn, mails, scenario, events>>
  BY DEF Submit
<1>2. same => reply[t].user = User(t) /\ reply[t].answers = Encoded(t)
  BY DEF SameSubmission
<1>3. same /\ reply[t] # NoReply => Holds(t)
  <2>1. scenario.via # "inbox"
    BY <1>1
  <2> HIDE DEF same
  <2> QED BY <2>1, <1>2 DEF Holds
<1>4. may => User(t) \in Managers \/ \A k \in Tabs : reply[k] # NoReply => reply[k].user # User(t)
  <2> SUFFICES ASSUME may, User(t) \notin Managers, NEW k \in Tabs, reply[k] # NoReply,
                      reply[k].user = User(t)
               PROVE  FALSE
    OBVIOUS
  <2>1. ~HasSubmitted(User(t))
    BY DEF MaySubmit, IsManager
  <2>2. reply[k].status = "kept"
    BY <1>1 DEF IInv, RepliesAreReadable
  <2> QED BY <2>1, <2>2 DEF HasSubmitted
<1>5. same \in BOOLEAN /\ may \in BOOLEAN
  BY DEF SameSubmission, MaySubmit
<1> HIDE DEF same, may
<1> QED BY <1>1, <1>3, <1>4, <1>5, JudgedKeeps

LEMMA AcceptKeeps ==
    ASSUME IInv, NEW t \in Tabs, Accept(t)
    PROVE  IInv'
<1> DEFINE same == SamePayload(t)
           may == MayAccept(t)
<1>1. /\ scenario.via = "inbox" /\ tab[t].pc = "judge"
      /\ Judged(t, same, may, "received", "mail")
      /\ UNCHANGED <<survey, optIn, mails, scenario, events>>
  BY DEF Accept
<1>2. same /\ reply[t] # NoReply => Holds(t)
  BY DEF SamePayload, Holds
<1>3. same \in BOOLEAN /\ may \in BOOLEAN
  BY DEF SamePayload, MayAccept
<1> HIDE DEF same, may
<1> QED BY <1>1, <1>2, <1>3, JudgedKeeps

\* A form that is open is of a published survey and of one of the users.
LEMMA OpenFormIs ==
    ASSUME IInv, NEW t \in Tabs, tab[t].pc # "none"
    PROVE  /\ published # 0 /\ User(t) \in Users /\ tab[t] \in Form
           /\ mails[t] \in Nat /\ mails[t] <= 1 /\ mails = [mails EXCEPT ![t] = mails[t]]
           /\ reply[t] = NoReply => mails[t] = 0
           /\ tab[t].pc \in {"stored", "mail"} => mails[t] = 0
           /\ tab[t].pc # "form" => tab[t].answers \in Answers
           /\ optIn \in [Users -> BOOLEAN] /\ events \in 0 .. scenario.events
<1>1. published # 0 /\ User(t) \in Users /\ (tab[t].pc # "form" => tab[t].answers \in Answers)
  BY DEF IInv, DraftIsEmpty, FormsAreFilledIn
<1>2. /\ tab[t] \in Form /\ mails[t] \in Nat /\ mails = [mails EXCEPT ![t] = mails[t]]
      /\ optIn \in [Users -> BOOLEAN] /\ events \in 0 .. scenario.events
  BY DEF IInv, Typed
<1> QED BY <1>1, <1>2 DEF IInv, MailsFollowReplies

LEMMA EventIs ==
    ASSUME Typed, Event
    PROVE  events' \in 0 .. scenario.events
<1>1. scenario.events \in Nat /\ events \in 0 .. scenario.events
  BY ScenarioAssumption DEF Typed
<1> QED BY <1>1 DEF Event

\* A form only moves on to another step.
LEMMA AnswerKeeps ==
    ASSUME IInv, SameSurvey, UNCHANGED <<setting, reply>>, NEW t \in Tabs, tab[t].pc \notin {"none", "form"},
           NEW pc \in Steps \ {"none"}, Answer(t, pc),
           optIn' \in [Users -> BOOLEAN], events' \in 0 .. scenario.events,
           pc \in {"stored", "mail", "thanked"} => tab[t].pc \in {"stored", "mail", "thanked"},
           NEW sent \in Nat, mails' = [mails EXCEPT ![t] = sent], sent <= 1,
           reply[t] = NoReply => sent = 0,
           pc \in {"stored", "mail"} => sent = 0
    PROVE  IInv'
<1> DEFINE form == [tab[t] EXCEPT !.pc = pc]
<1>1. published # 0 /\ User(t) \in Users /\ tab[t] \in Form /\ tab[t].answers \in Answers
  BY OpenFormIs
<1>2. /\ form \in Form /\ form.pc = pc /\ form.answers = tab[t].answers /\ form.consent = tab[t].consent
      /\ tab' = [tab EXCEPT ![t] = form]
  BY <1>1 DEF Answer, Form
<1> HIDE DEF form
<1> QED BY <1>1, <1>2, FormKeeps

LEMMA OpenKeeps ==
    ASSUME IInv, NEW t \in Tabs, OpenForm(t)
    PROVE  IInv'
<1> DEFINE form == [tab[t] EXCEPT !.pc = "form", !.consent = optIn[User(t)]]
<1>1. /\ Typed /\ tab[t] \in Form /\ mails[t] \in Nat /\ mails = [mails EXCEPT ![t] = mails[t]]
      /\ optIn \in [Users -> BOOLEAN] /\ events \in 0 .. scenario.events /\ scenario \in Scenarios
  BY DEF IInv, Typed
<1>2. User(t) \in Users
  <2>1. scenario.users \in [Tabs -> Users \union {None}]
    BY <1>1, ScenarioAssumption
  <2> QED BY <2>1 DEF OpenForm, User
<1>3. form \in Form /\ form.pc = "form"
  <2>1. optIn[User(t)] \in BOOLEAN
    BY <1>1, <1>2
  <2> QED BY <2>1, <1>1 DEF Form, Steps
<1>4. /\ tab' = [tab EXCEPT ![t] = form] /\ published # 0
      /\ SameSurvey /\ UNCHANGED <<setting, reply, mails, optIn, events>>
  BY DEF OpenForm, AcceptsResponses, survey, SameSurvey
<1>5. (reply[t] = NoReply => mails[t] = 0) /\ mails[t] <= 1
  BY DEF IInv, MailsFollowReplies
<1> HIDE DEF form
<1> QED BY <1>1, <1>2, <1>3, <1>4, <1>5, FormKeeps

LEMMA PostKeeps ==
    ASSUME IInv, NEW t \in Tabs, NEW consent \in BOOLEAN, Post(t, consent)
    PROVE  IInv'
<1> DEFINE pc == IF scenario.via = "inbox" /\ ~IsManager(t) THEN "prefer" ELSE "judge"
<1>1. tab[t].pc = "form" /\ tab[t].pc # "none"
  BY DEF Post
<1>2. PICK answers \in Answers : tab' = [tab EXCEPT ![t] = [pc |-> pc, answers |-> answers, consent |-> consent]]
  BY DEF Post
<1> DEFINE form == [pc |-> pc, answers |-> answers, consent |-> consent]
<1>3. answers \in Answered
  BY LiveIs, AnswersAre DEF IInv
<1>4. pc \in {"prefer", "judge"}
  OBVIOUS
<1> HIDE DEF pc
<1>5. form \in Form /\ form.pc = pc /\ form.answers = answers
  BY <1>3, <1>4 DEF Form, Steps
<1>6. SameSurvey /\ UNCHANGED <<setting, reply, mails, optIn, events>>
  BY DEF Post, survey, SameSurvey
<1> HIDE DEF form
<1>7. tab' = [tab EXCEPT ![t] = form]
  BY <1>2 DEF form
<1> QED BY <1>1, <1>4, <1>5, <1>6, <1>7, OpenFormIs, FormKeeps

LEMMA PreferKeeps ==
    ASSUME IInv, NEW t \in Tabs, PreferFirst(t) \/ PreferAfterwards(t)
    PROVE  IInv'
<1>1. tab[t].pc \in {"prefer", "stored"}
  BY DEF PreferFirst, PreferAfterwards
<1>2. optIn' \in [Users -> BOOLEAN]
  <2>1. tab[t].consent \in BOOLEAN /\ optIn \in [Users -> BOOLEAN]
    BY DEF IInv, Typed, Form
  <2>2. Prefer(t)
    BY DEF PreferFirst, PreferAfterwards
  <2> QED BY <2>1, <2>2 DEF Prefer
<1>3. SameSurvey /\ UNCHANGED <<setting, reply, mails, events>>
  BY DEF PreferFirst, PreferAfterwards, survey, SameSurvey
<1>4. \/ tab[t].pc = "prefer" /\ Answer(t, "judge")
      \/ tab[t].pc = "stored" /\ Answer(t, "mail")
  BY DEF PreferFirst, PreferAfterwards
<1>5. "judge" \in Steps \ {"none"} /\ "mail" \in Steps \ {"none"}
  BY DEF Steps
<1>6. /\ tab[t].pc \notin {"none", "form"}
      /\ mails[t] \in Nat /\ mails' = [mails EXCEPT ![t] = mails[t]] /\ mails[t] <= 1
      /\ reply[t] = NoReply => mails[t] = 0
      /\ tab[t].pc = "stored" => mails[t] = 0
      /\ events' \in 0 .. scenario.events
  BY <1>1, <1>3, OpenFormIs
<1>7. CASE tab[t].pc = "prefer" /\ Answer(t, "judge")
  BY <1>2, <1>3, <1>5, <1>6, <1>7, AnswerKeeps
<1>8. CASE tab[t].pc = "stored" /\ Answer(t, "mail")
  BY <1>2, <1>3, <1>5, <1>6, <1>8, AnswerKeeps
<1> QED BY <1>4, <1>7, <1>8

LEMMA ThankKeeps ==
    ASSUME IInv, NEW t \in Tabs, Thank(t)
    PROVE  IInv'
<1>1. /\ tab[t].pc = "mail" /\ Answer(t, "thanked") /\ mails' = [mails EXCEPT ![t] = @ + 1]
      /\ SameSurvey /\ UNCHANGED <<setting, reply, optIn, events>>
  BY DEF Thank, survey, SameSurvey
<1>2. /\ tab[t].pc \notin {"none", "form"} /\ mails[t] = 0
      /\ optIn' \in [Users -> BOOLEAN] /\ events' \in 0 .. scenario.events
  BY <1>1, OpenFormIs
<1>3. mails' = [mails EXCEPT ![t] = 1]
  BY <1>1, <1>2
<1>4. reply[t] # NoReply
  BY <1>1 DEF IInv, StoredBeforeThanks, Holds
<1>5. "thanked" \in Steps \ {"none"} /\ 1 \in Nat /\ 1 <= 1
  BY DEF Steps
<1> QED BY <1>1, <1>2, <1>3, <1>4, <1>5, AnswerKeeps

LEMMA KillKeeps ==
    ASSUME IInv, NEW t \in Tabs, Kill(t)
    PROVE  IInv'
<1>1. /\ tab[t].pc \in {"judge", "stored", "mail"} /\ Answer(t, "broken") /\ Event
      /\ SameSurvey /\ UNCHANGED <<setting, reply, optIn, mails>>
  BY DEF Kill, survey, SameSurvey
<1>2. /\ tab[t].pc \notin {"none", "form"}
      /\ mails[t] \in Nat /\ mails' = [mails EXCEPT ![t] = mails[t]] /\ mails[t] <= 1
      /\ reply[t] = NoReply => mails[t] = 0
      /\ optIn' \in [Users -> BOOLEAN]
  BY <1>1, OpenFormIs
<1>3. events' \in 0 .. scenario.events
  BY <1>1, EventIs DEF IInv
<1>4. "broken" \in Steps \ {"none"}
  BY DEF Steps
<1> QED BY <1>1, <1>2, <1>3, <1>4, AnswerKeeps

LEMMA ReturnKeeps ==
    ASSUME IInv, NEW t \in Tabs, Return(t)
    PROVE  IInv'
<1>1. /\ tab[t].pc \in {"thanked", "refused", "broken"} /\ Answer(t, "form") /\ Event
      /\ SameSurvey /\ UNCHANGED <<setting, reply, optIn, mails>>
  BY DEF Return, survey, SameSurvey
<1>2. /\ tab[t].pc \notin {"none", "form"}
      /\ mails[t] \in Nat /\ mails' = [mails EXCEPT ![t] = mails[t]] /\ mails[t] <= 1
      /\ reply[t] = NoReply => mails[t] = 0
      /\ optIn' \in [Users -> BOOLEAN]
  BY <1>1, OpenFormIs
<1>3. events' \in 0 .. scenario.events
  BY <1>1, EventIs DEF IInv
<1>4. "form" \in Steps \ {"none"}
  BY DEF Steps
<1> QED BY <1>1, <1>2, <1>3, <1>4, AnswerKeeps

LEMMA ToggleSurveyKeeps ==
    ASSUME IInv, NEW u \in Users, NEW on \in BOOLEAN, ToggleSurvey(u, on)
    PROVE  IInv'
<1> DEFINE toggled(k) == reply[k] # NoReply /\ reply[k].user = u /\ reply[k].status = "kept"
<1>1. /\ reply' = [k \in Tabs |-> IF toggled(k) THEN [reply[k] EXCEPT !.consent = on] ELSE reply[k]]
      /\ Event /\ SameSurvey /\ UNCHANGED <<setting, tab, optIn, mails>>
  BY DEF ToggleSurvey, survey, SameSurvey
<1>2. events' \in 0 .. scenario.events
  BY <1>1, EventIs DEF IInv
<1>3. reply \in [Tabs -> Reply] /\ \A k \in Tabs : reply[k] \in Reply
  BY DEF IInv, Typed
<1>4. ASSUME NEW k \in Tabs, toggled(k)
      PROVE  /\ reply'[k] \in Reply /\ reply'[k] # NoReply /\ reply'[k].user = reply[k].user
             /\ reply'[k].answers = reply[k].answers /\ reply'[k].status = "kept"
             /\ scenario.via = "inbox" => reply[k].user = None
  <2>1. reply'[k] = [reply[k] EXCEPT !.consent = on]
    BY <1>1, <1>4
  <2>2. /\ reply'[k] \in Reply /\ reply'[k].user = reply[k].user
        /\ reply'[k].answers = reply[k].answers /\ reply'[k].status = "kept"
    BY <2>1, <1>3, <1>4 DEF Reply
  <2>3. scenario.via = "inbox" => reply[k].user = None
    BY <1>4 DEF IInv, RepliesAreReadable
  <2>4. reply'[k] # NoReply
    BY <2>2 DEF NoReply
  <2> QED BY <2>2, <2>3, <2>4
<1>5. \A k \in Tabs : ~toggled(k) => reply'[k] = reply[k]
  BY <1>1
<1>6. reply' \in [Tabs -> Reply]
  <2>1. \A k \in Tabs : reply'[k] \in Reply
    BY <1>3, <1>4, <1>5
  <2>2. reply' = [k \in Tabs |-> reply'[k]]
    BY <1>1
  <2> QED BY <2>1, <2>2
<1>7. \A k \in Tabs : reply[k] # NoReply =>
          /\ reply[k].status # "none"
          /\ scenario.via = "site" => reply[k].status = "kept"
          /\ scenario.via = "inbox" /\ reply[k].user # None => reply[k].status # "kept"
  BY DEF IInv, RepliesAreReadable
<1>8. \A k \in Tabs : reply[k] = NoReply => reply'[k] = NoReply
  BY <1>5
<1>9. ASSUME NEW k \in Tabs, reply[k] # NoReply
      PROVE  /\ reply'[k] # NoReply /\ reply'[k].user = reply[k].user
             /\ reply'[k].answers = reply[k].answers
             /\ reply'[k].status # "none"
             /\ scenario.via = "site" => reply'[k].status = "kept"
             /\ scenario.via = "inbox" /\ reply[k].user # None =>
                   reply'[k].status # "kept" /\ reply'[k].consent = reply[k].consent
  <2>1. CASE toggled(k)
    BY <2>1, <1>4
  <2>2. CASE ~toggled(k)
    BY <2>2, <1>5, <1>7, <1>9
  <2> QED BY <2>1, <2>2
<1> HIDE DEF toggled
<1> QED BY <1>1, <1>2, <1>6, <1>8, <1>9, RepliesKeep

LEMMA SettleKeeps ==
    ASSUME IInv, NEW t \in Tabs, SettleReceipt(t)
    PROVE  IInv'
<1>1. PICK move \in ReceiptMoves :
          /\ reply[t] # NoReply /\ reply[t].status = move[1]
          /\ IF move[1] = "quarantined" THEN Event ELSE UNCHANGED events
          /\ reply' = [reply EXCEPT ![t].status = move[2]]
          /\ UNCHANGED <<survey, tab, optIn, mails, scenario>>
  BY DEF SettleReceipt
<1>2. SameSurvey /\ UNCHANGED <<setting, tab, optIn, mails>>
  BY <1>1 DEF survey, SameSurvey
<1>3. events' \in 0 .. scenario.events
  BY <1>1, EventIs DEF IInv, Typed
<1>4. move[1] \in {"received", "quarantined"} /\ move[2] \in {"synced", "quarantined", "received", "abandoned"}
  BY DEF ReceiptMoves
<1>5. reply \in [Tabs -> Reply] /\ reply[t] \in Reply
  BY DEF IInv, Typed
<1> DEFINE new == [reply[t] EXCEPT !.status = move[2]]
<1>6. /\ new \in Reply /\ new.user = reply[t].user /\ new.answers = reply[t].answers
      /\ new.consent = reply[t].consent /\ new.status = move[2]
      /\ reply' = [reply EXCEPT ![t] = new]
  BY <1>1, <1>4, <1>5 DEF Reply, Statuses
<1>7. new # NoReply /\ scenario.via # "site"
  <2>1. new.status # "none"
    BY <1>4, <1>6
  <2>2. scenario.via # "site"
    BY <1>1, <1>4 DEF IInv, RepliesAreReadable
  <2> QED BY <2>1, <2>2 DEF NoReply
<1> HIDE DEF new
<1>8. /\ reply' \in [Tabs -> Reply] /\ reply'[t] = new
      /\ \A k \in Tabs : k # t => reply'[k] = reply[k]
  BY <1>5, <1>6
<1>9. \A k \in Tabs : reply[k] # NoReply =>
          /\ reply[k].status # "none"
          /\ scenario.via = "inbox" /\ reply[k].user # None => reply[k].status # "kept"
  BY DEF IInv, RepliesAreReadable
<1>10. \A k \in Tabs : reply[k] = NoReply => reply'[k] = NoReply
  BY <1>1, <1>8
<1>11. ASSUME NEW k \in Tabs, reply[k] # NoReply
       PROVE  /\ reply'[k] # NoReply /\ reply'[k].user = reply[k].user
              /\ reply'[k].answers = reply[k].answers
              /\ reply'[k].status # "none"
              /\ scenario.via = "site" => reply'[k].status = "kept"
              /\ scenario.via = "inbox" /\ reply[k].user # None =>
                    reply'[k].status # "kept" /\ reply'[k].consent = reply[k].consent
  <2>1. CASE k = t
    BY <2>1, <1>4, <1>6, <1>7, <1>8
  <2>2. CASE k # t
    BY <2>2, <1>7, <1>8, <1>9, <1>11
  <2> QED BY <2>1, <2>2
<1> QED BY <1>2, <1>3, <1>8, <1>10, <1>11, RepliesKeep

LEMMA SettingKeeps ==
    ASSUME IInv, ChangeSetting \/ \E u \in Users : ToggleGlobal(u)
    PROVE  IInv'
<1>1. Event /\ SameSurvey /\ UNCHANGED <<tab, reply, mails>>
  BY DEF ChangeSetting, ToggleGlobal, survey, SameSurvey
<1>2. events' \in 0 .. scenario.events
  BY <1>1, EventIs DEF IInv
<1>3. setting' \in {"open", "closed", "archived"}
  BY DEF ChangeSetting, ToggleGlobal, survey, IInv, Typed
<1>4. optIn' \in [Users -> BOOLEAN]
  <2>1. optIn \in [Users -> BOOLEAN]
    BY DEF IInv, Typed
  <2>2. CASE ChangeSetting
    BY <2>1, <2>2 DEF ChangeSetting
  <2>3. CASE \E u \in Users : ToggleGlobal(u)
    <3>1. PICK u \in Users : optIn' = [optIn EXCEPT ![u] = ~@]
      BY <2>3 DEF ToggleGlobal
    <3>2. (~optIn[u]) \in BOOLEAN
      OBVIOUS
    <3> QED BY <2>1, <3>1, <3>2
  <2> QED BY <2>2, <2>3
<1> QED BY <1>1, <1>2, <1>3, <1>4, SettingsKeep

-----------------------------------------------------------------------------
(* What holds of every survey *)

\* Every step keeps the invariant.
LEMMA NextInv == IInv /\ [Next]_vars => IInv'
<1> SUFFICES ASSUME IInv, [Next]_vars PROVE IInv'
  OBVIOUS
<1>1. CASE UNCHANGED vars
  <2>1. SameSurvey /\ UNCHANGED <<setting, tab, reply, optIn, mails, events>>
    BY <1>1 DEF vars, SameSurvey
  <2>2. /\ setting \in {"open", "closed", "archived"} /\ optIn \in [Users -> BOOLEAN]
        /\ events \in 0 .. scenario.events
    BY DEF IInv, Typed
  <2> QED BY <2>1, <2>2, SettingsKeep
<1>2. CASE \E card \in Cards : AddQuestion(card)
  BY <1>2, AddKeeps
<1>3. CASE \E n \in DOMAIN Questions, card \in Cards : UpdateQuestion(n, card)
  BY <1>3, UpdateKeeps
<1>4. CASE \E n \in DOMAIN Questions : DuplicateQuestion(n) \/ DeleteQuestion(n)
  BY <1>4, DuplicateKeeps, DeleteKeeps
<1>5. CASE Publish
  BY <1>5, PublishKeeps
<1>6. CASE ConvertDefinitions
  BY <1>6, ConvertKeeps
<1>7. CASE ChangeSetting \/ \E u \in Users : ToggleGlobal(u)
  BY <1>7, SettingKeeps
<1>8. CASE \E t \in Tabs : OpenForm(t)
  BY <1>8, OpenKeeps
<1>9. CASE \E t \in Tabs : PreferFirst(t) \/ PreferAfterwards(t)
  BY <1>9, PreferKeeps
<1>10. CASE \E t \in Tabs : Submit(t)
  BY <1>10, SubmitKeeps
<1>11. CASE \E t \in Tabs : Accept(t)
  BY <1>11, AcceptKeeps
<1>12. CASE \E t \in Tabs : Thank(t)
  BY <1>12, ThankKeeps
<1>13. CASE \E t \in Tabs : Kill(t)
  BY <1>13, KillKeeps
<1>14. CASE \E t \in Tabs : Return(t)
  BY <1>14, ReturnKeeps
<1>15. CASE \E t \in Tabs : SettleReceipt(t)
  BY <1>15, SettleKeeps
<1>16. CASE \E t \in Tabs, consent \in BOOLEAN : Post(t, consent)
  BY <1>16, PostKeeps
<1>17. CASE \E u \in Users, on \in BOOLEAN : ToggleSurvey(u, on)
  BY <1>17, ToggleSurveyKeeps
<1> QED BY <1>1, <1>2, <1>3, <1>4, <1>5, <1>6, <1>7, <1>8, <1>9, <1>10, <1>11, <1>12, <1>13, <1>14,
           <1>15, <1>16, <1>17 DEF Next

LEMMA Inductive == Spec => []IInv
<1> QED BY InitInv, NextInv, PTL DEF Spec

\* At all times the variables have their types, every question of the survey is accepted and in
\* normal form, and no code or number is at or above the counter it came from.
THEOREM TypeCorrect == Spec => []TypeOK
<1>1. IInv => TypeOK
  <2> SUFFICES ASSUME IInv PROVE TypeOK
    OBVIOUS
  <2>1. /\ Typed /\ RepliesAreReadable
    BY DEF IInv
  <2>2. /\ scenario \in Scenarios /\ events \in 0 .. scenario.events
        /\ published \in 0 .. Len(revision) /\ setting \in {"open", "closed", "archived"}
        /\ optIn \in [Users -> BOOLEAN] /\ mails \in [Tabs -> Nat]
    BY <2>1 DEF Typed
  <2>3. ASSUME NEW t \in Tabs
        PROVE  /\ tab[t].pc \in {"none", "form", "prefer", "judge", "stored", "mail", "thanked",
                                 "refused", "broken"}
               /\ reply[t] # NoReply => IsReply(reply[t])
    <3>1. tab[t] \in Form /\ reply[t] \in Reply
      BY <2>1 DEF Typed
    <3>2. reply[t] # NoReply => DOMAIN reply[t].answers \subseteq DOMAIN Questions /\ reply[t].status # "none"
      BY <2>1 DEF RepliesAreReadable
    <3> QED BY <3>1, <3>2 DEF Form, Steps, Reply, Statuses, IsReply
  <2>4. ASSUME NEW n \in DOMAIN Questions
        PROVE  /\ n < Live.next /\ Acceptable(Questions[n])
               /\ NormalizeQuestion(Questions[n]) = Questions[n]
               /\ \A code \in Codes(Questions[n].choices) : code < Questions[n].next
    <3>1. n < Live.next /\ Questions[n] \in Stored
      BY <2>1, LiveIs, QuestionsAre DEF Questions
    <3> QED BY <3>1 DEF Stored
  <2> QED BY <2>2, <2>3, <2>4 DEF TypeOK
<1> QED BY <1>1, Inductive, PTL

\* Whatever a draft's editors add, change, copy and delete: a question number or option code
\* that two revisions have was never gone in between.
THEOREM NamesAreForever == Spec => []CodesAreNotReused
<1>1. IInv => CodesAreNotReused
  <2> SUFFICES ASSUME IInv, NEW i \in DOMAIN revision, NEW j \in DOMAIN revision, NEW k \in DOMAIN revision,
                      i < j, j < k, NEW n \in DOMAIN revision[i].questions \cap DOMAIN revision[k].questions
               PROVE  /\ n \in DOMAIN revision[j].questions
                      /\ Codes(revision[i].questions[n].choices) \cap Codes(revision[k].questions[n].choices)
                           \subseteq Codes(revision[j].questions[n].choices)
    BY DEF CodesAreNotReused
  <2>1. revision \in Seq(Definitions) /\ i \in Int /\ j \in Int /\ k \in Int
    BY DEF IInv, Typed
  <2>2. /\ revision[i] \in Definitions /\ revision[j] \in Definitions
        /\ Continues(revision[i], revision[j]) /\ Continues(revision[j], revision[k])
    BY <2>1 DEF IInv, RevisionsContinue
  <2> DEFINE a == revision[i]
             b == revision[j]
             c == revision[k]
  <2>3. /\ a \in Definitions /\ b \in Definitions /\ Continues(a, b) /\ Continues(b, c)
        /\ n \in DOMAIN a.questions /\ n \in DOMAIN c.questions
    BY <2>2
  <2> HIDE DEF a, b, c
  <2>4. n \in Nat /\ n < a.next /\ a.next \in Nat /\ b.next \in Nat
    BY <2>3, QuestionsAre
  <2>5. n < b.next
    BY <2>3, <2>4 DEF Continues
  <2>6. n \in DOMAIN b.questions
    BY <2>3, <2>5 DEF Continues
  <2>7. /\ a.questions[n] \in Stored /\ b.questions[n] \in Stored
    BY <2>3, <2>6, QuestionsAre
  <2>8. /\ a.questions[n].next \in Nat /\ b.questions[n].next \in Nat
        /\ a.questions[n].choices \in Seq(Option)
        /\ \A code \in Codes(a.questions[n].choices) : code < a.questions[n].next
    BY <2>7 DEF Stored, Item
  <2>9. ASSUME NEW code \in Codes(a.questions[n].choices), code \in Codes(c.questions[n].choices)
        PROVE  code \in Codes(b.questions[n].choices)
    <3>1. code \in Nat
      BY <2>8, CodesAre
    <3>2. a.questions[n].next <= b.questions[n].next
      BY <2>3, <2>6 DEF Continues
    <3>3. code < b.questions[n].next
      BY <3>1, <3>2, <2>8
    <3> QED BY <3>3, <2>3, <2>6, <2>9 DEF Continues
  <2>10. n \in DOMAIN b.questions /\ Codes(a.questions[n].choices) \cap Codes(c.questions[n].choices)
                                       \subseteq Codes(b.questions[n].choices)
    BY <2>6, <2>9
  <2> QED BY <2>10 DEF a, b, c
<1> QED BY <1>1, Inductive, PTL

\* Every stored choice or point of a scale, posted or migrated, is valid to the statistics or
\* belongs to an option that was left out on purpose.
THEOREM AnswersAreClassed == Spec => []NoAnswerIsInvalid
<1>1. IInv => NoAnswerIsInvalid
  <2> SUFFICES ASSUME IInv, NEW k \in Tabs, reply[k] # NoReply, NEW n \in DOMAIN reply[k].answers,
                      Questions[n].kind \in ChoiceKinds \union {"scale"}
               PROVE  Classify(Questions[n], AnswerCell(Questions[n], reply[k].answers[n]))
                          \in {"valid", "excluded"}
    BY DEF NoAnswerIsInvalid
  <2>1. n \in DOMAIN Questions /\ Readable(Questions[n], reply[k].answers[n])
    BY DEF IInv, RepliesAreReadable
  <2>2. Questions[n] \in Stored
    BY <2>1, LiveIs, QuestionsAre DEF IInv, Questions
  <2> QED BY <2>1, <2>2, ReadableIsClassed
<1> QED BY <1>1, Inductive, PTL

\* On the website no customer gets a second reply to a survey stored, with any number of forms
\* open and posts judged in any order.
THEOREM RepliesAreSingle == Spec => []OneReplyPerCustomer
<1>1. IInv => OneReplyPerCustomer
  BY DEF IInv
<1> QED BY <1>1, Inductive, PTL

\* Whoever sees the success page has the answers of that very post stored under the form's key,
\* through kills, returns, second posts, and changed preferences and receipts.
THEOREM ThanksAreDue == Spec => []ThankedMeansStored
<1>1. IInv => ThankedMeansStored
  BY DEF IInv, StoredBeforeThanks, Holds, ThankedMeansStored
<1> QED BY <1>1, Inductive, PTL

\* No reply is thanked for by a second mail, and none is sent without a reply.
THEOREM MailsAreSingle == Spec => []OneMailPerReply
<1>1. IInv => OneMailPerReply
  <2> SUFFICES ASSUME IInv, NEW t \in Tabs
               PROVE  mails[t] <= IF reply[t] = NoReply THEN 0 ELSE 1
    BY DEF OneMailPerReply
  <2>1. (reply[t] = NoReply => mails[t] = 0) /\ mails[t] <= 1
    BY DEF IInv, MailsFollowReplies
  <2> QED BY <2>1
<1> QED BY <1>1, Inductive, PTL
=============================================================================
