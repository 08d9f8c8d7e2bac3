--------------------------- MODULE MatchWhereProofs ---------------------------
(***************************************************************************)
(* Proofs about Executor that MATCH with WHERE finds what the rows say:    *)
(* the property index agrees with the rows through every clause, and each  *)
(* way to answer the query reads it right.  The range scan reads the keys  *)
(* that encode_sortable_double writes, whose order comes first.            *)
(***************************************************************************)
EXTENDS ExecutorProofs

-----------------------------------------------------------------------------
(***************************************************************************)
(* The encoding of doubles and the range scan, for every width and every   *)
(* set of values.                                                          *)
(***************************************************************************)

\* Encoding fits into the same width and is undone by decoding: the 8 bytes that
\* encode_sortable_double writes are those decode_sortable_double reads back.
THEOREM EncodingRoundTrip ==
  \A b \in Words :
    /\ encode_sortable_double(b) \in Words
    /\ decode_sortable_double(encode_sortable_double(b)) = b
<1> SUFFICES ASSUME NEW b \in Words
             PROVE  /\ encode_sortable_double(b) \in Words
                    /\ decode_sortable_double(encode_sortable_double(b)) = b
  OBVIOUS
<1>1. CASE b >= Half
  BY <1>1, HalfAssumption DEF Words, encode_sortable_double, decode_sortable_double
<1>2. CASE b < Half
  BY <1>2, HalfAssumption DEF Words, encode_sortable_double, decode_sortable_double
<1> QED BY <1>1, <1>2, HalfAssumption DEF Words

\* ADR-0013: the byte order of encoded doubles is the order of the numbers, for
\* negative numbers too.
THEOREM EncodingKeepsOrder ==
  \A a, b \in Words :
    Number(a) < Number(b) => encode_sortable_double(a) < encode_sortable_double(b)
<1> SUFFICES ASSUME NEW a \in Words, NEW b \in Words, Number(a) < Number(b)
             PROVE  encode_sortable_double(a) < encode_sortable_double(b)
  OBVIOUS
<1>1. CASE a >= Half /\ b >= Half
  BY <1>1, HalfAssumption DEF Words, Number, encode_sortable_double
<1>2. CASE a >= Half /\ b < Half
  BY <1>2, HalfAssumption DEF Words, Number, encode_sortable_double
<1>3. CASE a < Half
  BY <1>3, HalfAssumption DEF Words, Number, encode_sortable_double
<1> QED BY <1>1, <1>2, <1>3, HalfAssumption DEF Words

\* The converse, which is what makes the end points of a range scan sharp: what
\* lies below a threshold in the index is a smaller number.  The one exception is
\* -0.0, which the scan holds to be smaller than 0.0.
THEOREM EncodingReflectsOrder ==
  \A a, b \in Words :
    encode_sortable_double(a) < encode_sortable_double(b) =>
      Number(a) < Number(b) \/ (a = Half /\ b = 0)
<1> SUFFICES ASSUME NEW a \in Words, NEW b \in Words, encode_sortable_double(a) < encode_sortable_double(b)
             PROVE  Number(a) < Number(b) \/ (a = Half /\ b = 0)
  OBVIOUS
<1>1. CASE a >= Half /\ b >= Half
  BY <1>1, HalfAssumption DEF Words, Number, encode_sortable_double
<1>2. CASE a >= Half /\ b < Half
  BY <1>2, HalfAssumption DEF Words, Number, encode_sortable_double
<1>3. CASE a < Half
  BY <1>3, HalfAssumption DEF Words, Number, encode_sortable_double
<1> QED BY <1>1, <1>2, <1>3, HalfAssumption DEF Words

\* The two values are the two zeros, which are one number with two encodings.
Zeros(v, c) == v \in Numbers /\ c \in Numbers /\ {Bits[v], Bits[c]} = {0, Half}

\* A range scan (ADR-0013) takes exactly the keys of the values that satisfy the
\* comparison: no number is missed at an end point, no string is met on the way.
\* It is wrong for the two zeros only.
THEOREM RangeScanExact ==
  \A v, c \in Values, op \in Ranges :
    ~Zeros(v, c) => (InScan(Encode[v], op, c) <=> Satisfies(v, op, c))
<1> SUFFICES ASSUME NEW v \in Values, NEW c \in Values,
                    NEW op \in Ranges, ~Zeros(v, c)
             PROVE  InScan(Encode[v], op, c) <=> Satisfies(v, op, c)
  OBVIOUS
<1>1. CASE v \in Numbers /\ c \in Numbers
  <2> DEFINE x == encode_sortable_double(Bits[v])
             y == encode_sortable_double(Bits[c])
             m == Number(Bits[v])
             n == Number(Bits[c])
  <2>1. Encode[v] = <<1, x>> /\ Encode[c] = <<1, y>>
    BY <1>1, RangeAssumption
       DEF build_prop_index_key, PROP_TYPE_NUMERIC
  <2>2. Bits[v] \in Words /\ Bits[c] \in Words
    BY <1>1, RangeAssumption
  <2>3. x \in 0..(2 * Half - 1) /\ y \in 0..(2 * Half - 1)
    BY <2>2, EncodingRoundTrip DEF Words
  <2>4. m \in Int /\ n \in Int
    BY <2>2, HalfAssumption DEF Words, Number
  <2>5. (m < n => x < y) /\ (n < m => y < x)
    BY <2>2, EncodingKeepsOrder
  <2>6. ~(Bits[v] = Half /\ Bits[c] = 0) /\ ~(Bits[c] = Half /\ Bits[v] = 0)
    BY <1>1 DEF Zeros
  <2>7. (x < y => m < n) /\ (y < x => n < m)
    BY <2>2, <2>6, EncodingReflectsOrder
  <2> HIDE DEF x, y, m, n
  <2>8. InInterval(<<1, x>>, op, <<1, y>>) <=> Compares(op, x, y)
    BY <2>3, HalfAssumption
       DEF InInterval, Compares, Ranges, Before, Bare, PROP_TYPE_NUMERIC, PROP_TYPE_STRING
  <2>9. Compares(op, x, y) <=> Compares(op, m, n)
    BY <2>3, <2>4, <2>5, <2>7, HalfAssumption DEF Compares, Ranges
  <2> QED BY <1>1, <2>1, <2>8, <2>9 DEF InScan, Satisfies, m, n
<1>2. CASE v \notin Numbers /\ c \in Numbers
  <2>1. Encode[v] = <<2, Rank[v]>> /\ Encode[c] = <<1, encode_sortable_double(Bits[c])>>
    BY <1>2, RangeAssumption
       DEF build_prop_index_key, PROP_TYPE_NUMERIC, PROP_TYPE_STRING
  <2>2. Rank[v] \in Nat /\ encode_sortable_double(Bits[c]) \in Int
    BY <1>2, RangeAssumption, EncodingRoundTrip DEF Words
  <2>3. ~InInterval(Encode[v], op, Encode[c])
    BY <2>1, <2>2 DEF InInterval, Before, Bare, PROP_TYPE_NUMERIC, PROP_TYPE_STRING
  <2> QED BY <1>2, <2>3 DEF InScan, Satisfies
<1>3. CASE c \notin Numbers
  <2>1. Encode[c] = <<2, Rank[c]>>
    BY <1>3, RangeAssumption DEF build_prop_index_key, PROP_TYPE_STRING
  <2>2. CASE v \in Numbers
    <3>1. Encode[v] = <<1, encode_sortable_double(Bits[v])>>
      BY <2>2, RangeAssumption DEF build_prop_index_key, PROP_TYPE_NUMERIC
    <3>2. Encode[v][1] = 1
      BY <3>1
    <3> QED BY <1>3, <2>2, <3>2 DEF InScan, Satisfies, PROP_TYPE_STRING
  <2>3. CASE v \notin Numbers
    <3>1. Encode[v] = <<2, Rank[v]>>
      BY <2>3, RangeAssumption DEF build_prop_index_key, PROP_TYPE_STRING
    <3> QED BY <1>3, <2>1, <2>3, <3>1 DEF InScan, Satisfies, PROP_TYPE_STRING
  <2> QED BY <2>2, <2>3
<1> QED BY <1>1, <1>2, <1>3

-----------------------------------------------------------------------------
(***************************************************************************)
(* Lists that have an id once.                                             *)
(***************************************************************************)

\* At most one position of s has x.
Once(s, x) == \A j, k \in DOMAIN s : s[j] = x /\ s[k] = x => j = k

\* An element that only one of two lists has, once.
LEMMA ConcatOnce ==
  ASSUME NEW X, NEW s \in Seq(X), NEW t \in Seq(X), NEW x, Once(s, x), Once(t, x),
         x \notin ToSet(s) \/ x \notin ToSet(t)
  PROVE  /\ Once(s \o t, x)
         /\ x \in ToSet(s \o t) => x \in ToSet(s) \/ x \in ToSet(t)
<1>. DEFINE m == Len(s)
            n == Len(t)
            u == s \o t
<1>1. m \in Nat /\ n \in Nat /\ DOMAIN s = 1..m /\ DOMAIN t = 1..n /\ DOMAIN u = 1..(m + n)
  OBVIOUS
<1>2. ASSUME NEW k \in 1..(m + n)
      PROVE  \/ k \in 1..m /\ u[k] = s[k]
             \/ k - m \in 1..n /\ u[k] = t[k - m]
  OBVIOUS
<1>3. \A k \in 1..m : s[k] \in ToSet(s)  BY <1>1 DEF ToSet
<1>4. \A k \in 1..n : t[k] \in ToSet(t)  BY <1>1 DEF ToSet
<1>. HIDE DEF m, n, u
<1>5. ASSUME NEW j \in 1..(m + n), NEW k \in 1..(m + n), u[j] = x, u[k] = x PROVE j = k
  <2>1. CASE j \in 1..m /\ u[j] = s[j]
    <3>1. x \notin ToSet(t)  BY <1>3, <1>5, <2>1
    <3>2. ~(k - m \in 1..n /\ u[k] = t[k - m])  BY <1>4, <1>5, <3>1
    <3>3. k \in 1..m /\ u[k] = s[k]  BY <1>2, <3>2
    <3>. QED  BY <1>1, <1>5, <2>1, <3>3 DEF Once
  <2>2. CASE j - m \in 1..n /\ u[j] = t[j - m]
    <3>1. x \notin ToSet(s)  BY <1>4, <1>5, <2>2
    <3>2. ~(k \in 1..m /\ u[k] = s[k])  BY <1>3, <1>5, <3>1
    <3>3. k - m \in 1..n /\ u[k] = t[k - m]  BY <1>2, <3>2
    <3>4. j - m = k - m  BY <1>1, <1>5, <2>2, <3>3 DEF Once
    <3>. QED  BY <1>1, <3>4
  <2>. QED  BY <1>2, <2>1, <2>2
<1>6. Once(u, x)  BY <1>1, <1>5 DEF Once
<1>7. ASSUME x \in ToSet(u) PROVE x \in ToSet(s) \/ x \in ToSet(t)
  <2>1. PICK k \in 1..(m + n) : u[k] = x  BY <1>1, <1>7 DEF ToSet
  <2>. QED  BY <1>2, <1>3, <1>4, <2>1
<1>. QED  BY <1>6, <1>7 DEF u

\* An element that only one of many lists has, once.
LEMMA FlattenOnce ==
  ASSUME NEW X, NEW n \in Nat, NEW seqs \in [1..n -> Seq(X)], NEW x,
         \A k \in 1..n : Once(seqs[k], x),
         \A j, k \in 1..n : x \in ToSet(seqs[j]) /\ x \in ToSet(seqs[k]) => j = k
  PROVE  Once(FlattenSeq(seqs), x)
<1>0. PICK f \in [0..n -> Seq(X)] : Appended(f, n, seqs)
  BY FlattenFold
<1>1. f[0] = <<>> /\ (\A k \in 1..n : f[k] = f[k - 1] \o seqs[k]) /\ FlattenSeq(seqs) = f[n]
  BY <1>0 DEF Appended
<1>. DEFINE Has(m) == x \in ToSet(f[m]) => \E j \in 1..m : x \in ToSet(seqs[j])
            T == {m \in 0..n : Once(f[m], x) /\ Has(m)}
<1>2. ASSUME NEW m \in 1..n, m - 1 \in T PROVE m \in T
  <2>1. f[m] = f[m - 1] \o seqs[m]  BY <1>1
  <2>2. f[m - 1] \in Seq(X) /\ seqs[m] \in Seq(X)  OBVIOUS
  <2>3. Once(f[m - 1], x) /\ Has(m - 1)  BY <1>2
  <2>4. x \in ToSet(f[m - 1]) => x \notin ToSet(seqs[m])
    <3>. SUFFICES ASSUME x \in ToSet(f[m - 1]), x \in ToSet(seqs[m]) PROVE FALSE
      OBVIOUS
    <3>1. PICK j \in 1..(m - 1) : x \in ToSet(seqs[j])  BY <2>3
    <3>2. j \in 1..n /\ j # m  OBVIOUS
    <3>. QED  BY <3>1, <3>2
  <2>5. Once(f[m], x) /\ (x \in ToSet(f[m]) => x \in ToSet(f[m - 1]) \/ x \in ToSet(seqs[m]))
    BY <2>1, <2>2, <2>3, <2>4, ConcatOnce
  <2>6. Has(m)
    <3>1. x \in ToSet(f[m - 1]) => \E j \in 1..m : x \in ToSet(seqs[j])
      <4>1. \A j \in 1..(m - 1) : j \in 1..m  OBVIOUS
      <4>. QED  BY <2>3, <4>1
    <3>2. m \in 1..m  OBVIOUS
    <3>. QED  BY <2>5, <3>1, <3>2
  <2>. QED  BY <2>5, <2>6
<1>3. 0 \in T
  <2>1. DOMAIN f[0] = {}  BY <1>1
  <2>. QED  BY <2>1 DEF Once, ToSet
<1>4. T \in SUBSET (0..n)  OBVIOUS
<1>5. T = 0..n
  <2>. HIDE DEF T
  <2>. QED  BY ONLY <1>2, <1>3, <1>4, StepInduction, n \in Nat
<1>6. n \in 0..n  OBVIOUS
<1>. QED  BY <1>1, <1>5, <1>6

\* An id that a multiset has once is once in its list.
LEMMA SortedOnce ==
  ASSUME NEW bag \in [Ids -> Nat], NEW i, i \in Ids => bag[i] <= 1
  PROVE  Once(Sorted(bag), i)
<1>. DEFINE seqs == [j \in Ids |-> [k \in 1..bag[j] |-> j]]
<1>1. MaxId \in Nat /\ Ids = 1..MaxId  BY ConstantsAssumption DEF Ids
<1>2. ASSUME NEW j \in Ids
      PROVE  seqs[j] \in Seq(Ids) /\ Once(seqs[j], i) /\ (i \in ToSet(seqs[j]) => i = j)
  <2>1. bag[j] \in Nat /\ seqs[j] = [k \in 1..bag[j] |-> j]  OBVIOUS
  <2>. HIDE DEF seqs
  <2>2. seqs[j] \in Seq(Ids)  BY <2>1
  <2>3. DOMAIN seqs[j] = 1..bag[j] /\ \A k \in 1..bag[j] : seqs[j][k] = j  BY <2>1
  <2>4. i \in ToSet(seqs[j]) => i = j  BY <2>3 DEF ToSet
  <2>5. Once(seqs[j], i)
    <3>1. \A a, b \in 1..bag[j] : bag[j] <= 1 => a = b  BY <2>1
    <3>. QED  BY <2>3, <3>1 DEF Once
  <2>. QED  BY <2>2, <2>4, <2>5
<1>3. seqs \in [1..MaxId -> Seq(Ids)]  BY <1>1, <1>2
<1>4. Sorted(bag) = FlattenSeq(seqs)  BY DEF Sorted
<1>. HIDE DEF seqs
<1>5. Once(FlattenSeq(seqs), i)  BY <1>1, <1>2, <1>3, FlattenOnce
<1>. QED  BY <1>4, <1>5

\* A set has each id once.
LEMMA SequenceOnce ==
  ASSUME NEW S \in SUBSET Ids, NEW i
  PROVE  Once(ToSequence(S), i)
<1>. DEFINE bag == [j \in Ids |-> IF j \in S THEN 1 ELSE 0]
<1>1. bag \in [Ids -> Nat] /\ \A j \in Ids : bag[j] <= 1  OBVIOUS
<1>2. ToSequence(S) = Sorted(bag)  BY DEF ToSequence
<1>. HIDE DEF bag
<1>. QED  BY <1>1, <1>2, SortedOnce

\* And so in whatever order an index look-up returns it.
LEMMA OrdersOnce ==
  ASSUME NEW bag \in [Ids -> Nat], NEW ids \in Orders(bag), NEW i \in Ids, bag[i] <= 1
  PROVE  Once(ids, i)
<1>1. CASE \A j \in Ids : bag[j] = 0
  <2>1. ids = <<>>  BY <1>1 DEF Orders
  <2>2. DOMAIN ids = {}  BY <2>1
  <2>. QED  BY <2>2 DEF Once
<1>2. CASE ~ \A j \in Ids : bag[j] = 0
  <2>1. PICK j \in Ids : bag[j] > 0 /\ ids = <<j>> \o Sorted([bag EXCEPT ![j] = @ - 1])
    BY <1>2 DEF Orders
  <2>. DEFINE less == [bag EXCEPT ![j] = @ - 1]
  <2>2. /\ less \in [Ids -> Nat] /\ less[i] <= 1
        /\ i = j => less[i] = 0
    BY <2>1
  <2>3. ids = <<j>> \o Sorted(less)  BY <2>1
  <2>. HIDE DEF less
  <2>4. Once(Sorted(less), i)  BY <2>2, SortedOnce
  <2>5. Sorted(less) \in Seq({x \in Ids : less[x] > 0}) /\ ToSet(Sorted(less)) = {x \in Ids : less[x] > 0}
    BY <2>2, SortedRange
  <2>6. Sorted(less) \in Seq(Ids) /\ <<j>> \in Seq(Ids)
    <3>1. {x \in Ids : less[x] > 0} \subseteq Ids  OBVIOUS
    <3>. QED  BY <2>5, <3>1, SeqMonotone
  <2>7. Once(<<j>>, i) /\ (i \in ToSet(<<j>>) => i = j)
    <3>1. DOMAIN <<j>> = {1} /\ <<j>>[1] = j  OBVIOUS
    <3>. QED  BY <3>1 DEF Once, ToSet
  <2>8. i \in ToSet(<<j>>) => i \notin ToSet(Sorted(less))  BY <2>2, <2>5, <2>7
  <2>. QED  BY <2>3, <2>4, <2>6, <2>7, <2>8, ConcatOnce
<1>. QED  BY <1>1, <1>2

\* The elements of a list that are in P, in the order of the list.
Chosen(ids, P) == FlattenSeq([k \in DOMAIN ids |-> IF ids[k] \in P THEN <<ids[k]>> ELSE <<>>])

\* Filtering a list.
LEMMA ChosenExact ==
  ASSUME NEW A, NEW ids \in Seq(A), NEW P
  PROVE  /\ ToSet(Chosen(ids, P)) = ToSet(ids) \cap P
         /\ \A x : Once(ids, x) => Once(Chosen(ids, P), x)
<1>. DEFINE n == Len(ids)
            X == A \cap P
            seqs == [k \in DOMAIN ids |-> IF ids[k] \in P THEN <<ids[k]>> ELSE <<>>]
<1>1. n \in Nat /\ DOMAIN ids = 1..n /\ \A k \in 1..n : ids[k] \in A  OBVIOUS
<1>2. \A y \in X : <<y>> \in Seq(X) /\ DOMAIN <<y>> = {1} /\ <<y>>[1] = y  OBVIOUS
<1>3. DOMAIN <<>> = {} /\ <<>> \in Seq(X)  OBVIOUS
<1>. HIDE DEF n
<1>4. ASSUME NEW k \in 1..n
      PROVE  /\ seqs[k] \in Seq(X)
             /\ ToSet(seqs[k]) = {ids[k]} \cap P
             /\ \A x : Once(seqs[k], x)
  <2>1. CASE ids[k] \in P
    <3>1. seqs[k] = <<ids[k]>> /\ ids[k] \in X  BY <1>1, <2>1
    <3>. HIDE DEF X, seqs
    <3>2. seqs[k] \in Seq(X) /\ DOMAIN seqs[k] = {1} /\ seqs[k][1] = ids[k]  BY <1>2, <3>1
    <3>. QED  BY <2>1, <3>2 DEF ToSet, Once
  <2>2. CASE ids[k] \notin P
    <3>1. seqs[k] = <<>>  BY <1>1, <2>2
    <3>. HIDE DEF X, seqs
    <3>. QED  BY <1>3, <2>2, <3>1 DEF ToSet, Once
  <2>. QED  BY <2>1, <2>2
<1>5. Chosen(ids, P) = FlattenSeq(seqs)  BY DEF Chosen
<1>6. seqs \in [1..n -> Seq(X)]
  <2>1. seqs = [k \in 1..n |-> IF ids[k] \in P THEN <<ids[k]>> ELSE <<>>]  BY <1>1
  <2>2. \A k \in 1..n : seqs[k] \in Seq(X)  BY <1>4
  <2>3. DOMAIN seqs = 1..n  BY <2>1
  <2>. HIDE DEF X
  <2>. QED  BY <2>1, <2>2, <2>3
<1>. HIDE DEF seqs, X
<1>7. FlattenSeq(seqs) \in Seq(X) /\ \A k \in 1..n : ToSet(seqs[k]) \subseteq ToSet(FlattenSeq(seqs))
  BY <1>1, <1>6, FlattenRange
<1>8. ToSet(ids) \cap P \subseteq ToSet(FlattenSeq(seqs))
  BY <1>1, <1>4, <1>7 DEF ToSet
<1>9. ToSet(FlattenSeq(seqs)) \subseteq ToSet(ids) \cap P
  <2>. DEFINE Y == ToSet(ids) \cap P
  <2>1. \A k \in 1..n : ToSet(seqs[k]) \subseteq Y  BY <1>1, <1>4 DEF ToSet
  <2>. SUFFICES ASSUME NEW x, x \in ToSet(FlattenSeq(seqs)), x \notin Y PROVE FALSE
    OBVIOUS
  <2>2. \A k \in 1..n : seqs[k] \in Seq(Y)
    <3>. TAKE k \in 1..n
    <3>1. seqs[k] \in Seq(X) /\ ToSet(seqs[k]) \subseteq Y  BY <1>4, <2>1
    <3>. HIDE DEF Y
    <3>. QED  BY <3>1 DEF ToSet
  <2>. HIDE DEF Y
  <2>3. seqs \in [1..n -> Seq(Y)]  BY <1>6, <2>2
  <2>4. FlattenSeq(seqs) \in Seq(Y)  BY <1>1, <2>3, FlattenRange
  <2>. QED  BY <2>4 DEF ToSet
<1>10. ASSUME NEW x, Once(ids, x) PROVE Once(FlattenSeq(seqs), x)
  <2>1. \A j, k \in 1..n : x \in ToSet(seqs[j]) /\ x \in ToSet(seqs[k]) => j = k
    BY <1>1, <1>4, <1>10 DEF Once
  <2>2. \A k \in 1..n : Once(seqs[k], x)  BY <1>4
  <2>. QED  BY <1>1, <1>6, <2>1, <2>2, FlattenOnce
<1>. QED  BY <1>5, <1>8, <1>9, <1>10

\* How often a list has an id that it has once.
LEMMA CountOnce ==
  ASSUME NEW X \in SUBSET Ids, NEW list \in Seq(X), NEW i \in Ids, Once(list, i)
  PROVE  Count(list)[i] = IF i \in ToSet(list) THEN 1 ELSE 0
<1>. DEFINE places == {k \in DOMAIN list : list[k] = i}
<1>1. Count(list)[i] = Cardinality(places)  BY DEF Count
<1>2. CASE i \in ToSet(list)
  <2>1. PICK k \in DOMAIN list : list[k] = i  BY <1>2 DEF ToSet
  <2>2. places = {k}  BY <2>1 DEF Once
  <2>3. Cardinality({k}) = 1  BY FS_Singleton
  <2>. QED  BY <1>1, <1>2, <2>2, <2>3
<1>3. CASE i \notin ToSet(list)
  <2>1. places = {}  BY <1>3 DEF ToSet
  <2>. QED  BY <1>1, <1>3, <2>1, FS_EmptySet
<1>. QED  BY <1>2, <1>3

-----------------------------------------------------------------------------
(***************************************************************************)
(* The property index agrees with the rows through every clause, whatever  *)
(* label context_labels_ has left for a SET.                               *)
(***************************************************************************)

\* A pending record is written, under any label or none.
LEMMA WrittenIndex ==
  ASSUME NEW d \in Tables, IndexInvOf(d), NEW i \in Ids, NEW p \in Pendings,
         LiveNode(d, i) <=> p.value \in PropMaps
  PROVE  IndexInvOf(Written(d, i, p))
<1>0. p.label \in Labels \cup {NoLabel} /\ p.value \in PropMaps \cup {Tombstone}  BY DEF Pendings
<1>1. CASE p.label = NoLabel
  <2>1. Written(d, i, p) = UpdateNodeRow(d, i, p.value)  BY <1>1 DEF Written
  <2>. QED  BY <1>0, <2>1, UpdateNodeIndex
<1>2. CASE p.label # NoLabel
  <2>1. Written(d, i, p) = UpdateNodeWithLabelRow(d, i, p.label, p.value)  BY <1>2 DEF Written
  <2>. QED  BY <1>0, <1>2, <2>1, UpdateNodeWithLabelIndex
<1>. QED  BY <1>1, <1>2

\* The index follows what is written.
LEMMA WritesIndex ==
  ASSUME NEW n \in Nat, n <= MaxId + 1, Sound(view, n), IndexInvOf(view), NEW pending \in PendingMaps,
         NEW A \in SUBSET (1..(n - 1)), \A i \in A : LiveNode(view, i) => pending[i].value # Tombstone,
         NEW ids \in Seq(A)
  PROVE  IndexInvOf(FoldLeft(LAMBDA d, i : Written(d, i, pending[i]), view, ids))
<1>. DEFINE m == Len(ids)
            S == {c \in Settings(view, n, pending) : IndexInvOf(c)}
<1>1. m \in Nat /\ DOMAIN ids = 1..m /\ \A k \in 1..m : ids[k] \in A
  OBVIOUS
<1>1a. \A i \in A : i \in Ids /\ ~(i >= n)  BY ConstantsAssumption DEF Ids
<1>. HIDE DEF m
<1>2. ASSUME NEW k \in 1..m, NEW e \in S PROVE Written(e, ids[k], pending[ids[k]]) \in S
  <2>. DEFINE i == ids[k]
              c == Written(e, i, pending[i])
  <2>0. i \in Ids /\ ~(i >= n) /\ i \in A  BY <1>1, <1>1a
  <2>. HIDE DEF i
  <2>1. /\ e \in Tables /\ Sound(e, n) /\ e.edges = view.edges
        /\ \A j \in Ids : e.nodes[j] = view.nodes[j] \/ (~(j >= n) /\ e.nodes[j] = pending[j].value)
        /\ e.nodes \in [Ids -> PropMaps \cup {Absent, Tombstone}]
        /\ IndexInvOf(e)
    BY DEF Settings, Tables
  <2>2. pending[i] \in Pendings /\ (pending[i].value \in PropMaps => LiveNode(view, i))
    BY <2>0 DEF PendingMaps
  <2>2a. pending[i].value \in PropMaps \cup {Tombstone}  BY <2>2 DEF Pendings
  <2>3. pending[i].value \in PropMaps <=> LiveNode(view, i)
    BY <2>0, <2>2, <2>2a
  <2>3a. LiveNode(e, i) <=> pending[i].value \in PropMaps
    BY <2>0, <2>1, <2>3 DEF LiveNode
  <2>4. Sound(c, n)  BY <2>0, <2>1, <2>2, <2>3a, WrittenSound
  <2>5. /\ c \in Tables /\ c.nodes = [e.nodes EXCEPT ![i] = pending[i].value] /\ c.edges = e.edges
    BY <2>0, <2>1, <2>2, WrittenWrites
  <2>6. IndexInvOf(c)  BY <2>0, <2>1, <2>2, <2>3a, WrittenIndex
  <2>. HIDE DEF c
  <2>7. c \in S  BY <2>0, <2>1, <2>4, <2>5, <2>6 DEF Settings
  <2>. QED  BY <2>7 DEF c, i
<1>3. \A k \in 1..m : \A e \in S : Written(e, ids[k], pending[ids[k]]) \in S  BY <1>2
<1>4. view \in S  BY DEF Settings, Sound
<1>. HIDE DEF S
<1>5. \E f \in [0..m -> S] : WriteSteps(f, m, ids, pending, view)
  BY ONLY <1>1, <1>3, <1>4, WriteFold
<1>6. PICK f \in [0..m -> S] : WriteSteps(f, m, ids, pending, view)  BY <1>5
<1>7. FoldLeft(LAMBDA d, i : Written(d, i, pending[i]), view, ids) = f[m]  BY <1>6, Zenon DEF WriteSteps
<1>8. f[m] \in S  BY <1>1
<1>9. IndexInvOf(f[m])  BY <1>8 DEF S
<1>. QED  BY <1>7, <1>9, Zenon

\* What CREATE works on, with the index.
Filing(d, n) == {e \in Creating(d, n) : e.id <= MaxId + 1 => IndexInvOf(e.tables)}

\* A node pattern.
LEMMA NodeForFiled ==
  ASSUME NEW d, NEW n \in Nat, n >= 1, NEW env \in Filing(d, n), NEW p \in NodePatterns, Evaluable(p.props)
  PROVE  NodeFor(env, p) \in Filing(d, n)
<1>0. /\ env.id \in Nat /\ n <= env.id /\ Sound(env.tables, env.id) /\ env.tables \in Tables
      /\ env \in Creating(d, n) /\ p.label \in Labels \cup {NoLabel}
      /\ env = [tables |-> env.tables, id |-> env.id, context |-> env.context, node |-> env.node]
  BY DEF Filing, Creating, NodePatterns
<1>. DEFINE b == NodeFor(env, p)
<1>1. b \in Creating(d, n)  BY <1>0, NodeForType
<1>2. CASE Holds(env.context, p.var)
  <2>1. b = [tables |-> env.tables, id |-> env.id, context |-> env.context, node |-> env.context[p.var][1]]
    BY <1>0, <1>2 DEF NodeFor
  <2>. QED  BY <1>0, <1>1, <2>1 DEF Filing
<1>3. CASE ~Holds(env.context, p.var)
  <2>. DEFINE t == IF env.id \in Ids THEN CreateNodeRow(env.tables, env.id, p.label, Evaluated(p.props))
                   ELSE env.tables
              ctx == Bind(env.context, p.var, <<env.id>>)
  <2>1. b = [tables |-> t, id |-> env.id + 1, context |-> ctx, node |-> env.id]
    BY <1>3 DEF NodeFor
  <2>2. ASSUME env.id + 1 <= MaxId + 1 PROVE IndexInvOf(t)
    <3>1. env.id \in Ids /\ env.id <= MaxId + 1  BY <1>0, <2>2, ConstantsAssumption DEF Ids
    <3>2. Evaluated(p.props) \in PropMaps  BY EvaluatedType
    <3>3. IndexInvOf(env.tables)  BY <3>1 DEF Filing
    <3>4. t = CreateNodeRow(env.tables, env.id, p.label, Evaluated(p.props))  BY <3>1
    <3>5. env.tables.nodes[env.id] = Absent
      <4>1. env.id >= env.id  BY <1>0
      <4>. QED  BY <1>0, <3>1, <4>1 DEF Sound, Rows
    <3>. HIDE DEF t
    <3>. QED  BY <1>0, <3>1, <3>2, <3>3, <3>4, <3>5, CreateNodeIndex
  <2>. HIDE DEF t, ctx
  <2>. QED  BY <1>1, <2>1, <2>2 DEF Filing
<1>. QED  BY <1>2, <1>3

\* A relationship pattern.
LEMMA EdgeForFiled ==
  ASSUME NEW d, NEW n \in Nat, n >= 1, NEW env \in Filing(d, n), NEW r \in RelPatterns(Types),
         NEW a \in 1..(env.id - 1), NEW b \in 1..(env.id - 1)
  PROVE  EdgeFor(env, r, a, b) \in Filing(d, n)
<1>0. /\ env.id \in Nat /\ n <= env.id /\ env.tables \in Tables /\ env \in Creating(d, n) /\ r.type \in Types
      /\ env = [tables |-> env.tables, id |-> env.id, context |-> env.context, node |-> env.node]
  BY DEF Filing, Creating, RelPatterns
<1>. DEFINE c == EdgeFor(env, r, a, b)
            from == IF r.dir = "<-" THEN b ELSE a
            to == IF r.dir = "<-" THEN a ELSE b
            t == IF env.id \in Ids THEN CreateEdgeRow(env.tables, env.id, from, to, r.type) ELSE env.tables
            ctx == Bind(env.context, r.var, <<env.id>>)
<1>1. c \in Creating(d, n)  BY <1>0, EdgeForType
<1>2. c.tables = t /\ c.id = env.id + 1
  <2>1. c = [env EXCEPT !.tables = t, !.id = env.id + 1, !.context = ctx]
    BY DEF EdgeFor
  <2>. HIDE DEF t, ctx, c
  <2>. QED  BY <1>0, <2>1
<1>3. from \in 1..(env.id - 1) /\ to \in 1..(env.id - 1)  OBVIOUS
<1>4. ASSUME env.id + 1 <= MaxId + 1 PROVE IndexInvOf(t)
  <2>1. env.id \in Ids /\ env.id <= MaxId + 1  BY <1>0, <1>4, ConstantsAssumption DEF Ids
  <2>2. from \in Ids /\ to \in Ids  BY <1>3, <2>1, ConstantsAssumption DEF Ids
  <2>3. IndexInvOf(env.tables)  BY <2>1 DEF Filing
  <2>4. t = CreateEdgeRow(env.tables, env.id, from, to, r.type)  BY <2>1
  <2>. HIDE DEF from, to, t
  <2>. QED  BY <1>0, <2>1, <2>2, <2>3, <2>4, EdgeOperationsIndex
<1>. HIDE DEF t, ctx, c
<1>5. c \in Filing(d, n)  BY <1>1, <1>2, <1>4 DEF Filing
<1>. QED  BY <1>5 DEF c

\* An element of a path.
LEMMA CreateElementFiled ==
  ASSUME NEW d, NEW n \in Nat, n >= 1, NEW env \in Filing(d, n), NEW path, Creatable(path),
         NEW R, Kinded(path, R), NEW i \in 1..Len(path.nodes)
  PROVE  CreateElement(env, path, i) \in Filing(d, n)
<1>. DEFINE p == path.nodes[i]
            q == path.nodes[i + 1]
            r == path.rels[i]
            a == NodeFor(env, p)
            b == NodeFor(a, q)
            c == EdgeFor(b, r, a.node, b.node)
<1>0. /\ Len(path.rels) \in Nat /\ Len(path.nodes) = Len(path.rels) + 1
      /\ DOMAIN path.nodes = 1..Len(path.nodes) /\ DOMAIN path.rels = 1..Len(path.rels)
      /\ p \in NodePatterns /\ Evaluable(p.props)
      /\ env \in Creating(d, n) /\ env.id \in Nat
  BY PathParts DEF Filing, Creating
<1>1. a \in Filing(d, n) /\ a \in Creating(d, n) /\ a.node \in 1..(a.id - 1) /\ a.id \in Nat
  BY <1>0, NodeForFiled, NodeForType DEF Creating
<1>2. CASE i > Len(path.rels)
  <2>1. CreateElement(env, path, i) = a  BY <1>2 DEF CreateElement
  <2>. HIDE DEF a
  <2>. QED  BY <1>1, <2>1
<1>3. CASE ~(i > Len(path.rels))
  <2>1. i + 1 \in 1..Len(path.nodes) /\ i \in 1..Len(path.rels)  BY <1>0, <1>3
  <2>2. q \in NodePatterns /\ Evaluable(q.props) /\ r \in RelPatterns(Types)
    BY <2>1, PathParts
  <2>3. CreateElement(env, path, i) = c  BY <1>3 DEF CreateElement
  <2>. HIDE DEF p, q, r
  <2>. HIDE DEF a
  <2>4. /\ b \in Filing(d, n) /\ b.node \in 1..(b.id - 1) /\ b.id \in Nat /\ a.id <= b.id
    BY <1>1, <2>2, NodeForFiled, NodeForType DEF Filing, Creating
  <2>. HIDE DEF b
  <2>5. a.node \in 1..(b.id - 1)  BY <1>1, <2>4
  <2>6. c \in Filing(d, n)  BY <2>2, <2>4, <2>5, EdgeForFiled
  <2>. QED  BY <2>3, <2>6
<1>. QED  BY <1>2, <1>3

\* A path.
LEMMA CreatePathFiled ==
  ASSUME NEW d, NEW n \in Nat, n >= 1, NEW env \in Filing(d, n), NEW path, Creatable(path),
         NEW R, Kinded(path, R)
  PROVE  CreatePath(env, path) \in Filing(d, n)
<1>. DEFINE F == Filing(d, n)
            m == Len(path.nodes)
<1>1. m \in Nat /\ DOMAIN path.nodes = 1..m
  BY PathParts
<1>2. \A k \in 1..m : \A e \in F : CreateElement(e, path, k) \in F  BY CreateElementFiled
<1>3. env \in F  OBVIOUS
<1>. HIDE DEF F, m
<1>4. \E f \in [0..m -> F] : CreatePathSteps(f, m, path, env)
  BY ONLY <1>1, <1>2, <1>3, CreatePathFold
<1>5. PICK f \in [0..m -> F] : CreatePathSteps(f, m, path, env)  BY <1>4
<1>6. CreatePath(env, path) = f[m] /\ f[m] \in F
  BY <1>1, <1>5 DEF CreatePathSteps
<1>. QED  BY <1>6 DEF F

\* All paths.
LEMMA CreatePathsFiled ==
  ASSUME NEW d, NEW n \in Nat, n >= 1, NEW env \in Filing(d, n), NEW R, NEW paths \in Seq(Paths(Types)),
         \A k \in DOMAIN paths : Creatable(paths[k]) /\ Kinded(paths[k], R)
  PROVE  FoldLeft(CreatePath, env, paths) \in Filing(d, n)
<1>. DEFINE F == Filing(d, n)
            m == Len(paths)
<1>1. m \in Nat /\ DOMAIN paths = 1..m  OBVIOUS
<1>2. \A k \in 1..m : \A e \in F : CreatePath(e, paths[k]) \in F  BY CreatePathFiled
<1>3. env \in F  OBVIOUS
<1>. HIDE DEF F, m
<1>4. \E f \in [0..m -> F] : CreatePathsSteps(f, m, paths, env)
  BY ONLY <1>1, <1>2, <1>3, CreatePathsFold
<1>5. PICK f \in [0..m -> F] : CreatePathsSteps(f, m, paths, env)  BY <1>4
<1>6. FoldLeft(CreatePath, env, paths) = f[m] /\ f[m] \in F
  BY <1>1, <1>5 DEF CreatePathsSteps
<1>. QED  BY <1>6 DEF F

\* The ids of one variable of DELETE.
LEMMA DeleteIdsIndex ==
  ASSUME NEW c \in Tables, IndexInvOf(c), NEW ids \in Seq(Ids), NEW detach \in BOOLEAN
  PROVE  IndexInvOf(FoldLeft(LAMBDA t, i : DeleteTarget(t, i, detach), c, ids))
<1>. DEFINE S == {b \in Tables : IndexInvOf(b)}
            m == Len(ids)
<1>1. m \in Nat /\ DOMAIN ids = 1..m /\ \A k \in 1..m : ids[k] \in Ids
  OBVIOUS
<1>2. \A k \in 1..m : \A e \in S : DeleteTarget(e, ids[k], detach) \in S
  BY <1>1, DeleteTargetType, DeleteTargetIndex
<1>3. c \in S  OBVIOUS
<1>. HIDE DEF S, m
<1>4. \E f \in [0..m -> S] : DeleteIdsSteps(f, m, ids, detach, c)
  BY ONLY <1>1, <1>2, <1>3, DeleteIdsFold
<1>5. PICK f \in [0..m -> S] : DeleteIdsSteps(f, m, ids, detach, c)  BY <1>4
<1>6. FoldLeft(LAMBDA t, i : DeleteTarget(t, i, detach), c, ids) = f[m]  BY <1>5, Zenon DEF DeleteIdsSteps
<1>7. f[m] \in S  BY <1>1
<1>8. IndexInvOf(f[m])  BY <1>7 DEF S
<1>. QED  BY <1>6, <1>8, Zenon

\* What DELETE works on, with the index.
Unfiling(d, ctx, n) == {e \in Deletings(d, ctx, n) : IndexInvOf(e.tables)}

\* One variable of DELETE.
LEMMA DeleteVariableFiled ==
  ASSUME NEW d, NEW ctx, NEW n \in Nat, n <= MaxId + 1, NEW env \in Unfiling(d, ctx, n),
         NEW v \in Vars, NEW detach \in BOOLEAN
  PROVE  DeleteVariable(env, v, detach) \in Unfiling(d, ctx, n)
<1>0. /\ env \in Deletings(d, ctx, n) /\ IndexInvOf(env.tables)
      /\ env.tables \in Tables /\ env.context \in Contexts(n)
  BY DEF Unfiling, Deletings
<1>a. DeleteVariable(env, v, detach) \in Deletings(d, ctx, n)  BY <1>0, DeleteVariableType
<1>1. CASE env.context[v] = Unbound
  <2>1. DeleteVariable(env, v, detach) = env  BY <1>1 DEF DeleteVariable
  <2>. QED  BY <2>1
<1>2. CASE env.context[v] # Unbound
  <2>. DEFINE b == FoldLeft(LAMBDA t, i : DeleteTarget(t, i, detach), env.tables, env.context[v])
              x == [env.context EXCEPT ![v] = Unbound]
  <2>1. DeleteVariable(env, v, detach) = [tables |-> b, context |-> x]
    BY <1>2, Zenon DEF DeleteVariable
  <2>2. env.context[v] \in Seq(Ids)
    <3>1. env.context[v] \in Seq(1..(n - 1))  BY <1>0, <1>2 DEF Contexts
    <3>2. 1..(n - 1) \subseteq Ids  BY ConstantsAssumption DEF Ids
    <3>. QED  BY <3>1, <3>2, SeqMonotone
  <2>3. IndexInvOf(b)  BY <1>0, <2>2, DeleteIdsIndex, Zenon
  <2>. HIDE DEF b, x
  <2>. QED  BY <1>a, <2>1, <2>3 DEF Unfiling
<1>. QED  BY <1>1, <1>2

\* DELETE.
LEMMA DeleteVariablesFiled ==
  ASSUME NEW n \in Nat, n <= MaxId + 1, NEW d, Sound(d, n), IndexInvOf(d), NEW ctx \in Contexts(n),
         NEW vs \in Seq(Vars), NEW detach \in BOOLEAN
  PROVE  FoldLeft(LAMBDA e, v : DeleteVariable(e, v, detach), [tables |-> d, context |-> ctx], vs)
           \in Unfiling(d, ctx, n)
<1>. DEFINE S == Unfiling(d, ctx, n)
            m == Len(vs)
            env == [tables |-> d, context |-> ctx]
<1>1. m \in Nat /\ DOMAIN vs = 1..m /\ \A k \in 1..m : vs[k] \in Vars  OBVIOUS
<1>2. \A k \in 1..m : \A e \in S : DeleteVariable(e, vs[k], detach) \in S  BY <1>1, DeleteVariableFiled
<1>3. env \in S
  <2>1. Emptied(d, d)  BY DEF Emptied
  <2>2. d \in Tables  BY DEF Sound
  <2>. QED  BY <2>1, <2>2 DEF Deletings, Unfiling
<1>. HIDE DEF S, m, env
<1>4. \E f \in [0..m -> S] : DeleteVariablesSteps(f, m, vs, detach, env)
  BY ONLY <1>1, <1>2, <1>3, DeleteVariablesFold
<1>5. PICK f \in [0..m -> S] : DeleteVariablesSteps(f, m, vs, detach, env)  BY <1>4
<1>6. FoldLeft(LAMBDA e, v : DeleteVariable(e, v, detach), env, vs) = f[m]
  BY <1>5, Zenon DEF DeleteVariablesSteps
<1>7. f[m] \in S  BY <1>1
<1>. QED  BY <1>6, <1>7, Zenon DEF S, env

\* Inductive with IInv, of statements of one kind.
LInv == IndexInvOf(db) /\ IndexInvOf(view)

\* The tables of the empty database.
LEMMA EmptyIndex == IndexInvOf(EmptyTables)
<1>1. \A i \in Ids, l \in Labels, k \in Keys, c \in Codes :
        Occurrences(EmptyTables.property_index, l, k, c, i) = 0
  BY DEF EmptyTables, Occurrences
<1>2. \A i \in Ids : EmptyTables.nodes[i] = Absent /\ \A l \in Labels : i \notin EmptyTables.label_index[l]
  BY DEF EmptyTables
<1>3. Labelled(EmptyTables)  BY <1>2 DEF Labelled
<1>4. Packed(EmptyTables)
  <2>1. \A i \in Ids : ~LiveNode(EmptyTables, i)  BY <1>2, ConstantsAssumption DEF LiveNode
  <2>. QED  BY <1>1, <2>1 DEF Packed
<1>. QED  BY <1>3, <1>4 DEF IndexInvOf

\* CREATE.
LEMMA CreateIndexes ==
  ASSUME OneKind, IInv, LInv, Create PROVE LInv'
<1>. DEFINE env == [tables |-> view, id |-> next_id, context |-> context, node |-> 0]
            R == RelVars(stmt)
<1>1. /\ At("create") /\ Created.id <= MaxId + 1 /\ db' = db /\ view' = Created.tables
  BY DEF Create, Advance
<1>2. Clause.paths \in Seq(Paths(Types)) /\ \A k \in DOMAIN Clause.paths : Creatable(Clause.paths[k])
  BY <1>1, CreateReads
<1>3. \A k \in DOMAIN Clause.paths : Kinded(Clause.paths[k], R)
  <2>1. ci \in DOMAIN stmt /\ Clause.type \in {"create", "match"}  BY <1>1 DEF At, Clause
  <2>. QED  BY <1>2, <2>1, PatternVars
<1>4. env \in Filing(view, next_id)
  <2>1. Same(view, view, next_id)  BY DEF Same
  <2>2. env \in Creating(view, next_id)  BY <2>1, TypesBefore, CreatingFrom
  <2>. QED  BY <2>2 DEF LInv, Filing
<1>5. Created = FoldLeft(CreatePath, env, Clause.paths)  BY DEF Created
<1>6. next_id \in Nat /\ next_id >= 1  BY TypesBefore
<1>. HIDE DEF env, R
<1>7. Created \in Filing(view, next_id)
  BY <1>2, <1>3, <1>4, <1>5, <1>6, CreatePathsFiled
<1>8. IndexInvOf(view')  BY <1>1, <1>7 DEF Filing
<1>. QED  BY <1>1, <1>8 DEF LInv

\* DELETE.
LEMMA DeleteIndexes ==
  ASSUME IInv, LInv, Delete PROVE LInv'
<1>. DEFINE env == FoldLeft(LAMBDA e, v : DeleteVariable(e, v, Clause.detach),
                            [tables |-> view, context |-> context], Clause.vars)
<1>1. /\ At("delete") /\ view' = env.tables /\ db' = db
  BY DEF Delete, Advance
<1>2. Clause.vars \in Seq(Vars) /\ Clause.detach \in BOOLEAN
  BY <1>1, ClauseType DEF At, Clause, IInv, TypeOK
<1>3. env \in Unfiling(view, context, next_id)  BY <1>2, TypesBefore, DeleteVariablesFiled DEF LInv
<1>. HIDE DEF env
<1>4. IndexInvOf(view')  BY <1>1, <1>3 DEF Unfiling
<1>. QED  BY <1>1, <1>4 DEF LInv

\* SET, also under a label that is left over from an earlier binding.
LEMMA SetIndexes ==
  ASSUME IInv, LInv, Set PROVE LInv'
<1>. DEFINE pending == FoldLeft(AssignAll, NonePending, Clause.assignments)
            list == Clause.assignments
<1>1. /\ At("set") /\ db' = db
      /\ view' = FoldLeft(LAMBDA d, i : Written(d, i, pending[i]), view, ToSequence(Assignees))
  BY DEF Set, NonePending, Advance
<1>2. Clause.assignments \in Seq(Assignments)
  BY <1>1, ClauseType DEF At, Clause, IInv, TypeOK
<1>3. pending \in PendingMaps  BY <1>2, TypesBefore, AssignmentsType
<1>4. Assignees \in SUBSET (1..(next_id - 1)) /\ Assignees \in SUBSET Ids  BY <1>2, AssigneesBelow
<1>5. ToSequence(Assignees) \in Seq(Assignees)  BY <1>4, SequenceRange
<1>6. ASSUME NEW i \in Assignees, LiveNode(view, i) PROVE pending[i].value # Tombstone
  <2>1. Applied(pending, list, Len(list), i)  BY <1>2, <1>4, <1>6, TypesBefore, AssignmentsApplied
  <2>2. PICK a \in ToSet(list) : context[a.var] # Unbound /\ i \in ToSet(context[a.var])  BY <1>6 DEF Assignees
  <2>3. PICK x \in 1..Len(list) : list[x] = a
    <3>1. DOMAIN list = 1..Len(list)  BY <1>2
    <3>. QED  BY <2>2, <3>1 DEF ToSet
  <2>. HIDE DEF pending, list
  <2>4. Touched(list, Len(list), i)  BY <2>2, <2>3 DEF Touched, Reaches
  <2>. QED  BY <2>1, <2>4 DEF Applied
<1>. HIDE DEF pending
<1>7. IndexInvOf(view')
  BY <1>1, <1>3, <1>4, <1>5, <1>6, TypesBefore, WritesIndex DEF LInv
<1>. QED  BY <1>1, <1>7 DEF LInv

\* The other steps leave the tables alone, or end the transaction.
LEMMA OthersIndex ==
  ASSUME LInv,
         \/ \E s \in Statements : Submit(s)
         \/ CreateFails \/ Match \/ MatchWhere \/ Where \/ Return \/ Unwind \/ NextItem \/ Finish
         \/ UNCHANGED vars
  PROVE  LInv'
<1>1. ASSUME NEW s \in Statements, Submit(s) PROVE LInv'
  BY <1>1 DEF Submit, LInv
<1>2. CASE CreateFails  BY <1>2 DEF CreateFails, LInv
<1>3. CASE Match \/ MatchWhere \/ Where \/ Return \/ Unwind
  <2>1. UNCHANGED <<db, view>>  BY <1>3 DEF Match, MatchWhere, Where, Return, Unwind, Advance
  <2>. QED  BY <2>1 DEF LInv
<1>4. CASE NextItem  BY <1>4 DEF NextItem, LInv
<1>5. CASE Finish  BY <1>5 DEF Finish, LInv
<1>6. CASE UNCHANGED vars  BY <1>6 DEF vars, LInv
<1>. QED  BY <1>1, <1>2, <1>3, <1>4, <1>5, <1>6

\* Every step keeps it.
LEMMA IndexInductive ==
  ASSUME OneKind PROVE IInv /\ LInv /\ [Next]_vars => LInv'
<1>. SUFFICES ASSUME IInv, LInv, [Next]_vars PROVE LInv'
  OBVIOUS
<1>1. CASE Create  BY <1>1, CreateIndexes
<1>2. CASE Delete  BY <1>2, DeleteIndexes
<1>3. CASE Set  BY <1>3, SetIndexes
<1>4. CASE \/ \E s \in Statements : Submit(s)
           \/ CreateFails \/ Match \/ MatchWhere \/ Where \/ Return \/ Unwind \/ NextItem \/ Finish
           \/ UNCHANGED vars
  BY <1>4, OthersIndex
<1>. QED  BY <1>1, <1>2, <1>3, <1>4 DEF Next

\* Through every clause, commit and abort the property index lists exactly the rows
\* that have a code under it, of the nodes that no write has passed it by: neither
\* one without a label nor a SET under a label left over in context_labels_ that the
\* node does not have.
THEOREM IndexFaithful ==
  ASSUME OneKind PROVE Spec => [](IndexInvOf(db) /\ IndexInvOf(view))
<1>1. Init => LInv
  BY EmptyIndex DEF Init, LInv
<1>2. IInv /\ LInv /\ [Next]_vars => LInv'
  BY IndexInductive
<1>3. LInv => IndexInvOf(db) /\ IndexInvOf(view)
  BY DEF LInv
<1>. QED  BY <1>1, <1>2, <1>3, Invariance, PTL DEF Spec

-----------------------------------------------------------------------------
(***************************************************************************)
(* MATCH with WHERE.                                                       *)
(***************************************************************************)

\* What Exact says of the list that the variable holds.
ExactList(ids, S) ==
  LET found == {k \in DOMAIN ids : LiveNode(view, ids[k]) /\ ids[k] \notin view.unindexed}
  IN  {ids[k] : k \in found} = S \ view.unindexed /\ \A j, k \in found : ids[j] = ids[k] => j = k

\* It is enough to look at the live nodes that the index follows, one by one.
LEMMA ExactWhen ==
  ASSUME NEW ids \in Seq(Ids), NEW S \in SUBSET Ids, \A i \in S : LiveNode(view, i),
         \A i \in Ids : LiveNode(view, i) /\ i \notin view.unindexed =>
           Once(ids, i) /\ (i \in ToSet(ids) <=> i \in S)
  PROVE  ExactList(ids, S)
<1>. DEFINE n == Len(ids)
            found == {k \in DOMAIN ids : LiveNode(view, ids[k]) /\ ids[k] \notin view.unindexed}
<1>1. DOMAIN ids = 1..n /\ \A k \in 1..n : ids[k] \in Ids  OBVIOUS
<1>2. ASSUME NEW k \in found PROVE ids[k] \in Ids /\ ids[k] \in ToSet(ids) /\ Once(ids, ids[k]) /\ ids[k] \in S
  <2>1. ids[k] \in Ids /\ LiveNode(view, ids[k]) /\ ids[k] \notin view.unindexed  BY <1>1
  <2>2. ids[k] \in ToSet(ids)  BY DEF ToSet
  <2>. QED  BY <2>1, <2>2
<1>3. {ids[k] : k \in found} = S \ view.unindexed
  <2>1. ASSUME NEW i \in S \ view.unindexed PROVE \E k \in found : ids[k] = i
    <3>1. i \in ToSet(ids)  BY <2>1
    <3>2. PICK k \in DOMAIN ids : ids[k] = i  BY <3>1 DEF ToSet
    <3>. QED  BY <2>1, <3>2
  <2>2. \A k \in found : ids[k] \in S \ view.unindexed  BY <1>2
  <2>. HIDE DEF found
  <2>. QED  BY <2>1, <2>2
<1>4. \A j, k \in found : ids[j] = ids[k] => j = k
  <2>. TAKE j, k \in found
  <2>1. Once(ids, ids[k]) /\ j \in DOMAIN ids /\ k \in DOMAIN ids  BY <1>2
  <2>. QED  BY <2>1 DEF Once
<1>. QED  BY <1>3, <1>4 DEF ExactList

\* What a value look-up finds of a live node that the index follows.
LEMMA LookupExact ==
  ASSUME view \in Tables, IndexInvOf(view), NEW l \in Labels, NEW k \in Keys, NEW v \in Values,
         NEW i \in Ids, LiveNode(view, i), i \notin view.unindexed
  PROVE  /\ FindNodesByProperty(view, l, k, v)[i] <= 1
         /\ FindNodesByProperty(view, l, k, v)[i] > 0 <=>
              i \in FindNodesByLabel(view, l) /\ HasCode(view.nodes[i], k, Encode[v])
<1>. DEFINE m == Occurrences(view.property_index, l, k, Encode[v], i)
<1>1. Encode[v] \in Codes  BY ConstantsAssumption
<1>2. /\ m \in {0, 1}
      /\ m = 1 => i \in view.label_index[l]
      /\ i \in view.label_index[l] => (m = 1 <=> HasCode(view.nodes[i], k, Encode[v]))
  BY <1>1 DEF IndexInvOf, Packed
<1>3. FindNodesByProperty(view, l, k, v)[i] = m  BY DEF FindNodesByProperty
<1>. HIDE DEF m
<1>. QED  BY <1>2, <1>3 DEF FindNodesByLabel

\* And a range look-up.
LEMMA RangeExact ==
  ASSUME NoNegativeZero, view \in Tables, IndexInvOf(view), NEW l \in Labels, NEW k \in Keys, NEW op \in Ranges,
         NEW c \in Values, NEW i \in Ids, LiveNode(view, i), i \notin view.unindexed
  PROVE  FindNodesByPropertyRange(view, l, k, op, c)[i] > 0 <=>
           /\ i \in FindNodesByLabel(view, l) /\ view.nodes[i][k] # NoValue
           /\ Satisfies(view.nodes[i][k], op, c)
<1>. DEFINE m(code) == Occurrences(view.property_index, l, k, code, i)
            x == view.nodes[i][k]
<1>1. FindNodesByPropertyRange(view, l, k, op, c)[i] > 0 <=> \E code \in Codes : InScan(code, op, c) /\ m(code) > 0
  BY RangeType
<1>2. \A code \in Codes : /\ m(code) \in {0, 1}
                          /\ m(code) = 1 => i \in view.label_index[l]
                          /\ i \in view.label_index[l] => (m(code) = 1 <=> HasCode(view.nodes[i], k, code))
  BY DEF IndexInvOf, Packed
<1>3. x \in Values \cup {NoValue}  BY DEF LiveNode, PropMaps
<1>4. \A code : HasCode(view.nodes[i], k, code) <=> x # NoValue /\ code = Encode[x]  BY DEF HasCode
<1>5. ASSUME x # NoValue PROVE Encode[x] \in Codes /\ (InScan(Encode[x], op, c) <=> Satisfies(x, op, c))
  <2>1. x \in Values  BY <1>3, <1>5
  <2>. HIDE DEF x
  <2>2. ~Zeros(x, c)
    <3>1. ASSUME x \in Numbers, c \in Numbers, {Bits[x], Bits[c]} = {0, Half} PROVE FALSE
      <4>1. Bits[x] # Half /\ Bits[c] # Half  BY <3>1 DEF NoNegativeZero
      <4>2. Half \in {Bits[x], Bits[c]}  BY <3>1
      <4>. QED  BY <4>1, <4>2
    <3>. QED  BY <3>1 DEF Zeros
  <2>. QED  BY <2>1, <2>2, RangeScanExact, ConstantsAssumption
<1>. HIDE DEF m, x
<1>6. \A code \in Codes : m(code) > 0 <=> i \in view.label_index[l] /\ HasCode(view.nodes[i], k, code)
  BY <1>2
<1>7. (\E code \in Codes : InScan(code, op, c) /\ m(code) > 0)
        <=> i \in view.label_index[l] /\ x # NoValue /\ Satisfies(x, op, c)
  BY <1>4, <1>5, <1>6
<1>. QED  BY <1>1, <1>7 DEF FindNodesByLabel, x

\* The types of a WHERE.
LEMMA WhereType ==
  ASSUME stmt \in Statements \cup {<<>>}, NEW i \in DOMAIN stmt, stmt[i].type = "where"
  PROVE  stmt[i].op \in {"=", "<>"} \cup Ranges
<1>1. stmt[i] \in Clauses  BY ClauseType
<1>. QED  BY <1>1 DEF Clauses

\* What is chosen from a list.
LEMMA ChosenType ==
  ASSUME NEW A, NEW ids \in Seq(A), NEW P
  PROVE  Chosen(ids, P) \in Seq(A)
<1>. DEFINE n == Len(ids)
            seqs == [k \in DOMAIN ids |-> IF ids[k] \in P THEN <<ids[k]>> ELSE <<>>]
<1>1. n \in Nat /\ DOMAIN ids = 1..n /\ \A k \in 1..n : ids[k] \in A  OBVIOUS
<1>2. \A y \in A : <<y>> \in Seq(A)  OBVIOUS
<1>3. <<>> \in Seq(A)  OBVIOUS
<1>. HIDE DEF n
<1>4. \A k \in 1..n : seqs[k] \in Seq(A)  BY <1>1, <1>2, <1>3
<1>5. DOMAIN seqs = 1..n /\ seqs = [k \in 1..n |-> IF ids[k] \in P THEN <<ids[k]>> ELSE <<>>]  BY <1>1
<1>6. seqs \in [1..n -> Seq(A)]  BY <1>4, <1>5
<1>7. Chosen(ids, P) = FlattenSeq(seqs)  BY DEF Chosen
<1>. HIDE DEF seqs
<1>. QED  BY <1>1, <1>6, <1>7, FlattenRange

\* A filter of all that has the label leaves what satisfies it, in each of the
\* ways that WHERE has for an operator other than =.
LEMMA FilteredExact ==
  ASSUME NoNegativeZero, view \in Tables, IndexInvOf(view), NEW n, n.label \in Labels, Given(n) = {},
         NEW w, w.var \in Vars, w.key \in Keys, w.value \in Values, w.op \in {"<>"} \cup Ranges,
         labels[w.var] = n.label
  PROVE  ExactList(Filtered(w, ToSequence(FindNodesByLabel(view, n.label))), Wanted(n, w))
<1>. DEFINE A == FindNodesByLabel(view, n.label)
            all == ToSequence(A)
            ids == Filtered(w, all)
            S == Wanted(n, w)
<1>1. A \in SUBSET Ids  BY DEF FindNodesByLabel, Tables
<1>2. all \in Seq(A) /\ ToSet(all) = A /\ \A i : Once(all, i)  BY <1>1, SequenceRange, SequenceOnce
<1>3. all \in Seq(Ids)  BY <1>1, <1>2, SeqMonotone
<1>4. S \in SUBSET Ids /\ \A i \in S : LiveNode(view, i)  BY <1>1 DEF Wanted
<1>5. n.label # NoLabel /\ Ranges = {"<", "<=", ">", ">="}  BY ConstantsAssumption DEF Ranges
<1>6. CASE w.op \in Ranges
  <2>. DEFINE bag == FindNodesByPropertyRange(view, n.label, w.key, w.op, w.value)
              both == Common(Count(all), bag)
  <2>1. ids = Sorted(both)  BY <1>5, <1>6 DEF Filtered
  <2>2. bag \in [Ids -> Nat]  BY RangeType
  <2>3. Count(all) \in [Ids -> Nat]  BY <1>3, CountType
  <2>4. \A i \in Ids : Count(all)[i] = IF i \in A THEN 1 ELSE 0  BY <1>2, <1>3, CountOnce
  <2>5. ASSUME NEW i \in Ids, LiveNode(view, i), i \notin view.unindexed
        PROVE  i \in S <=> i \in A /\ bag[i] > 0
    <3>1. bag[i] > 0 <=> i \in A /\ view.nodes[i][w.key] # NoValue /\ Satisfies(view.nodes[i][w.key], w.op, w.value)
      BY <1>6, <2>5, RangeExact
    <3>2. w.op # "=" /\ w.op # "<>"  BY <1>5, <1>6
    <3>. HIDE DEF bag, both, ids, all
    <3>. QED  BY <1>1, <1>6, <2>5, <3>1, <3>2 DEF Wanted
  <2>. HIDE DEF bag, S, A
  <2>6. /\ both \in [Ids -> Nat]
        /\ \A i \in Ids : both[i] <= 1 /\ (both[i] > 0 <=> i \in A /\ bag[i] > 0)
    <3>1. both = [i \in Ids |-> IF Count(all)[i] < bag[i] THEN Count(all)[i] ELSE bag[i]]  BY DEF Common
    <3>2. \A i \in Ids : Count(all)[i] \in {0, 1} /\ bag[i] \in Nat /\ (Count(all)[i] = 1 <=> i \in A)  BY <2>2, <2>4
    <3>. DEFINE c == Count(all)
    <3>. HIDE DEF both, c, all
    <3>. QED  BY <3>1, <3>2 DEF c
  <2>. HIDE DEF both, ids, all
  <2>7. \A i \in Ids : Once(Sorted(both), i)  BY <2>6, SortedOnce
  <2>8. /\ Sorted(both) \in Seq({i \in Ids : both[i] > 0})
        /\ ToSet(Sorted(both)) = {i \in Ids : both[i] > 0}
    BY <2>6, SortedRange
  <2>9. ids \in Seq(Ids)
    <3>1. {i \in Ids : both[i] > 0} \subseteq Ids  OBVIOUS
    <3>. QED  BY <2>1, <2>8, <3>1, SeqMonotone
  <2>10. ASSUME NEW i \in Ids, LiveNode(view, i), i \notin view.unindexed
         PROVE  Once(ids, i) /\ (i \in ToSet(ids) <=> i \in S)
    BY <2>1, <2>5, <2>6, <2>7, <2>8, <2>10
  <2>11. ExactList(ids, S)  BY <1>4, <2>9, <2>10, ExactWhen
  <2>. QED  BY <2>11 DEF ids, all, S, A
<1>7. CASE w.op = "<>"
  <2>. DEFINE P == {i \in Ids : Passes(w, i)}
  <2>1. ids = FlattenSeq([k \in DOMAIN all |-> IF Passes(w, all[k]) THEN <<all[k]>> ELSE <<>>])
    BY <1>5, <1>7 DEF Filtered
  <2>2. \A k \in DOMAIN all : Passes(w, all[k]) <=> all[k] \in P
    <3>. HIDE DEF all
    <3>1. \A k \in DOMAIN all : all[k] \in Ids  BY <1>3
    <3>. QED  BY <3>1
  <2>. HIDE DEF all, P, S
  <2>3. [k \in DOMAIN all |-> IF Passes(w, all[k]) THEN <<all[k]>> ELSE <<>>]
          = [k \in DOMAIN all |-> IF all[k] \in P THEN <<all[k]>> ELSE <<>>]
    BY <2>2
  <2>4. ids = Chosen(all, P)  BY <2>1, <2>3 DEF Chosen
  <2>5. ToSet(ids) = ToSet(all) \cap P /\ \A i : Once(ids, i)  BY <1>2, <1>3, <2>4, ChosenExact
  <2>6. ids \in Seq(Ids)  BY <1>3, <2>4, ChosenType
  <2>7. ASSUME NEW i \in Ids, LiveNode(view, i), i \notin view.unindexed
        PROVE  Once(ids, i) /\ (i \in ToSet(ids) <=> i \in S)
    <3>1. i \in S <=> i \in A /\ Passes(w, i)
      <4>1. w.op # "=" /\ w.op \notin Ranges  BY <1>5, <1>7
      <4>. HIDE DEF ids
      <4>. QED  BY <1>1, <1>7, <2>7, <4>1 DEF Wanted, S
    <3>. QED  BY <1>2, <2>5, <3>1 DEF P
  <2>. HIDE DEF ids
  <2>8. ExactList(ids, S)  BY <1>4, <2>6, <2>7, ExactWhen
  <2>. QED  BY <2>8 DEF ids, all, S, A
<1>. QED  BY <1>6, <1>7

\* A statement that starts with MATCH (n:label) WHERE n.key op value.
Filters(s) ==
  /\ Len(s) >= 2 /\ s[1].type = "match" /\ s[2].type = "where"
  /\ Len(s[1].paths) = 1 /\ Len(s[1].paths[1].nodes) = 1
  /\ s[1].paths[1].nodes[1].label # NoLabel /\ s[1].paths[1].nodes[1].var = s[2].var
  /\ Given(s[1].paths[1].nodes[1]) = {}

\* Its node pattern.
Sought == stmt[1].paths[1].nodes[1]

\* Such a statement is in no loop up to its third clause, and MATCH, when it is not
\* fused with WHERE, binds all nodes of the label.
XInv ==
  Filters(stmt) =>
    /\ loop.start # 0 => loop.start >= 4 /\ ci >= 4
    /\ ci = 1 => context = NoContext
    /\ ci = 2 => /\ stmt[2].op # "="
                 /\ \/ context[Sought.var] = Unbound
                    \/ /\ context[Sought.var] = ToSequence(FindNodesByLabel(view, Sought.label))
                       /\ labels[Sought.var] = Sought.label
    /\ ci = 3 => context[Sought.var] = Unbound \/ Exact(Sought.var, Wanted(Sought, stmt[2]))

\* The parts of such a statement.
LEMMA SoughtType ==
  ASSUME IInv, Filters(stmt)
  PROVE  /\ stmt # <<>> /\ Len(stmt) \in Nat /\ Len(stmt) >= 2 /\ DOMAIN stmt = 1..Len(stmt)
         /\ stmt[1].paths \in Seq(Paths(Types \cup {NoType})) /\ DOMAIN stmt[1].paths = 1..1
         /\ stmt[1].paths[1] \in Paths(Types \cup {NoType}) /\ DOMAIN stmt[1].paths[1].rels = 1..0
         /\ Sought \in NodePatterns /\ Sought.label \in Labels /\ Sought.var \in Vars /\ Sought.var = stmt[2].var
         /\ Sought.label # NoLabel /\ Sought.var # NoVar /\ Given(Sought) = {}
         /\ stmt[2].key \in Keys /\ stmt[2].value \in Values /\ stmt[2].op \in {"=", "<>"} \cup Ranges
<1>1. /\ Len(stmt) >= 2 /\ stmt[1].type = "match" /\ stmt[2].type = "where" /\ stmt \in Statements \cup {<<>>}
      /\ Len(stmt[1].paths) = 1 /\ Len(stmt[1].paths[1].nodes) = 1
      /\ Sought.label # NoLabel /\ Sought.var = stmt[2].var /\ Given(Sought) = {}
  BY DEF Filters, Sought, IInv, TypeOK
<1>2. Len(stmt) \in Nat /\ DOMAIN stmt = 1..Len(stmt)  BY <1>1, StatementType
<1>3. 1 \in DOMAIN stmt /\ 2 \in DOMAIN stmt /\ stmt # <<>>
  <2>1. Len(<<>>) = 0  OBVIOUS
  <2>. QED  BY <1>1, <1>2, <2>1
<1>4. stmt[1].paths \in Seq(Paths(Types \cup {NoType}))  BY <1>1, <1>3, ClauseType
<1>5. stmt[2].var \in Vars /\ stmt[2].key \in Keys /\ stmt[2].value \in Values  BY <1>1, <1>3, ClauseType
<1>6. stmt[2].op \in {"=", "<>"} \cup Ranges  BY <1>1, <1>3, WhereType
<1>7. DOMAIN stmt[1].paths = 1..1 /\ stmt[1].paths[1] \in Paths(Types \cup {NoType})
  <2>. DEFINE P == Paths(Types \cup {NoType})
              paths == stmt[1].paths
  <2>1. paths \in Seq(P) /\ Len(paths) = 1  BY <1>1, <1>4
  <2>. HIDE DEF P, paths
  <2>2. DOMAIN paths = 1..1 /\ paths[1] \in P  BY <2>1
  <2>. QED  BY <2>2 DEF P, paths
<1>8. Sought \in NodePatterns /\ DOMAIN stmt[1].paths[1].rels = 1..0
  <2>. DEFINE path == stmt[1].paths[1]
              T == Types \cup {NoType}
  <2>1. path \in Paths(T) /\ Len(path.nodes) = 1 /\ Sought = path.nodes[1]  BY <1>1, <1>7 DEF Sought
  <2>. HIDE DEF path, T
  <2>2. path.nodes \in Seq(NodePatterns) /\ path.rels \in Seq(RelPatterns(T)) /\ Len(path.nodes) = Len(path.rels) + 1
    BY <2>1 DEF Paths
  <2>. DEFINE nodes == path.nodes
              rels == path.rels
              NP == NodePatterns
              RP == RelPatterns(T)
  <2>3. nodes \in Seq(NP) /\ rels \in Seq(RP) /\ Len(nodes) = 1 /\ Len(nodes) = Len(rels) + 1  BY <2>1, <2>2
  <2>. HIDE DEF nodes, rels, NP, RP
  <2>4. nodes[1] \in NP /\ DOMAIN rels = 1..0  BY <2>3
  <2>. QED  BY <2>1, <2>4 DEF nodes, rels, NP, path
<1>9. Sought.label \in Labels  BY <1>1, <1>8 DEF NodePatterns
<1>10. NoVar \notin Vars  BY Zenon, ExecutorAssumption DEF ExecutorAssumption
<1>. QED  BY <1>1, <1>2, <1>3, <1>4, <1>5, <1>6, <1>7, <1>8, <1>9, <1>10

\* MATCH of one node pattern is the label scan.
LEMMA MatchOne ==
  ASSUME IInv, Match, Filters(stmt), ci = 1, context = NoContext
  PROVE  \/ context'[Sought.var] = Unbound
         \/ /\ context'[Sought.var] = ToSequence(FindNodesByLabel(view, Sought.label))
            /\ labels'[Sought.var] = Sought.label
<1>. DEFINE start == [context |-> context, labels |-> labels]
            paths == stmt[1].paths
            path == stmt[1].paths[1]
            n == Sought
            N == 1..(next_id - 1)
            S == Matching(next_id, N, Vars)
            ids == ToSequence(FindNodesByLabel(view, n.label))
<1>1. /\ context' = FoldLeft(MatchPath, start, Clause.paths).context
      /\ labels' = FoldLeft(MatchPath, start, Clause.paths).labels
  BY DEF Match
<1>2. /\ paths \in Seq(Paths(Types \cup {NoType})) /\ DOMAIN paths = 1..1
      /\ path \in Paths(Types \cup {NoType}) /\ DOMAIN path.rels = 1..0 /\ path.nodes[1] = n
      /\ n \in NodePatterns /\ n.label \in Labels /\ n.var \in Vars
      /\ n.label # NoLabel /\ n.var # NoVar /\ Given(n) = {}
  BY SoughtType DEF Sought
<1>3. Clause.paths = paths  BY DEF Clause
<1>4. start \in S /\ Finds(next_id, N)  BY TypesBefore, AnyHeld DEF Matching
<1>5. FoldLeft(MatchPath, start, paths) = MatchPath(start, path)
  <2>1. \A e \in S : MatchPath(e, path) \in S
    <3>1. \A i \in DOMAIN path.rels : path.rels[i].var \in Vars \cup {NoVar}
      <4>1. DOMAIN path.rels = {}  BY <1>2
      <4>. QED  BY <4>1
    <3>. QED  BY <1>2, <1>4, <3>1, TypesBefore, MatchPathType
  <2>2. \A k \in 1..1 : \A e \in S : MatchPath(e, paths[k]) \in S  BY <2>1
  <2>3. DOMAIN paths = 1..1 /\ start \in S /\ 1 \in Nat /\ path = paths[1]  BY <1>2, <1>4
  <2>. HIDE DEF start, S, paths, path
  <2>4. \E f \in [0..1 -> S] : MatchPathsSteps(f, 1, paths, start)  BY ONLY <2>2, <2>3, MatchPathsFold
  <2>5. PICK f \in [0..1 -> S] : MatchPathsSteps(f, 1, paths, start)  BY <2>4
  <2>6. \A k \in 1..1 : f[k] = MatchPath(f[k - 1], paths[k])  BY <2>5 DEF MatchPathsSteps
  <2>7. f[1] = MatchPath(f[1 - 1], paths[1])  BY <2>6
  <2>8. 1 - 1 = 0  OBVIOUS
  <2>9. f[0] = start /\ FoldLeft(MatchPath, start, paths) = f[1]  BY <2>5 DEF MatchPathsSteps
  <2>. QED  BY <2>3, <2>7, <2>8, <2>9
<1>6. MatchPath(start, path) = MatchFirst(start, n)
  <2>. DEFINE first == MatchFirst(start, n)
  <2>1. first \in S  BY <1>2, <1>4, TypesBefore, MatchFirstType
  <2>2. DOMAIN path.rels = 1..0 /\ n = path.nodes[1]  BY <1>2
  <2>. HIDE DEF S
  <2>3. first \in S /\ \A k \in 1..0 : \A e \in S : Hop(e, path, k) \in S  BY <2>1
  <2>4. first = MatchFirst(start, path.nodes[1])  BY <2>2
  <2>. HIDE DEF first, path, start, n
  <2>5. \E f \in [0..0 -> S] : MatchPathSteps(f, 0, path, first)  BY ONLY <2>2, <2>3, MatchPathFold
  <2>6. PICK f \in [0..0 -> S] : MatchPathSteps(f, 0, path, first)  BY <2>5
  <2>7. f[0] = first  BY <2>6, Zenon DEF MatchPathSteps
  <2>8. MatchPath(start, path) = f[0]  BY <2>4, <2>6, Zenon DEF MatchPathSteps, MatchPath
  <2>. QED  BY <2>7, <2>8 DEF first
<1>7. Scanned(n) = FindNodesByLabel(view, n.label)  BY <1>2 DEF Scanned
<1>8. context \in [Vars -> Seq(N) \cup {Unbound}] /\ labels \in [Vars -> Labels \cup {NoLabel}]
  BY TypesBefore DEF Contexts
<1>. DEFINE env == FoldLeft(MatchPath, start, paths)
<1>9. context' = env.context /\ labels' = env.labels  BY <1>1, <1>3
<1>10. env = MatchFirst(start, n)  BY <1>5, <1>6
<1>. HIDE DEF env
<1>11. \/ env.context = context
       \/ env.context = [context EXCEPT ![n.var] = ids] /\ env.labels = [labels EXCEPT ![n.var] = n.label]
  BY <1>2, <1>7, <1>10 DEF MatchFirst
<1>. HIDE DEF n, ids
<1>12. CASE env.context = context
  <2>1. context'[n.var] = Unbound  BY <1>2, <1>9, <1>12 DEF NoContext
  <2>. QED  BY <2>1 DEF n
<1>13. CASE env.context = [context EXCEPT ![n.var] = ids] /\ env.labels = [labels EXCEPT ![n.var] = n.label]
  <2>1. context'[n.var] = ids /\ labels'[n.var] = n.label  BY <1>2, <1>8, <1>9, <1>13
  <2>. QED  BY <2>1 DEF n, ids
<1>. QED  BY <1>11, <1>12, <1>13

\* The look-up in the index that stands for MATCH and WHERE.
LEMMA MatchWhereOne ==
  ASSUME IInv, LInv, MatchWhere, Filters(stmt), ci = 1
  PROVE  ExactList(context'[Sought.var], Wanted(Sought, stmt[2]))
<1>. DEFINE n == Sought
            w == stmt[2]
            bag == FindNodesByProperty(view, n.label, w.key, w.value)
            S == Wanted(n, w)
            ids == context'[n.var]
<1>1. Fused /\ n = Clause.paths[1].nodes[1] /\ w = stmt[ci + 1]  BY DEF MatchWhere, Clause, Sought
<1>2. w.op = "="  BY <1>1 DEF Fused, Fusable
<1>3. /\ n.label \in Labels /\ n.var \in Vars /\ Given(n) = {} /\ w.key \in Keys /\ w.value \in Values
  BY SoughtType
<1>4. PICK list \in Orders(bag) : context' = [context EXCEPT ![n.var] = list]
  BY <1>1 DEF MatchWhere
<1>5. ids = list  BY <1>3, <1>4, TypesBefore DEF Contexts
<1>6. bag \in [Ids -> Nat]  BY <1>3, TypesBefore, LookupType
<1>7. S \in SUBSET Ids /\ \A i \in S : LiveNode(view, i)
  BY <1>3, TypesBefore DEF Wanted, FindNodesByLabel, Tables
<1>8. ASSUME NEW i \in Ids, LiveNode(view, i), i \notin view.unindexed
      PROVE  bag[i] <= 1 /\ (bag[i] > 0 <=> i \in S)
  <2>1. /\ bag[i] <= 1
        /\ bag[i] > 0 <=> i \in FindNodesByLabel(view, n.label) /\ HasCode(view.nodes[i], w.key, Encode[w.value])
    BY <1>3, <1>8, TypesBefore, LookupExact DEF LInv
  <2>2. w.op # "<>" /\ w.op \notin Ranges  BY <1>2 DEF Ranges
  <2>. HIDE DEF n, w, bag
  <2>. QED  BY <1>2, <1>3, <1>8, <2>1, <2>2 DEF Wanted
<1>. HIDE DEF bag, S, ids, n, w
<1>9. list \in Seq({i \in Ids : bag[i] > 0}) /\ ToSet(list) = {i \in Ids : bag[i] > 0}
  BY <1>4, <1>6, OrdersRange
<1>10. list \in Seq(Ids)
  <2>1. {i \in Ids : bag[i] > 0} \subseteq Ids  OBVIOUS
  <2>. QED  BY <1>9, <2>1, SeqMonotone
<1>11. ASSUME NEW i \in Ids, LiveNode(view, i), i \notin view.unindexed
       PROVE  Once(list, i) /\ (i \in ToSet(list) <=> i \in S)
  <2>1. Once(list, i)  BY <1>4, <1>6, <1>8, <1>11, OrdersOnce
  <2>. QED  BY <1>8, <1>9, <1>11, <2>1
<1>12. ExactList(list, S)  BY <1>7, <1>10, <1>11, ExactWhen
<1>. QED  BY <1>5, <1>12 DEF S, ids, n, w

\* WHERE as the second clause.
LEMMA WhereOne ==
  ASSUME NoNegativeZero, IInv, LInv, XInv, Where, Filters(stmt), ci = 2
  PROVE  context'[Sought.var] = Unbound \/ ExactList(context'[Sought.var], Wanted(Sought, stmt[2]))
<1>. DEFINE n == Sought
            w == stmt[2]
<1>1. Clause = w /\ w.var = n.var /\ n.var \in Vars  BY SoughtType DEF Clause
<1>2. context' = IF context[n.var] = Unbound THEN context
                 ELSE [context EXCEPT ![n.var] = Filtered(w, context[n.var])]
  BY <1>1 DEF Where
<1>3. CASE context[n.var] = Unbound  BY <1>2, <1>3
<1>4. CASE context[n.var] # Unbound
  <2>1. /\ context[n.var] = ToSequence(FindNodesByLabel(view, n.label))
        /\ labels[n.var] = n.label /\ w.op # "="
    BY <1>4 DEF XInv
  <2>2. context'[n.var] = Filtered(w, context[n.var])  BY <1>1, <1>2, <1>4, TypesBefore DEF Contexts
  <2>3. /\ n.label \in Labels /\ Given(n) = {} /\ w.key \in Keys /\ w.value \in Values
        /\ w.op \in {"<>"} \cup Ranges
    BY <2>1, SoughtType
  <2>. HIDE DEF n, w
  <2>4. ExactList(Filtered(w, ToSequence(FindNodesByLabel(view, n.label))), Wanted(n, w))
    BY <1>1, <2>1, <2>3, TypesBefore, FilteredExact DEF LInv
  <2>. QED  BY <2>1, <2>2, <2>4 DEF n, w
<1>. QED  BY <1>3, <1>4

\* The tables are what they were.
LEMMA ExactAfter ==
  ASSUME view' = view, stmt' = stmt, ExactList(context'[Sought.var], Wanted(Sought, stmt[2]))
  PROVE  Exact(Sought.var, Wanted(Sought, stmt[2]))'
<1>1. Sought' = Sought  BY DEF Sought
<1>2. Wanted(Sought, stmt[2])' = Wanted(Sought, stmt[2])
  BY <1>1 DEF Wanted, Passes, GetValue, LiveNode, HasCode, FindNodesByLabel, Satisfies
<1>. DEFINE S == Wanted(Sought, stmt[2])
<1>3. S' = S /\ ExactList(context'[Sought.var], S)  BY <1>2
<1>. HIDE DEF S
<1>4. Exact(Sought.var, S)'  BY <1>1, <1>3 DEF Exact, ExactList, LiveNode
<1>. QED  BY <1>4 DEF S

\* A clause of another type than MATCH is not the first, and of another than WHERE
\* not the second.
LEMMA PlaceOf ==
  ASSUME IInv, Filters(stmt), ci \in DOMAIN stmt
  PROVE  /\ ci \in Nat /\ ci >= 1
         /\ Clause.type # "match" => ci # 1
         /\ Clause.type # "where" => ci # 2
  BY SoughtType DEF Filters, Clause

\* MATCH and WHERE.
LEMMA MatchFilters ==
  ASSUME NoNegativeZero, IInv, LInv, XInv, Match \/ MatchWhere \/ Where PROVE XInv'
<1>. SUFFICES ASSUME Filters(stmt)' PROVE XInv'
  BY DEF XInv
<1>1. /\ ci \in DOMAIN stmt /\ Clause.type \in {"match", "where"} /\ stmt' = stmt /\ view' = view /\ loop' = loop
      /\ ci' = IF MatchWhere THEN ci + 2 ELSE ci + 1
  <2>1. CASE MatchWhere  BY <2>1 DEF MatchWhere, At, Advance, Clause
  <2>2. CASE ~MatchWhere  BY <2>2 DEF Match, Where, At, Advance, Clause
  <2>. QED  BY <2>1, <2>2
<1>2. Filters(stmt) /\ Sought' = Sought  BY <1>1 DEF Filters, Given, Sought
<1>3. ci \in Nat /\ ci >= 1 /\ (Clause.type # "match" => ci # 1) /\ (Clause.type # "where" => ci # 2)
  BY <1>1, <1>2, PlaceOf
<1>4. CASE ci = 1
  <2>1. Clause.type = "match" /\ context = NoContext /\ ~(loop.start # 0)
    BY <1>2, <1>3, <1>4 DEF XInv
  <2>2. ~Where  BY <2>1 DEF Where, At, Clause
  <2>3. CASE MatchWhere
    <3>1. ci' = 3  BY <1>1, <1>4, <2>3
    <3>2. Exact(Sought.var, Wanted(Sought, stmt[2]))'  BY <1>1, <1>2, <1>4, <2>3, MatchWhereOne, ExactAfter
    <3>. QED  BY <1>1, <2>1, <3>1, <3>2 DEF XInv
  <2>4. CASE ~MatchWhere
    <3>1. Match /\ ci' = 2  BY <1>1, <1>4, <2>2, <2>4
    <3>2. ~Fused  BY <3>1 DEF Match
    <3>3. stmt[2].op # "="
      <4>1. ci + 1 = 2 /\ 2 \in DOMAIN stmt /\ Sought.var # NoVar  BY <1>2, <1>4, SoughtType
      <4>2. Clause = stmt[1]  BY <1>4 DEF Clause
      <4>. QED  BY <1>2, <2>1, <3>2, <4>1, <4>2 DEF Fused, Fusable, Filters, Sought
    <3>4. \/ context'[Sought.var] = Unbound
          \/ /\ context'[Sought.var] = ToSequence(FindNodesByLabel(view, Sought.label))
             /\ labels'[Sought.var] = Sought.label
      BY <1>2, <1>4, <2>1, <3>1, MatchOne
    <3>5. ToSequence(FindNodesByLabel(view, Sought.label))' = ToSequence(FindNodesByLabel(view, Sought.label))
      BY <1>1, <1>2 DEF FindNodesByLabel, ToSequence, Sorted, Ids
    <3>6. (stmt[2].op)' = stmt[2].op  BY <1>1
    <3>. QED  BY <1>1, <1>2, <2>1, <3>1, <3>3, <3>4, <3>5, <3>6 DEF XInv
  <2>. QED  BY <2>3, <2>4
<1>5. CASE ci = 2
  <2>1. Clause.type = "where" /\ ~(loop.start # 0)  BY <1>2, <1>3, <1>5 DEF XInv
  <2>2. ~Match /\ ~MatchWhere  BY <2>1 DEF Match, MatchWhere, At, Clause
  <2>3. Where /\ ci' = 3  BY <1>1, <1>5, <2>2
  <2>4. context'[Sought.var] = Unbound \/ ExactList(context'[Sought.var], Wanted(Sought, stmt[2]))
    BY <1>2, <1>5, <2>3, WhereOne
  <2>5. context'[Sought.var] = Unbound \/ Exact(Sought.var, Wanted(Sought, stmt[2]))'
    BY <1>1, <2>4, ExactAfter
  <2>. QED  BY <1>1, <1>2, <2>1, <2>3, <2>5 DEF XInv
<1>6. CASE ci # 1 /\ ci # 2
  <2>1. ci' >= 4  BY <1>1, <1>3, <1>6
  <2>2. loop.start # 0 => loop.start >= 4  BY <1>2 DEF XInv
  <2>3. ~(ci' = 1) /\ ~(ci' = 2) /\ ~(ci' = 3)  BY <1>1, <1>3, <1>6
  <2>. QED  BY <1>1, <2>1, <2>2, <2>3 DEF XInv
<1>. QED  BY <1>4, <1>5, <1>6

\* The other clauses, and the end of a body of UNWIND.
LEMMA OthersFilter ==
  ASSUME IInv, XInv, Create \/ Return \/ Delete \/ Set \/ Unwind \/ NextItem PROVE XInv'
<1>. SUFFICES ASSUME Filters(stmt)' PROVE XInv'
  BY DEF XInv
<1>1. CASE Create \/ Return \/ Delete \/ Set \/ Unwind
  <2>1. /\ ci \in DOMAIN stmt /\ Clause.type \notin {"match", "where"} /\ stmt' = stmt /\ ci' = ci + 1
        /\ loop' = loop \/ loop'.start = ci + 1
    <3>1. CASE Create  BY <3>1 DEF Create, At, Advance, Clause
    <3>2. CASE Return  BY <3>2 DEF Return, At, Advance, Clause
    <3>3. CASE Delete
      <4>1. At("delete") /\ Advance(1) /\ loop' = loop  BY <3>3, DeletedType
      <4>. QED  BY <4>1 DEF At, Advance, Clause
    <3>4. CASE Set
      <4>1. At("set") /\ Advance(1) /\ loop' = loop  BY <3>4, SetType
      <4>. QED  BY <4>1 DEF At, Advance, Clause
    <3>5. CASE Unwind  BY <3>5 DEF Unwind, At, Advance, Clause
    <3>. QED  BY <1>1, <3>1, <3>2, <3>3, <3>4, <3>5
  <2>2. Filters(stmt)  BY <2>1 DEF Filters, Given
  <2>3. ci \in Nat /\ ci >= 1 /\ ci # 1 /\ ci # 2  BY <2>1, <2>2, PlaceOf
  <2>4. ci' >= 4 /\ ~(ci' = 1) /\ ~(ci' = 2) /\ ~(ci' = 3)  BY <2>1, <2>3
  <2>5. loop'.start # 0 => loop'.start >= 4
    <3>1. loop.start # 0 => loop.start >= 4  BY <2>2 DEF XInv
    <3>2. ci + 1 >= 4  BY <2>1, <2>4
    <3>. QED  BY <2>1, <3>1, <3>2
  <2>. QED  BY <2>4, <2>5 DEF XInv
<1>2. CASE NextItem
  <2>1. stmt' = stmt /\ loop.start # 0  BY <1>2 DEF NextItem
  <2>2. Filters(stmt)  BY <2>1 DEF Filters, Given
  <2>3. loop.start >= 4 /\ ci >= 4 /\ loop.start \in Nat /\ ci \in Nat  BY <2>1, <2>2 DEF XInv, IInv, TypeOK
  <2>4. /\ ci' = loop.start \/ ci' = ci
        /\ loop'.start = loop.start \/ loop'.start = 0
    BY <1>2 DEF NextItem, NoLoop, IInv, TypeOK
  <2>. QED  BY <2>3, <2>4 DEF XInv
<1>. QED  BY <1>1, <1>2

\* Every step keeps it.
LEMMA FilterInductive ==
  ASSUME NoNegativeZero PROVE IInv /\ LInv /\ XInv /\ [Next]_vars => XInv'
<1>. SUFFICES ASSUME IInv, LInv, XInv, [Next]_vars, Filters(stmt)' PROVE XInv'
  BY DEF XInv
<1>0. ASSUME stmt' = <<>> PROVE FALSE
  <2>1. Len(<<>>) = 0  OBVIOUS
  <2>. QED  BY <1>0, <2>1 DEF Filters
<1>1. ASSUME NEW s \in Statements, Submit(s) PROVE XInv'
  <2>1. ci' = 1 /\ context' = NoContext /\ loop' = loop /\ stmt = <<>>  BY <1>1 DEF Submit
  <2>2. loop.start = 0  BY <2>1 DEF IInv, LoopInv
  <2>. QED  BY <2>1, <2>2 DEF XInv, NoContext
<1>2. CASE Match \/ MatchWhere \/ Where  BY <1>2, MatchFilters
<1>3. CASE Create \/ Return \/ Delete \/ Set \/ Unwind \/ NextItem  BY <1>3, OthersFilter
<1>4. CASE CreateFails \/ Finish  BY <1>0, <1>4 DEF CreateFails, Finish
<1>5. CASE UNCHANGED vars
  <2>1. UNCHANGED <<view, stmt, ci, context, labels, loop>>  BY <1>5 DEF vars, memory
  <2>2. Sought' = Sought /\ Filters(stmt)  BY <2>1 DEF Sought, Filters, Given
  <2>3. Exact(Sought.var, Wanted(Sought, stmt[2])) => Exact(Sought.var, Wanted(Sought, stmt[2]))'
    <3>1. Exact(Sought.var, Wanted(Sought, stmt[2])) => ExactList(context[Sought.var], Wanted(Sought, stmt[2]))
      BY DEF Exact, ExactList
    <3>. QED  BY <2>1, <3>1, ExactAfter
  <2>4. ToSequence(FindNodesByLabel(view, Sought.label))' = ToSequence(FindNodesByLabel(view, Sought.label))
    BY <2>1, <2>2 DEF FindNodesByLabel, ToSequence, Sorted, Ids
  <2>. QED  BY <2>1, <2>2, <2>3, <2>4 DEF XInv, NoContext
<1>. QED  BY <1>1, <1>2, <1>3, <1>4, <1>5 DEF Next

\* MATCH with WHERE, whether it is one look-up in the index, an intersection with a
\* look-up or a range scan, or a scan of the rows, binds exactly the live nodes that
\* satisfy it, each once.
THEOREM FilterIsExact ==
  ASSUME OneKind, NoNegativeZero PROVE Spec => []MatchWhereExact
<1>1. Init => LInv /\ XInv
  <2>. SUFFICES ASSUME Init PROVE LInv /\ XInv
    OBVIOUS
  <2>1. db = EmptyTables /\ view = EmptyTables /\ stmt = <<>>  BY DEF Init
  <2>2. LInv  BY <2>1, EmptyIndex DEF LInv
  <2>3. Len(<<>>) = 0  OBVIOUS
  <2>4. XInv  BY <2>1, <2>3 DEF XInv, Filters
  <2>. QED  BY <2>2, <2>4
<1>2. IInv /\ XInv => MatchWhereExact
  <2>. SUFFICES ASSUME IInv, XInv, Len(stmt) >= 2, JustFiltered(stmt[1], stmt[2]), Given(Sought) = {},
                       context[Sought.var] # Unbound
                PROVE  Exact(Sought.var, Wanted(Sought, stmt[2]))
    BY DEF MatchWhereExact, Sought
  <2>1. Filters(stmt) /\ ci = 3  BY DEF JustFiltered, Filters, Sought
  <2>. QED  BY <2>1 DEF XInv
<1>3. IInv /\ LInv /\ [Next]_vars => LInv'  BY IndexInductive
<1>4. IInv /\ LInv /\ XInv /\ [Next]_vars => XInv'  BY FilterInductive
<1>. QED  BY <1>1, <1>2, <1>3, <1>4, Invariance, PTL DEF Spec
==============================================================================
