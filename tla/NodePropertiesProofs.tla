------------------------ MODULE NodePropertiesProofs ------------------------
(***************************************************************************)
(* Proofs about the JSON text of a node's properties, for every set of     *)
(* keys and values, every spelling of the keys and every length of text.   *)
(* A text lays out entries, one behind the other; the writers keep it so,  *)
(* and each scanner of a reader goes from entry to entry.                  *)
(***************************************************************************)
EXTENDS NodeProperties, WellFoundedInduction, SequenceTheorems, TLAPS

-----------------------------------------------------------------------------
(***************************************************************************)
(* Induction over positions, by a least counterexample.                    *)
(***************************************************************************)

\* A non-empty set of numbers has a least element.
LEMMA MinOfNumbers ==
  ASSUME NEW S \in SUBSET Nat, S # {}
  PROVE  /\ Min(S) \in S
         /\ \A x \in S : Min(S) <= x
<1>. DEFINE R == OpToRel(<, Nat)
<1>1. IsWellFoundedOn(R, Nat)  BY NatLessThanWellFounded
<1>2. \E x \in S : \A y \in S : ~(<<y, x>> \in R)
  <2>. HIDE DEF R
  <2>. QED  BY <1>1, WFMin, ZenonT(30)
<1>3. PICK x \in S : \A y \in S : ~(<<y, x>> \in R)  BY <1>2
<1>4. \A y \in S : x <= y
  <2>1. ASSUME NEW y \in S, ~(x <= y) PROVE <<y, x>> \in R
    <3>1. y < x /\ x \in Nat /\ y \in Nat  BY <2>1
    <3>. QED  BY <3>1 DEF OpToRel
  <2>. QED  BY <1>3, <2>1
<1>. QED  BY <1>4 DEF Min

\* Induction over an interval.
LEMMA StepInduction ==
  ASSUME NEW n \in Nat, NEW T \in SUBSET (0..n), 0 \in T, \A k \in 1..n : k - 1 \in T => k \in T
  PROVE  T = 0..n
<1>. DEFINE C == (0..n) \ T
<1>1. SUFFICES ASSUME C # {} PROVE FALSE  OBVIOUS
<1>2. Min(C) \in C /\ \A x \in C : Min(C) <= x
  <2>1. C \in SUBSET Nat  OBVIOUS
  <2>. HIDE DEF C
  <2>. QED  BY <1>1, <2>1, MinOfNumbers
<1>3. PICK x \in C : \A y \in C : x <= y  BY <1>2
<1>4. x \in 1..n /\ x - 1 \in 0..n  BY <1>3
<1>5. x - 1 \in T  BY <1>3, <1>4
<1>. QED  BY <1>3, <1>4, <1>5

\* A non-empty set of positions has a greatest element.
LEMMA MaxOfPositions ==
  ASSUME NEW n \in Nat, NEW S \in SUBSET (0..n), NEW x \in S, \A y \in S : y <= x
  PROVE  Max(S) = x
<1>1. Max(S) \in S /\ \A y \in S : y <= Max(S)  BY DEF Max
<1>2. PICK m \in S : m = Max(S) /\ x <= m  BY <1>1
<1>3. m = x  BY <1>2
<1>. QED  BY <1>2, <1>3

-----------------------------------------------------------------------------
(***************************************************************************)
(* Searching.                                                              *)
(***************************************************************************)

\* Find gives the first place, and nothing else.
LEMMA FindIs ==
  ASSUME NEW X, NEW s \in Seq(X), NEW c, NEW p \in Nat \ {0}, NEW q \in p..Len(s), s[q] = c,
         \A r \in p..(q - 1) : s[r] # c
  PROVE  Find(s, c, p) = q
<1>. DEFINE A == {i \in p..Len(s) : s[i] = c}
<1>1. A \in SUBSET Nat /\ q \in A  OBVIOUS
<1>2. Min(A) \in A /\ Min(A) <= q
  <2>. HIDE DEF A
  <2>. QED  BY <1>1, MinOfNumbers
<1>3. PICK x \in A : x = Min(A) /\ x <= q  BY <1>2
<1>4. x = q  BY <1>3
<1>. QED  BY <1>1, <1>3, <1>4 DEF Find

\* Find gives 0 if there is no such place.
LEMMA FindNone ==
  ASSUME NEW X, NEW s \in Seq(X), NEW c, NEW p \in Nat \ {0}, \A r \in p..Len(s) : s[r] # c
  PROVE  Find(s, c, p) = 0
BY DEF Find

\* What Find gives in general.
LEMMA FindType ==
  ASSUME NEW X, NEW s \in Seq(X), NEW c, NEW p \in Nat \ {0}
  PROVE  \/ Find(s, c, p) = 0
         \/ Find(s, c, p) \in p..Len(s)
<1>. DEFINE A == {i \in p..Len(s) : s[i] = c}
<1>1. A \in SUBSET Nat  OBVIOUS
<1>2. A = {} \/ Min(A) \in A
  <2>. HIDE DEF A
  <2>. QED  BY <1>1, MinOfNumbers
<1>. QED  BY <1>2 DEF Find

\* Skip and Until: the first place that stops them.
LEMMA SkipIs ==
  ASSUME NEW X, NEW s \in Seq(X), NEW set, NEW p \in Nat \ {0}, NEW q \in p..Len(s), s[q] \notin set,
         \A r \in p..(q - 1) : s[r] \in set
  PROVE  Skip(s, p, set) = q
<1>. DEFINE A == {i \in p..Len(s) : s[i] \notin set} \cup {Len(s) + 1}
<1>1. A \in SUBSET Nat /\ q \in A  OBVIOUS
<1>2. Min(A) \in A /\ Min(A) <= q
  <2>. HIDE DEF A
  <2>. QED  BY <1>1, MinOfNumbers
<1>3. PICK x \in A : x = Min(A) /\ x <= q  BY <1>2
<1>4. x = q  BY <1>3
<1>. QED  BY <1>3, <1>4 DEF Skip

\* The same for Until.
LEMMA UntilIs ==
  ASSUME NEW X, NEW s \in Seq(X), NEW set, NEW p \in Nat \ {0}, NEW q \in p..Len(s), s[q] \in set,
         \A r \in p..(q - 1) : s[r] \notin set
  PROVE  Until(s, p, set) = q
<1>. DEFINE A == {i \in p..Len(s) : s[i] \in set} \cup {Len(s) + 1}
<1>1. A \in SUBSET Nat /\ q \in A  OBVIOUS
<1>2. Min(A) \in A /\ Min(A) <= q
  <2>. HIDE DEF A
  <2>. QED  BY <1>1, MinOfNumbers
<1>3. PICK x \in A : x = Min(A) /\ x <= q  BY <1>2
<1>4. x = q  BY <1>3
<1>. QED  BY <1>3, <1>4 DEF Until

\* Neither goes back.
LEMMA SkipType ==
  ASSUME NEW X, NEW s \in Seq(X), NEW set, NEW p \in Nat \ {0}
  PROVE  /\ Skip(s, p, set) \in Nat /\ Skip(s, p, set) <= Len(s) + 1
         /\ p <= Len(s) + 1 => p <= Skip(s, p, set)
         /\ Until(s, p, set) \in Nat /\ Until(s, p, set) <= Len(s) + 1
         /\ p <= Len(s) + 1 => p <= Until(s, p, set)
<1>. DEFINE A == {i \in p..Len(s) : s[i] \notin set} \cup {Len(s) + 1}
            B == {i \in p..Len(s) : s[i] \in set} \cup {Len(s) + 1}
<1>1. A \in SUBSET Nat /\ Len(s) + 1 \in A /\ B \in SUBSET Nat /\ Len(s) + 1 \in B  OBVIOUS
<1>2. Min(A) \in A /\ Min(B) \in B
  <2>. HIDE DEF A, B
  <2>. QED  BY <1>1, MinOfNumbers
<1>3. PICK x \in A, y \in B : x = Min(A) /\ y = Min(B)  BY <1>2
<1>4. Skip(s, p, set) = x /\ Until(s, p, set) = y  BY <1>3 DEF Skip, Until
<1>. QED  BY <1>4

-----------------------------------------------------------------------------
(***************************************************************************)
(* The loops of the readers.  A loop adds res[p] at position p and goes on *)
(* at nxt[p], or stops if that is 0.                                       *)
(***************************************************************************)

\* What a loop adds.
Loops(f, n, res, nxt) ==
  \A p \in 1..n : f[p] = res[p] \o (IF nxt[p] = 0 THEN <<>> ELSE f[nxt[p]])

\* A loop that only goes forward ends.
LEMMA LoopEnds ==
  ASSUME NEW X, NEW n \in Nat, NEW res \in [1..n -> Seq(X)], NEW nxt \in [1..n -> Nat],
         \A p \in 1..n : nxt[p] = 0 \/ (p < nxt[p] /\ nxt[p] <= n)
  PROVE  \E f \in [1..n -> Seq(X)] : Loops(f, n, res, nxt)
<1>. DEFINE Good(g, k) == \A p \in (n - k + 1)..n : g[p] = res[p] \o (IF nxt[p] = 0 THEN <<>> ELSE g[nxt[p]])
            T == {k \in 0..n : \E g \in [1..n -> Seq(X)] : Good(g, k)}
<1>1. 0 \in T
  <2>1. [p \in 1..n |-> <<>>] \in [1..n -> Seq(X)]  OBVIOUS
  <2>2. Good([p \in 1..n |-> <<>>], 0)  OBVIOUS
  <2>3. 0 \in 0..n  OBVIOUS
  <2>. HIDE DEF Good
  <2>. QED  BY <2>1, <2>2, <2>3
<1>2. ASSUME NEW k \in 1..n, k - 1 \in T PROVE k \in T
  <2>1. PICK g \in [1..n -> Seq(X)] : Good(g, k - 1)  BY <1>2
  <2>2. DEFINE q == n - k + 1
               tail == IF nxt[q] = 0 THEN <<>> ELSE g[nxt[q]]
               h == [g EXCEPT ![q] = res[q] \o tail]
  <2>3. q \in 1..n  OBVIOUS
  <2>4. tail \in Seq(X)
    <3>1. CASE nxt[q] = 0  BY <3>1
    <3>2. CASE nxt[q] # 0
      <4>1. nxt[q] \in 1..n  BY <2>3, <3>2
      <4>. QED  BY <3>2, <4>1
    <3>. QED  BY <3>1, <3>2
  <2>5. res[q] \o tail \in Seq(X)
    <3>1. res[q] \in Seq(X)  BY <2>3
    <3>. HIDE DEF tail, q
    <3>. QED  BY <2>4, <3>1
  <2>6. h \in [1..n -> Seq(X)]
    <3>. HIDE DEF tail, q
    <3>. QED  BY <2>3, <2>5
  <2>7. Good(h, k)
    <3>1. SUFFICES ASSUME NEW p \in q..n
                   PROVE  h[p] = res[p] \o (IF nxt[p] = 0 THEN <<>> ELSE h[nxt[p]])
      OBVIOUS
    <3>2. p \in 1..n /\ (nxt[p] = 0 \/ (nxt[p] \in 1..n /\ nxt[p] # q))  BY <2>3
    <3>3. nxt[p] # 0 => h[nxt[p]] = g[nxt[p]]
      <4>. HIDE DEF q, tail
      <4>. QED  BY <2>3, <3>2
    <3>4. CASE p = q
      <4>1. h[q] = res[q] \o tail
        <5>. HIDE DEF q, tail
        <5>. QED  BY <2>3
      <4>. HIDE DEF q, h
      <4>. QED  BY <3>3, <3>4, <4>1
    <3>5. CASE p # q
      <4>1. p \in (n - (k - 1) + 1)..n  BY <3>5
      <4>2. g[p] = res[p] \o (IF nxt[p] = 0 THEN <<>> ELSE g[nxt[p]])  BY <2>1, <4>1
      <4>3. h[p] = g[p]
        <5>. HIDE DEF q, tail
        <5>. QED  BY <2>3, <3>2, <3>5
      <4>. HIDE DEF q, h
      <4>. QED  BY <3>3, <4>2, <4>3
    <3>. QED  BY <3>4, <3>5
  <2>8. k \in 0..n  OBVIOUS
  <2>. HIDE DEF h, Good
  <2>. QED  BY <2>6, <2>7, <2>8
<1>3. n \in T
  <2>1. T \in SUBSET (0..n)  OBVIOUS
  <2>. HIDE DEF T
  <2>. QED  BY <1>1, <1>2, <2>1, StepInduction
<1>4. PICK f \in [1..n -> Seq(X)] : Good(f, n)  BY <1>3
<1>5. Loops(f, n, res, nxt)  BY <1>4 DEF Loops
<1>. HIDE DEF Good, T
<1>. QED  BY <1>5

\* FlattenSeq appends one sequence after the other.
Appended(f, n, seqs) ==
  /\ f[0] = <<>>
  /\ \A k \in 1..n : f[k] = f[k - 1] \o seqs[k]
  /\ FlattenSeq(seqs) = f[n]

\* FlattenSeq appends the sequences one after the other.
LEMMA FlattenFold ==
  ASSUME NEW X, NEW n \in Nat, NEW seqs \in [1..n -> Seq(X)]
  PROVE  \E f \in [0..n -> Seq(X)] : Appended(f, n, seqs)
<1>. DEFINE Good(g, k) == g[0] = <<>> /\ \A p \in 1..k : g[p] = g[p - 1] \o seqs[p]
            T == {k \in 0..n : \E g \in [0..n -> Seq(X)] : Good(g, k)}
            Eq(h) == h = [i \in 1..Len(seqs) |-> IF i = 1 THEN seqs[i] ELSE h[i - 1] \o seqs[i]]
            H == CHOOSE h : Eq(h)
<1>1. 0 \in T
  <2>1. [p \in 0..n |-> <<>>] \in [0..n -> Seq(X)]  OBVIOUS
  <2>2. Good([p \in 0..n |-> <<>>], 0)  OBVIOUS
  <2>3. 0 \in 0..n  OBVIOUS
  <2>. HIDE DEF Good
  <2>. QED  BY <2>1, <2>2, <2>3
<1>2. ASSUME NEW k \in 1..n, k - 1 \in T PROVE k \in T
  <2>1. PICK g \in [0..n -> Seq(X)] : Good(g, k - 1)  BY <1>2
  <2>2. DEFINE h == [g EXCEPT ![k] = g[k - 1] \o seqs[k]]
  <2>3. g[k - 1] \in Seq(X) /\ seqs[k] \in Seq(X) /\ k \in 0..n /\ k # 0  OBVIOUS
  <2>4. g[k - 1] \o seqs[k] \in Seq(X)  BY <2>3
  <2>. DEFINE more == g[k - 1] \o seqs[k]
  <2>5. h = [g EXCEPT ![k] = more] /\ more \in Seq(X)  BY <2>4
  <2>6. h \in [0..n -> Seq(X)] /\ h[k] = more /\ \A p \in 0..(k - 1) : h[p] = g[p]
    <3>. HIDE DEF h, more
    <3>. QED  BY <2>3, <2>5
  <2>8. 0 \in 0..(k - 1) /\ \A p \in 1..(k - 1) : p \in 0..(k - 1) /\ g[p] = g[p - 1] \o seqs[p]
    <3>1. 0 \in 0..(k - 1) /\ \A p \in 1..(k - 1) : p \in 0..(k - 1)  BY ONLY k \in 1..n, n \in Nat
    <3>2. \A p \in 1..(k - 1) : g[p] = g[p - 1] \o seqs[p]  BY <2>1, Zenon
    <3>. QED  BY ONLY <3>1, <3>2
  <2>7. Good(h, k)
    <3>. HIDE DEF h
    <3>1. h[0] = <<>>  BY <2>1, <2>6, <2>8
    <3>2. ASSUME NEW p \in 1..k PROVE h[p] = h[p - 1] \o seqs[p]
      <4>1. h[p - 1] = g[p - 1]  BY <2>6
      <4>2. CASE p = k  BY <2>6, <4>1, <4>2
      <4>3. CASE p # k
        <5>1. p \in 1..(k - 1)  BY <4>3
        <5>2. h[p] = g[p] /\ g[p] = g[p - 1] \o seqs[p]  BY <2>6, <2>8, <5>1
        <5>. QED  BY <4>1, <5>2
      <4>. QED  BY <4>2, <4>3
    <3>. QED  BY <3>1, <3>2
  <2>. HIDE DEF h, Good
  <2>. QED  BY <2>3, <2>6, <2>7
<1>3. n \in T
  <2>1. T \in SUBSET (0..n)  OBVIOUS
  <2>. HIDE DEF T
  <2>. QED  BY <1>1, <1>2, <2>1, StepInduction
<1>4. PICK f \in [0..n -> Seq(X)] : Good(f, n)
  <2>. HIDE DEF Good
  <2>. QED  BY <1>3
<1>5. Len(seqs) = n  OBVIOUS
<1>6. CASE n = 0
  <2>1. FlattenSeq(seqs) = seqs /\ seqs = <<>>  BY <1>5, <1>6 DEF FlattenSeq
  <2>. QED  BY <1>4, <1>6, <2>1 DEF Appended
<1>7. CASE n # 0
  <2>1. f[1] = seqs[1]
    <3>1. 1 \in 1..n /\ seqs[1] \in Seq(X) /\ 1 - 1 = 0  BY <1>7
    <3>2. f[1] = f[1 - 1] \o seqs[1]  BY <1>4, <3>1
    <3>3. f[1] = <<>> \o seqs[1]  BY ONLY <1>4, <3>1, <3>2
    <3>. QED  BY <3>1, <3>3
  <2>2. \E x : Eq(x)
    <3>. DEFINE r == [i \in 1..n |-> f[i]]
    <3>1. ASSUME NEW i \in 1..n PROVE r[i] = IF i = 1 THEN seqs[i] ELSE r[i - 1] \o seqs[i]
      <4>1. CASE i = 1  BY <2>1, <4>1
      <4>2. CASE i # 1
        <5>1. i - 1 \in 1..n  BY <4>2
        <5>. QED  BY <1>4, <4>2, <5>1
      <4>. QED  BY <4>1, <4>2
    <3>2. Eq(r)  BY <1>5, <3>1
    <3>. HIDE DEF Eq, r
    <3>. QED  BY <3>2
  <2>3. Eq(H)
    <3>. HIDE DEF Eq
    <3>. QED  BY <2>2
  <2>4. FlattenSeq(seqs) = H[n]
    <3>1. FlattenSeq(seqs) = H[Len(seqs)]  BY <1>5, <1>7, Zenon DEF FlattenSeq
    <3>. QED  BY <1>5, <3>1
  <2>. DEFINE U == {k \in 0..n : k = 0 \/ H[k] = f[k]}
  <2>. HIDE DEF H
  <2>5. ASSUME NEW k \in 1..n, k - 1 \in U PROVE k \in U
    <3>1. CASE k = 1
      <4>1. H[1] = seqs[1]  BY <1>5, <1>7, <2>3
      <4>. QED  BY <2>1, <3>1, <4>1
    <3>2. CASE k # 1
      <4>1. H[k] = H[k - 1] \o seqs[k]  BY <1>5, <2>3, <3>2
      <4>2. H[k - 1] = f[k - 1]  BY <2>5, <3>2
      <4>3. H[k] = f[k]  BY <1>4, <4>1, <4>2
      <4>. QED  BY <4>3
    <3>. QED  BY <3>1, <3>2
  <2>6. n \in U
    <3>1. U \in SUBSET (0..n)  OBVIOUS
    <3>2. 0 \in U  OBVIOUS
    <3>. HIDE DEF U
    <3>3. U = 0..n  BY ONLY <2>5, <3>1, <3>2, StepInduction, n \in Nat
    <3>. QED  BY <3>3
  <2>7. FlattenSeq(seqs) = f[n]  BY <1>7, <2>4, <2>6
  <2>8. Appended(f, n, seqs)  BY <1>4, <2>7 DEF Appended
  <2>. HIDE DEF Good, T, H
  <2>. QED  BY <2>8
<1>. QED  BY <1>6, <1>7

-----------------------------------------------------------------------------
(***************************************************************************)
(* An entry in a text.                                                     *)
(***************************************************************************)
Entries == [key : Keys, value : Values]

KeyLen(e) == Len(KeyText[e.key])
ValueLen(e) == Len(Written(e.value))
Size(e) == KeyLen(e) + 4 + ValueLen(e)

\* The entry e is written in s from p on.
Stands(s, p, e) ==
  /\ s[p] = Quote
  /\ \A j \in 1..KeyLen(e) : s[p + j] = KeyText[e.key][j]
  /\ s[p + KeyLen(e) + 1] = Quote
  /\ s[p + KeyLen(e) + 2] = ":"
  /\ s[p + KeyLen(e) + 3] = " "
  /\ \A j \in 1..ValueLen(e) : s[p + KeyLen(e) + 3 + j] = Written(e.value)[j]

\* The text t of length m is the part of s from p to q.
Within(s, t, m, p, q) ==
  /\ s \in Seq(Chars) /\ t \in Seq(Chars) /\ m \in Nat /\ m = Len(t)
  /\ p \in Nat /\ 1 <= p /\ q \in Nat /\ q = p + m /\ q <= Len(s) + 1
  /\ \A j \in 1..m : s[p + j - 1] = t[j]

\* A part of a text, by its characters.
LEMMA PartIs ==
  ASSUME NEW s, NEW t, NEW m, NEW p, NEW q, Within(s, t, m, p, q)
  PROVE  Part(s, p, q) = t
<1>. s \in Seq(Chars) /\ t \in Seq(Chars) /\ m \in Nat /\ p \in Nat /\ q \in Nat  BY DEF Within
<1>. m = Len(t) /\ 1 <= p /\ q = p + m /\ q <= Len(s) + 1 /\ \A j \in 1..m : s[p + j - 1] = t[j]  BY DEF Within
<1>. DEFINE u == SubSeq(s, p, q - 1)
<1>1. u \in Seq(Chars) /\ Len(u) = m  OBVIOUS
<1>2. ASSUME NEW j \in 1..m PROVE u[j] = t[j]
  <2>1. u[j] = s[p + j - 1]  OBVIOUS
  <2>. QED  BY <2>1
<1>3. u = t
  <2>. HIDE DEF u
  <2>1. Len(u) = Len(t) /\ \A j \in 1..Len(t) : u[j] = t[j]  BY <1>1, <1>2
  <2>. QED  BY ONLY <1>1, <2>1, t \in Seq(Chars)
<1>. QED  BY <1>3 DEF Part

\* The characters of keys and values.
LEMMA EntryTexts ==
  ASSUME PropertyAssumption, NEW e \in Entries
  PROVE  /\ KeyText[e.key] \in Seq(Chars) /\ KeyLen(e) \in Nat
         /\ \A j \in 1..KeyLen(e) : KeyText[e.key][j] \notin Punctuation
         /\ e.value.ref \in Seq(Chars)
         /\ Written(e.value) \in Seq(Chars) /\ ValueLen(e) \in Nat
         /\ e.value.is_string =>
              /\ ValueLen(e) = Len(e.value.ref) + 2
              /\ Written(e.value)[1] = Quote /\ Written(e.value)[ValueLen(e)] = Quote
              /\ \A j \in 1..Len(e.value.ref) :
                   Written(e.value)[j + 1] = e.value.ref[j] /\ e.value.ref[j] # Quote
         /\ ~e.value.is_string =>
              /\ Written(e.value) = e.value.ref
              /\ \A j \in 1..ValueLen(e) : e.value.ref[j] \notin Punctuation
<1>. DEFINE v == e.value
            k == e.key
<1>1. k \in Keys /\ v \in Values  BY DEF Entries
<1>2. KeyText[k] \in Seq(Chars \ Punctuation)  BY <1>1 DEF PropertyAssumption
<1>3. KeyText[k] \in Seq(Chars) /\ KeyLen(e) \in Nat /\ \A j \in 1..KeyLen(e) : KeyText[k][j] \notin Punctuation
  BY <1>2 DEF KeyLen
<1>4. Quote \in Chars  BY DEF PropertyAssumption, Punctuation
<1>5. CASE v.is_string
  <2>1. v.ref \in Seq(Chars \ {Quote})  BY <1>1, <1>5 DEF PropertyAssumption
  <2>2. v.ref \in Seq(Chars) /\ \A j \in 1..Len(v.ref) : v.ref[j] # Quote  BY <2>1
  <2>3. Written(v) = <<Quote>> \o v.ref \o <<Quote>>  BY <1>5 DEF Written
  <2>. DEFINE r == v.ref
              w == <<Quote>> \o r \o <<Quote>>
  <2>4. r \in Seq(Chars)  BY <2>2
  <2>. HIDE DEF r
  <2>5. w \in Seq(Chars) /\ Len(w) = Len(r) + 2 /\ w[1] = Quote /\ w[Len(r) + 2] = Quote
        /\ \A j \in 1..Len(r) : w[j + 1] = r[j]
    BY <1>4, <2>4
  <2>6. v.ref = r /\ Written(v) = w /\ ValueLen(e) = Len(w) /\ Len(r) \in Nat  BY <2>3, <2>4 DEF ValueLen, r
  <2>7. \A j \in 1..Len(r) : r[j] # Quote  BY <2>2, <2>6
  <2>. HIDE DEF w, v
  <2>8. /\ ValueLen(e) = Len(r) + 2 /\ Written(v) \in Seq(Chars) /\ ValueLen(e) \in Nat
        /\ Written(v)[1] = Quote /\ Written(v)[ValueLen(e)] = Quote
        /\ \A j \in 1..Len(r) : Written(v)[j + 1] = r[j] /\ r[j] # Quote
    BY <2>5, <2>6, <2>7
  <2>. QED  BY <1>3, <1>5, <2>2, <2>6, <2>8 DEF v
<1>6. CASE ~v.is_string
  <2>1. v.ref \in Seq(Chars \ Punctuation)  BY <1>1, <1>6 DEF PropertyAssumption
  <2>2. v.ref \in Seq(Chars) /\ \A j \in 1..Len(v.ref) : v.ref[j] \notin Punctuation  BY <2>1
  <2>3. Written(v) = v.ref  BY <1>6 DEF Written
  <2>. QED  BY <1>3, <1>6, <2>2, <2>3 DEF ValueLen
<1>. QED  BY <1>5, <1>6

\* An entry stands whole in a text, with a comma or the last brace behind it.
Placed(s, p, e) ==
  /\ s \in Seq(Chars) /\ p \in Nat /\ 1 <= p /\ e \in Entries
  /\ p + Size(e) <= Len(s)
  /\ Stands(s, p, e)
  /\ s[p + Size(e)] \in {",", "}"}

\* The characters of an entry, as the scanners tell them apart: its value is in V..W-1.
Shape(s, p, V, W, is_string) ==
  /\ s \in Seq(Chars)
  /\ p \in Nat /\ 1 <= p /\ V \in Nat /\ W \in Nat /\ p + 4 <= V /\ V <= W /\ W <= Len(s)
  /\ s[p] = Quote
  /\ \A r \in (p + 1)..(V - 4) : s[r] \notin Punctuation
  /\ s[V - 3] = Quote /\ s[V - 2] = ":" /\ s[V - 1] = " "
  /\ s[W] \in {",", "}"}
  /\ is_string =>
       /\ V + 2 <= W /\ s[V] = Quote /\ s[W - 1] = Quote
       /\ \A r \in (V + 1)..(W - 2) : s[r] # Quote
  /\ ~is_string => \A r \in V..(W - 1) : s[r] \notin Punctuation

\* An entry that stands in a text has that shape.
LEMMA EntryShape ==
  ASSUME PropertyAssumption, NEW s, NEW p, NEW e, Placed(s, p, e),
         NEW V \in Nat, V = p + KeyLen(e) + 4, NEW W \in Nat, W = p + Size(e)
  PROVE  Shape(s, p, V, W, e.value.is_string)
<1>1. e \in Entries /\ p \in Nat /\ 1 <= p /\ W <= Len(s) /\ Stands(s, p, e) /\ s[W] \in {",", "}"}
  BY DEF Placed
<1>0. p \in Nat /\ 1 <= p  BY DEF Placed
<1>2. PICK K \in Nat, L \in Nat : K = KeyLen(e) /\ L = ValueLen(e)  BY <1>1, EntryTexts
<1>3. V = p + K + 4 /\ W = V + L
  <2>1. Size(e) = K + 4 + L  BY <1>2 DEF Size
  <2>2. V = p + K + 4 /\ W = p + (K + 4 + L)  BY <1>2, <2>1
  <2>. QED  BY ONLY <1>0, <2>2, K \in Nat, L \in Nat, V \in Nat, W \in Nat
<1>4. V \in Nat /\ W \in Nat /\ p + 4 <= V /\ V <= W /\ V - 3 = p + K + 1 /\ V - 2 = p + K + 2 /\ V - 1 = p + K + 3
  BY ONLY <1>0, <1>3, V \in Nat, W \in Nat, K \in Nat, L \in Nat
<1>5. s[p] = Quote /\ s[V - 3] = Quote /\ s[V - 2] = ":" /\ s[V - 1] = " "
  BY <1>1, <1>2, <1>4 DEF Stands
<1>6. ASSUME NEW r \in (p + 1)..(V - 4) PROVE s[r] \notin Punctuation
  <2>1. r - p \in 1..K /\ p + (r - p) = r  BY ONLY <1>0, <1>3, <1>4, V \in Nat, W \in Nat, r \in (p + 1)..(V - 4), K \in Nat
  <2>2. s[p + (r - p)] = KeyText[e.key][r - p]  BY <1>1, <1>2, <2>1 DEF Stands
  <2>3. KeyText[e.key][r - p] \notin Punctuation  BY <1>1, <1>2, <2>1, EntryTexts
  <2>. QED  BY <2>1, <2>2, <2>3
<1>7. ASSUME NEW r \in V..(W - 1) PROVE s[r] = Written(e.value)[r - V + 1] /\ r - V + 1 \in 1..L
  <2>1. r - V + 1 \in 1..L /\ p + K + 3 + (r - V + 1) = r  BY ONLY <1>0, <1>3, <1>4, V \in Nat, W \in Nat, r \in V..(W - 1), K \in Nat, L \in Nat
  <2>2. s[p + K + 3 + (r - V + 1)] = Written(e.value)[r - V + 1]  BY <1>1, <1>2, <2>1 DEF Stands
  <2>. QED  BY <2>1, <2>2
<1>8. ASSUME e.value.is_string
      PROVE  /\ V + 2 <= W /\ s[V] = Quote /\ s[W - 1] = Quote
             /\ \A r \in (V + 1)..(W - 2) : s[r] # Quote
  <2>1. PICK M \in Nat : M = Len(e.value.ref)
    <3>1. e.value.ref \in Seq(Chars)  BY <1>1, EntryTexts
    <3>. QED  BY <3>1
  <2>2. /\ L = M + 2
        /\ Written(e.value)[1] = Quote /\ Written(e.value)[L] = Quote
        /\ \A j \in 1..M : Written(e.value)[j + 1] # Quote
    <3>1. /\ ValueLen(e) = Len(e.value.ref) + 2
          /\ Written(e.value)[1] = Quote /\ Written(e.value)[ValueLen(e)] = Quote
          /\ \A j \in 1..Len(e.value.ref) :
               Written(e.value)[j + 1] = e.value.ref[j] /\ e.value.ref[j] # Quote
      BY <1>1, <1>8, EntryTexts
    <3>. QED  BY ONLY <1>2, <2>1, <3>1
  <2>3. V + 2 <= W /\ V \in V..(W - 1) /\ W - 1 \in V..(W - 1) /\ V - V + 1 = 1 /\ W - 1 - V + 1 = L
    BY <1>3, <1>4, <2>2
  <2>4. s[V] = Quote /\ s[W - 1] = Quote  BY <1>7, <2>2, <2>3
  <2>5. ASSUME NEW r \in (V + 1)..(W - 2) PROVE s[r] # Quote
    <3>1. r \in V..(W - 1) /\ r - V \in 1..M /\ (r - V) + 1 = r - V + 1  BY <1>3, <1>4, <2>2
    <3>. QED  BY <1>7, <2>2, <3>1
  <2>. QED  BY <2>3, <2>4, <2>5
<1>9. ASSUME ~e.value.is_string, NEW r \in V..(W - 1) PROVE s[r] \notin Punctuation
  <2>1. Written(e.value) = e.value.ref /\ \A j \in 1..L : e.value.ref[j] \notin Punctuation
    BY <1>1, <1>2, <1>9, EntryTexts
  <2>. QED  BY <1>7, <2>1
<1>10. s \in Seq(Chars)  BY DEF Placed
<1>. QED  BY <1>1, <1>4, <1>5, <1>6, <1>8, <1>9, <1>10 DEF Shape

\* What the searches of the readers and of update_json_property find in an entry.
Scanned(s, p, V, W, is_string) ==
  /\ Find(s, Quote, p) = p
  /\ Find(s, Quote, p + 1) = V - 3
  /\ Find(s, ":", V - 2) = V - 2
  /\ Skip(s, V - 1, {" "}) = V
  /\ is_string => s[V] = Quote
  /\ ~is_string => s[V] # Quote
  /\ ReadEnd(s, V) = IF is_string THEN W - 1 ELSE W
  /\ ValueEnd(s, V) = W

\* They find its parts.
LEMMA ScanEntry ==
  ASSUME NEW s, NEW p, NEW V, NEW W, NEW str, Shape(s, p, V, W, str)
  PROVE  Scanned(s, p, V, W, str)
<1>. s \in Seq(Chars) /\ p \in Nat /\ V \in Nat /\ W \in Nat  BY DEF Shape
<1>. USE DEF Scanned
<1>0. PICK n \in Nat : n = Len(s) /\ 1 <= p /\ p + 4 <= V /\ V <= W /\ W <= n
  <2>1. Len(s) \in Nat  OBVIOUS
  <2>2. 1 <= p /\ p + 4 <= V /\ V <= W /\ W <= Len(s)  BY DEF Shape
  <2>. QED  BY <2>1, <2>2
<1>1. /\ s[p] = Quote
      /\ \A r \in (p + 1)..(V - 4) : s[r] \notin Punctuation
      /\ s[V - 3] = Quote /\ s[V - 2] = ":" /\ s[V - 1] = " "
      /\ s[W] \in {",", "}"}
  BY DEF Shape
<1>2. \A c : c \notin Punctuation => c \notin {Quote, ":", ",", " ", "}"}
  BY DEF Punctuation
<1>3. Quote \notin {":", ",", " ", "}"}  BY DEF Quote
<1>4. Find(s, Quote, p) = p
  <2>1. p \in Nat \ {0} /\ p \in p..n /\ p..(p - 1) = {}  BY <1>0
  <2>. QED  BY ONLY <1>0, <1>1, <2>1, s \in Seq(Chars), FindIs
<1>5. Find(s, Quote, p + 1) = V - 3
  <2>1. p + 1 \in Nat \ {0} /\ V - 3 \in (p + 1)..n /\ (V - 3) - 1 = V - 4  BY <1>0
  <2>2. \A r \in (p + 1)..((V - 3) - 1) : s[r] # Quote  BY <1>1, <1>2, <2>1
  <2>. HIDE DEF Quote
  <2>. QED  BY ONLY <1>0, <1>1, <2>1, <2>2, s \in Seq(Chars), FindIs
<1>6. Find(s, ":", V - 2) = V - 2
  <2>1. V - 2 \in Nat \ {0} /\ V - 2 \in (V - 2)..n /\ (V - 2)..((V - 2) - 1) = {}
    BY <1>0
  <2>. QED  BY ONLY <1>0, <1>1, <2>1, s \in Seq(Chars), FindIs
<1>7. str => V + 2 <= W /\ s[V] = Quote /\ s[W - 1] = Quote /\ \A r \in (V + 1)..(W - 2) : s[r] # Quote
  BY DEF Shape
<1>8. ~str => \A r \in V..(W - 1) : s[r] \notin Punctuation
  BY DEF Shape
<1>9. (str => s[V] = Quote) /\ (~str => s[V] # Quote) /\ s[V] # " "
  <2>1. CASE str  BY <1>3, <1>7, <2>1
  <2>2. CASE ~str /\ V = W  BY <1>1, <1>3, <2>2
  <2>3. CASE ~str /\ V # W
    <3>1. V \in V..(W - 1)  BY <1>0, <2>3
    <3>. QED  BY <1>2, <1>8, <2>3, <3>1
  <2>. QED  BY <2>1, <2>2, <2>3
<1>10. Skip(s, V - 1, {" "}) = V
  <2>1. V - 1 \in Nat \ {0} /\ V \in (V - 1)..n /\ (V - 1)..(V - 1) = {V - 1}
    BY <1>0
  <2>2. s[V] \notin {" "}  BY <1>9
  <2>. QED  BY ONLY <1>0, <1>1, <2>1, <2>2, s \in Seq(Chars), SkipIs
<1>11. V \in DOMAIN s  BY <1>0
<1>12. CASE str
  <2>. V + 2 <= W  BY <1>7, <1>12
  <2>1. V + 1 \in Nat \ {0} /\ W - 1 \in (V + 1)..n /\ (W - 1) - 1 = W - 2
    BY <1>0, V + 2 <= W
  <2>2. \A r \in (V + 1)..((W - 1) - 1) : s[r] # Quote  BY <1>7, <1>12, <2>1
  <2>3. s[W - 1] = Quote  BY <1>7, <1>12
  <2>4. Find(s, Quote, V + 1) = W - 1  BY ONLY <1>0, <2>1, <2>2, <2>3, s \in Seq(Chars), FindIs
  <2>5. W - 1 + 1 = W  OBVIOUS
  <2>. QED  BY <1>4, <1>5, <1>6, <1>9, <1>10, <1>11, <1>12, <2>4, <2>5 DEF ReadEnd, ValueEnd
<1>13. CASE ~str
  <2>1. V \in Nat \ {0} /\ W \in V..n  BY <1>0
  <2>2. s[W] \in {",", "}", " "} /\ \A r \in V..(W - 1) : s[r] \notin {",", "}", " "}  BY <1>1, <1>2, <1>8, <1>13
  <2>3. s[W] \in {",", "}"} /\ \A r \in V..(W - 1) : s[r] \notin {",", "}"}  BY <1>1, <1>2, <1>8, <1>13
  <2>4. Until(s, V, {",", "}", " "}) = W  BY ONLY <1>0, <2>1, <2>2, s \in Seq(Chars), UntilIs
  <2>5. Until(s, V, {",", "}"}) = W  BY ONLY <1>0, <2>1, <2>3, s \in Seq(Chars), UntilIs
  <2>. QED  BY <1>4, <1>5, <1>6, <1>9, <1>10, <1>13, <2>4, <2>5 DEF ReadEnd, ValueEnd
<1>. QED  BY <1>12, <1>13

\* The text t of length n stands quoted in s at i; neither it nor key holds a quote.
QuotedText(s, i, t, n, key) ==
  /\ s \in Seq(Chars) /\ i \in Nat /\ 1 <= i /\ t \in Seq(Chars) /\ n = Len(t) /\ n \in Nat
  /\ i + n + 1 <= Len(s) /\ s[i] = Quote /\ s[i + n + 1] = Quote
  /\ \A j \in 1..n : s[i + j] = t[j] /\ t[j] # Quote
  /\ key \in Seq(Chars) /\ \A j \in 1..Len(key) : key[j] # Quote

\* It is the quoted key exactly if it is the key.
LEMMA QuotedIs ==
  ASSUME NEW s, NEW i, NEW t, NEW c, NEW key, QuotedText(s, i, t, c, key)
  PROVE  QuotedAt(s, i, key) <=> key = t
<1>. s \in Seq(Chars) /\ i \in Nat /\ t \in Seq(Chars) /\ key \in Seq(Chars)  BY DEF QuotedText
<1>. /\ 1 <= i /\ i + Len(t) + 1 <= Len(s) /\ s[i] = Quote /\ s[i + Len(t) + 1] = Quote
     /\ \A j \in 1..Len(t) : s[i + j] = t[j] /\ t[j] # Quote
     /\ \A j \in 1..Len(key) : key[j] # Quote
  BY Zenon DEF QuotedText
<1>1. Len(t) \in Nat /\ Len(key) \in Nat /\ Len(s) \in Nat  OBVIOUS
<1>2. ASSUME key = t PROVE QuotedAt(s, i, key)
  <2>1. Part(s, i + 1, (i + 1) + Len(t)) = t
    <3>1. i + 1 \in Nat /\ 1 <= i + 1 /\ (i + 1) + Len(t) \in Nat /\ (i + 1) + Len(t) <= Len(s) + 1
      BY ONLY <1>1, i \in Nat, i + Len(t) + 1 <= Len(s)
    <3>2. \A j \in 1..Len(t) : s[(i + 1) + j - 1] = t[j]
      <4>1. \A j \in 1..Len(t) : (i + 1) + j - 1 = i + j  BY <1>1
      <4>. QED  BY <4>1
    <3>3. Within(s, t, Len(t), i + 1, (i + 1) + Len(t))
      BY ONLY <1>1, <3>1, <3>2, s \in Seq(Chars), t \in Seq(Chars), Zenon DEF Within
    <3>. QED  BY ONLY <3>3, PartIs, Zenon
  <2>2. (i + 1) + Len(t) = i + Len(t) + 1  BY <1>1
  <2>. QED  BY <1>2, <2>1, <2>2 DEF QuotedAt
<1>3. ASSUME QuotedAt(s, i, key) PROVE key = t
  <2>1. PICK m \in Nat : m = Len(key)  BY <1>1
  <2>2. /\ i + m + 1 <= Len(s) /\ s[i + m + 1] = Quote
        /\ SubSeq(s, i + 1, i + m + 1 - 1) = key
    BY <1>3, <2>1 DEF QuotedAt, Part
  <2>3. ASSUME NEW j \in 1..m PROVE s[i + j] = key[j]
    <3>0. i + m + 1 <= Len(s)  BY <2>2
    <3>1. SubSeq(s, i + 1, i + m + 1 - 1)[j] = s[i + j]
      BY ONLY <3>0, s \in Seq(Chars), i \in Nat, 1 <= i, m \in Nat, j \in 1..m
    <3>. QED  BY <2>2, <3>1
  <2>4. PICK n \in Nat : n = Len(t)  BY <1>1
  <2>5. m = n
    <3>1. CASE m < n
      <4>1. m + 1 \in 1..n /\ i + (m + 1) = i + m + 1  BY <3>1
      <4>. QED  BY <2>2, <2>4, <4>1
    <3>2. CASE n < m
      <4>1. n + 1 \in 1..m /\ i + (n + 1) = i + n + 1  BY <3>2
      <4>. QED  BY <2>1, <2>3, <2>4, <4>1
    <3>. QED  BY <3>1, <3>2
  <2>6. \A j \in 1..m : key[j] = t[j]  BY <2>3, <2>4, <2>5
  <2>7. Len(key) = Len(t) /\ \A j \in 1..Len(t) : key[j] = t[j]  BY <2>1, <2>4, <2>5, <2>6
  <2>. QED  BY ONLY <2>7, key \in Seq(Chars), t \in Seq(Chars)
<1>. QED  BY <1>2, <1>3

-----------------------------------------------------------------------------
(***************************************************************************)
(* A text as a list of entries.                                            *)
(***************************************************************************)

\* at[i] is where entry i starts; two characters separate the entries.
Starts(es, at) ==
  /\ es \in Seq(Entries)
  /\ at \in [1..(Len(es) + 1) -> Nat]
  /\ at[1] = 2
  /\ \A i \in 1..Len(es) : at[i + 1] = at[i] + Size(es[i]) + 2

\* The text s lays out the entries.
Laid(s, es, at) ==
  /\ s \in Seq(Chars) /\ Starts(es, at)
  /\ s[1] = "{" /\ s[Len(s)] = "}"
  /\ Len(s) = IF Len(es) = 0 THEN 2 ELSE at[Len(es) + 1] - 2
  /\ \A i \in 1..Len(es) : Stands(s, at[i], es[i])
  /\ \A i \in 1..Len(es) : i # Len(es) => s[at[i + 1] - 2] = "," /\ s[at[i + 1] - 1] = " "

\* Where entries start: in their order, and together they cover the text.
LEMMA StartsInOrder ==
  ASSUME PropertyAssumption, NEW es, NEW at, Starts(es, at), NEW n \in Nat, n = Len(es)
  PROVE  /\ \A i \in 1..(n + 1) : at[i] \in Nat /\ 2 <= at[i]
         /\ \A i \in 1..n : Size(es[i]) \in Nat /\ 4 <= Size(es[i])
         /\ \A i, j \in 1..(n + 1) : i < j => at[i] + Size(es[i]) + 2 <= at[j]
         /\ \A p \in 2..(at[n + 1] - 1) : \E i \in 1..n : at[i] <= p /\ p < at[i + 1]
<1>1. /\ es \in Seq(Entries) /\ at \in [1..(n + 1) -> Nat] /\ at[1] = 2
      /\ \A i \in 1..n : at[i + 1] = at[i] + Size(es[i]) + 2
  BY DEF Starts
<1>2. ASSUME NEW i \in 1..n PROVE Size(es[i]) \in Nat /\ 4 <= Size(es[i])
  <2>1. es[i] \in Entries  BY <1>1
  <2>2. KeyLen(es[i]) \in Nat /\ ValueLen(es[i]) \in Nat  BY <2>1, EntryTexts
  <2>. QED  BY <2>2 DEF Size
<1>3. \A i \in 1..n : at[i] \in Nat /\ at[i + 1] \in Nat  BY <1>1
<1>. DEFINE T == {k \in 0..n : /\ 2 <= at[k + 1]
                               /\ \A i \in 1..k : at[i] + Size(es[i]) + 2 <= at[k + 1]
                               /\ \A p \in 2..(at[k + 1] - 1) : \E i \in 1..k : at[i] <= p /\ p < at[i + 1]}
<1>4. 0 \in T
  <2>1. 0 + 1 = 1 /\ 0 \in 0..n  OBVIOUS
  <2>. QED  BY <1>1, <2>1
<1>5. ASSUME NEW k \in 1..n, k - 1 \in T PROVE k \in T
  <2>1. PICK a \in Nat, b \in Nat, z \in Nat : a = at[k] /\ b = at[k + 1] /\ z = Size(es[k])  BY <1>2, <1>3
  <2>2. b = a + z + 2  BY <1>1, <2>1
  <2>3. k - 1 + 1 = k  OBVIOUS
  <2>4. /\ 2 <= a
        /\ \A i \in 1..(k - 1) : at[i] + Size(es[i]) + 2 <= a
        /\ \A p \in 2..(a - 1) : \E i \in 1..(k - 1) : at[i] <= p /\ p < at[i + 1]
    BY <1>5, <2>1, <2>3
  <2>5. ASSUME NEW i \in 1..k PROVE at[i] + Size(es[i]) + 2 <= b
    <3>1. i \in 1..n  OBVIOUS
    <3>2. PICK c \in Nat, y \in Nat : c = at[i] /\ y = Size(es[i])  BY <1>2, <1>3, <3>1
    <3>3. CASE i = k  BY <2>1, <2>2, <3>3
    <3>4. CASE i # k
      <4>1. i \in 1..(k - 1)  BY <3>4
      <4>2. c + y + 2 <= a  BY <2>4, <3>2, <4>1
      <4>. QED  BY <2>2, <3>2, <4>2
    <3>. QED  BY <3>3, <3>4
  <2>6. ASSUME NEW p \in 2..(b - 1) PROVE \E i \in 1..k : at[i] <= p /\ p < at[i + 1]
    <3>1. CASE p < a
      <4>1. p \in 2..(a - 1)  BY <3>1
      <4>2. PICK i \in 1..(k - 1) : at[i] <= p /\ p < at[i + 1]  BY <2>4, <4>1
      <4>3. i \in 1..k  OBVIOUS
      <4>. QED  BY <4>2, <4>3
    <3>2. CASE a <= p
      <4>1. k \in 1..k /\ p < b  OBVIOUS
      <4>. QED  BY <2>1, <3>2, <4>1
    <3>. QED  BY <3>1, <3>2
  <2>7. 2 <= b /\ k \in 0..n  BY <2>2, <2>4
  <2>. QED  BY <2>1, <2>5, <2>6, <2>7
<1>6. T = 0..n
  <2>1. T \in SUBSET (0..n)  OBVIOUS
  <2>. HIDE DEF T
  <2>. QED  BY ONLY <1>4, <1>5, <2>1, StepInduction, n \in Nat
<1>7. \A i \in 1..(n + 1) : at[i] \in Nat /\ 2 <= at[i]
  <2>1. ASSUME NEW i \in 1..(n + 1) PROVE at[i] \in Nat /\ 2 <= at[i]
    <3>1. i - 1 \in 0..n /\ i - 1 + 1 = i  OBVIOUS
    <3>. QED  BY <1>1, <1>6, <3>1
  <2>. QED  BY <2>1
<1>8. \A i, j \in 1..(n + 1) : i < j => at[i] + Size(es[i]) + 2 <= at[j]
  <2>1. ASSUME NEW i \in 1..(n + 1), NEW j \in 1..(n + 1), i < j PROVE at[i] + Size(es[i]) + 2 <= at[j]
    <3>1. j - 1 \in 0..n /\ j - 1 + 1 = j /\ i \in 1..(j - 1)  BY <2>1
    <3>. QED  BY <1>6, <3>1
  <2>. QED  BY <2>1
<1>9. \A p \in 2..(at[n + 1] - 1) : \E i \in 1..n : at[i] <= p /\ p < at[i + 1]
  <2>1. n \in T  BY <1>6
  <2>. QED  BY <2>1
<1>. QED  BY <1>2, <1>7, <1>8, <1>9

\* Entry i of a layout: where its value is, and what is behind it.
Stand(s, es, at, i, V, W) ==
  /\ at[i] \in Nat /\ V = at[i] + KeyLen(es[i]) + 4 /\ W = at[i] + Size(es[i]) /\ W <= Len(s)
  /\ Shape(s, at[i], V, W, es[i].value.is_string)
  /\ Placed(s, at[i], es[i])
  /\ at[i + 1] = W + 2
  /\ i < Len(es) => s[W] = "," /\ s[W + 1] = " " /\ s[W + 2] = Quote /\ W + 2 <= Len(s)
  /\ i = Len(es) => W = Len(s) /\ s[W] = "}"

\* Every entry of a layout stands.
LEMMA EveryEntryStands ==
  ASSUME PropertyAssumption, NEW s, NEW es, NEW at, Laid(s, es, at), NEW i \in 1..Len(es)
  PROVE  \E V, W \in Nat : Stand(s, es, at, i, V, W)
<1>1. Starts(es, at) /\ es \in Seq(Entries) /\ s \in Seq(Chars)  BY DEF Laid, Starts
<1>2. PICK n \in Nat, l \in Nat : n = Len(es) /\ l = Len(s)  BY <1>1
<1>3. /\ \A j \in 1..(n + 1) : at[j] \in Nat /\ 2 <= at[j]
      /\ \A j \in 1..n : Size(es[j]) \in Nat /\ 4 <= Size(es[j])
      /\ \A j, k \in 1..(n + 1) : j < k => at[j] + Size(es[j]) + 2 <= at[k]
  BY <1>1, <1>2, StartsInOrder
<1>4. es[i] \in Entries /\ i \in 1..n  BY <1>1, <1>2
<1>5. PICK K \in Nat, L \in Nat : K = KeyLen(es[i]) /\ L = ValueLen(es[i])  BY <1>4, EntryTexts
<1>6. i \in 1..(n + 1) /\ n + 1 \in 1..(n + 1) /\ i + 1 \in 1..(n + 1) /\ n # 0 /\ i # 0  BY <1>4
<1>7. PICK a \in Nat, b \in Nat, c \in Nat : a = at[i] /\ b = at[i + 1] /\ c = at[n + 1]  BY <1>3, <1>6
<1>8. PICK V \in Nat, W \in Nat : V = a + K + 4 /\ W = a + K + 4 + L  OBVIOUS
<1>9. Size(es[i]) = K + 4 + L /\ W = a + Size(es[i])
  <2>1. Size(es[i]) = K + 4 + L  BY <1>5 DEF Size
  <2>. QED  BY <1>8, <2>1
<1>10. b = W + 2 /\ l = c - 2
  <2>1. at[i + 1] = at[i] + Size(es[i]) + 2  BY <1>1, <1>2, <1>4 DEF Starts
  <2>2. b = a + (K + 4 + L) + 2  BY <1>7, <1>9, <2>1
  <2>3. Len(s) = at[n + 1] - 2  BY <1>2, <1>6 DEF Laid
  <2>4. l = c - 2  BY <1>2, <1>7, <2>3
  <2>. QED  BY <1>8, <2>2, <2>4
<1>11. ASSUME i < n PROVE s[W] = "," /\ s[W + 1] = " " /\ s[W + 2] = Quote /\ W + 2 <= l
  <2>0. i # Len(es)  BY <1>2, <1>4, <1>11
  <2>1. s[at[i + 1] - 2] = "," /\ s[at[i + 1] - 1] = " "  BY <2>0, Zenon DEF Laid
  <2>2. i + 1 \in 1..n  BY <1>4, <1>11
  <2>3. Stands(s, at[i + 1], es[i + 1])  BY <1>2, <2>2 DEF Laid
  <2>4. s[b] = Quote  BY <1>7, <2>3 DEF Stands
  <2>5. b - 2 = W /\ b - 1 = W + 1  BY <1>10
  <2>6. PICK z \in Nat : z = Size(es[i + 1]) /\ 4 <= z /\ b + z + 2 <= c
    <3>1. i + 1 < n + 1  BY <1>11
    <3>. QED  BY <1>3, <1>6, <1>7, <2>2, <3>1
  <2>7. W + 2 <= l  BY <1>10, <2>6
  <2>. QED  BY <1>7, <1>10, <2>1, <2>4, <2>5, <2>7
<1>12. ASSUME i = n PROVE W = l /\ s[W] = "}"
  <2>1. b = c  BY <1>7, <1>12
  <2>2. W = l  BY <1>10, <2>1
  <2>3. s[Len(s)] = "}"  BY DEF Laid
  <2>. QED  BY <1>2, <2>2, <2>3
<1>13. W <= l /\ s[W] \in {",", "}"}
  <2>1. CASE i < n
    <3>1. s[W] = "," /\ W + 2 <= l  BY <1>11, <2>1, Zenon
    <3>3. W + 2 <= l  BY <3>1, Zenon
    <3>2. W <= l  BY ONLY <3>3, W \in Nat, l \in Nat
    <3>. QED  BY ONLY <3>1, <3>2
  <2>2. CASE i = n
    <3>1. s[W] = "}" /\ W = l  BY <1>12, <2>2, Zenon
    <3>3. W = l  BY <3>1, Zenon
    <3>2. W <= l  BY ONLY <3>3, W \in Nat, l \in Nat
    <3>. QED  BY ONLY <3>1, <3>2
  <2>3. i < n \/ i = n  BY ONLY <1>4, n \in Nat
  <2>. QED  BY ONLY <2>1, <2>2, <2>3
<1>14. Placed(s, a, es[i])
  <2>1. Stands(s, a, es[i])  BY <1>2, <1>4, <1>7 DEF Laid
  <2>2. 1 <= a  BY <1>3, <1>6, <1>7
  <2>. QED  BY <1>1, <1>2, <1>4, <1>9, <1>13, <2>1, <2>2 DEF Placed
<1>15. Shape(s, a, V, W, es[i].value.is_string)
  <2>1. V = a + KeyLen(es[i]) + 4  BY <1>5, <1>8
  <2>. QED  BY <1>9, <1>14, <2>1, EntryShape
<1>16. Stand(s, es, at, i, V, W)
  BY <1>2, <1>5, <1>7, <1>8, <1>9, <1>10, <1>11, <1>12, <1>13, <1>14, <1>15 DEF Stand
<1>. QED  BY <1>16

-----------------------------------------------------------------------------
(***************************************************************************)
(* The loop of parse_json_properties, one turn at a time.                  *)
(***************************************************************************)
PairOpen(s, p) == Find(s, Quote, p)
PairClose(s, p) == Find(s, Quote, PairOpen(s, p) + 1)
PairColon(s, p) == Find(s, ":", PairClose(s, p) + 1)
PairFrom(s, p) == Skip(s, PairColon(s, p) + 1, {" "})
PairEnd(s, p) == ReadEnd(s, PairFrom(s, p))
PairNext(s, p) ==
  Skip(s, IF s[PairFrom(s, p)] = Quote THEN PairEnd(s, p) + 1 ELSE PairEnd(s, p), {",", " "})
PairRead(s, p) ==
  [key |-> Part(s, PairOpen(s, p) + 1, PairClose(s, p)), value |-> ValueFrom(s, PairFrom(s, p))]

\* The turn at p reads a pair; another turn follows it.
Reads(s, p) ==
  PairOpen(s, p) # 0 /\ PairClose(s, p) # 0 /\ PairColon(s, p) # 0 /\ ~(PairFrom(s, p) > Len(s)) /\ PairEnd(s, p) # 0
GoesOn(s, p) == Reads(s, p) /\ ~(PairNext(s, p) > Len(s)) /\ s[PairNext(s, p)] # "}"

\* The turn, in those terms.
LEMMA PairsTurnIs ==
  ASSUME NEW s, NEW p, NEW f
  PROVE  PairsTurn(s, p, f) =
           IF ~Reads(s, p) THEN <<>>
           ELSE IF ~GoesOn(s, p) THEN <<PairRead(s, p)>>
           ELSE <<PairRead(s, p)>> \o f[PairNext(s, p)]
<1>. DEFINE open == Find(s, Quote, p)
            close == Find(s, Quote, open + 1)
            colon == Find(s, ":", close + 1)
            from == Skip(s, colon + 1, {" "})
            end == ReadEnd(s, from)
            next == Skip(s, IF s[from] = Quote THEN end + 1 ELSE end, {",", " "})
<1>1. open = PairOpen(s, p) /\ close = PairClose(s, p) /\ colon = PairColon(s, p)
      /\ from = PairFrom(s, p) /\ end = PairEnd(s, p) /\ next = PairNext(s, p)
  BY DEF PairOpen, PairClose, PairColon, PairFrom, PairEnd, PairNext
<1>. DEFINE pair == [key |-> Part(s, open + 1, close), value |-> ValueFrom(s, from)]
<1>2. pair = PairRead(s, p)  BY <1>1 DEF PairRead
<1>3. PairsTurn(s, p, f) =
        IF open = 0 THEN <<>>
        ELSE IF close = 0 THEN <<>>
        ELSE IF colon = 0 \/ from > Len(s) THEN <<>>
        ELSE IF end = 0 THEN <<>>
        ELSE IF next > Len(s) THEN <<pair>>
        ELSE IF s[next] = "}" THEN <<pair>>
        ELSE <<pair>> \o f[next]
  BY Zenon DEF PairsTurn
<1>4. Reads(s, p) <=> open # 0 /\ close # 0 /\ colon # 0 /\ ~(from > Len(s)) /\ end # 0
  BY <1>1, Zenon DEF Reads
<1>5. GoesOn(s, p) <=> Reads(s, p) /\ ~(next > Len(s)) /\ s[next] # "}"
  BY <1>1, Zenon DEF GoesOn
<1>6. next = PairNext(s, p)  BY <1>1
<1>. HIDE DEF open, close, colon, from, end, next, pair
<1>7. CASE ~Reads(s, p)  BY <1>3, <1>4, <1>7, Zenon
<1>8. CASE Reads(s, p) /\ ~GoesOn(s, p)  BY <1>2, <1>3, <1>4, <1>5, <1>8
<1>9. CASE Reads(s, p) /\ GoesOn(s, p)  BY <1>2, <1>3, <1>4, <1>5, <1>6, <1>9
<1>. QED  BY <1>7, <1>8, <1>9

\* The loop goes forward.
LEMMA PairsForward ==
  ASSUME NEW s \in Seq(Chars), NEW p \in 1..(Len(s) + 1), Reads(s, p)
  PROVE  PairNext(s, p) \in Nat /\ p < PairNext(s, p)
<1>1. PICK n \in Nat : n = Len(s)  OBVIOUS
<1>2. p \in Nat \ {0} /\ 1 <= p  OBVIOUS
<1>3. PICK open \in Nat : open = PairOpen(s, p) /\ p <= open /\ open <= n
  <2>1. PairOpen(s, p) # 0  BY DEF Reads
  <2>2. PairOpen(s, p) \in p..n  BY <1>1, <1>2, <2>1, FindType DEF PairOpen
  <2>. QED  BY ONLY <1>2, <2>2, p \in Nat, n \in Nat
<1>4. PICK close \in Nat : close = PairClose(s, p) /\ open < close /\ close <= n
  <2>1. PairClose(s, p) # 0 /\ open + 1 \in Nat \ {0}  BY DEF Reads
  <2>2. PairClose(s, p) \in (open + 1)..n  BY <1>1, <1>3, <2>1, FindType DEF PairClose
  <2>. QED  BY ONLY <2>2, open \in Nat, n \in Nat
<1>5. PICK colon \in Nat : colon = PairColon(s, p) /\ close < colon /\ colon <= n
  <2>1. PairColon(s, p) # 0 /\ close + 1 \in Nat \ {0}  BY DEF Reads
  <2>2. PairColon(s, p) \in (close + 1)..n  BY <1>1, <1>4, <2>1, FindType DEF PairColon
  <2>. QED  BY ONLY <2>2, close \in Nat, n \in Nat
<1>6. PICK from \in Nat : from = PairFrom(s, p) /\ colon < from /\ from <= n
  <2>1. colon + 1 \in Nat \ {0} /\ colon + 1 <= n + 1  BY <1>5
  <2>2. PairFrom(s, p) \in Nat /\ colon + 1 <= PairFrom(s, p)  BY <1>1, <1>5, <2>1, SkipType DEF PairFrom
  <2>3. PairFrom(s, p) <= n  BY <1>1, <2>2 DEF Reads
  <2>. QED  BY ONLY <2>2, <2>3, colon \in Nat, n \in Nat
<1>7. from \in Nat \ {0} /\ from + 1 \in Nat \ {0} /\ from <= n + 1  BY <1>6
<1>8. PICK at \in Nat : /\ at = IF s[PairFrom(s, p)] = Quote THEN PairEnd(s, p) + 1 ELSE PairEnd(s, p)
                        /\ from <= at /\ at <= n + 1
  <2>1. CASE s[from] = Quote
    <3>1. PairEnd(s, p) = Find(s, Quote, from + 1) /\ PairEnd(s, p) # 0  BY <1>6, <2>1 DEF PairEnd, ReadEnd, Reads
    <3>2. PairEnd(s, p) \in (from + 1)..n  BY <1>1, <1>7, <3>1, FindType
    <3>3. PICK e \in Nat : e = PairEnd(s, p) /\ from < e /\ e <= n  BY ONLY <3>2, from \in Nat, n \in Nat
    <3>4. e + 1 \in Nat /\ from <= e + 1 /\ e + 1 <= n + 1  BY ONLY <3>3, e \in Nat, from \in Nat, n \in Nat
    <3>. QED  BY <1>6, <2>1, <3>3, <3>4
  <2>2. CASE s[from] # Quote
    <3>1. PairEnd(s, p) = Until(s, from, {",", "}", " "})  BY <1>6, <2>2 DEF PairEnd, ReadEnd
    <3>2. PairEnd(s, p) \in Nat /\ from <= PairEnd(s, p) /\ PairEnd(s, p) <= n + 1  BY <1>1, <1>7, <3>1, SkipType
    <3>. QED  BY <1>6, <2>2, <3>2
  <2>. QED  BY <2>1, <2>2
<1>9. PairNext(s, p) = Skip(s, at, {",", " "})  BY <1>8 DEF PairNext
<1>10. at \in Nat \ {0}  BY <1>7, <1>8
<1>11. PairNext(s, p) \in Nat /\ at <= PairNext(s, p)  BY <1>1, <1>8, <1>9, <1>10, SkipType
<1>. QED  BY ONLY <1>3, <1>4, <1>5, <1>6, <1>8, <1>11, p \in 1..(Len(s) + 1), n \in Nat, n = Len(s)

\* What the loop returns at each position.
LEMMA PairsUnfold ==
  ASSUME NEW s \in Seq(Chars)
  PROVE  \A p \in 1..(Len(s) + 1) : Pairs(s)[p] = PairsTurn(s, p, Pairs(s))
<1>. DEFINE Eq(f) == f = [p \in 1..(Len(s) + 1) |-> PairsTurn(s, p, f)]
            H == CHOOSE f : Eq(f)
<1>1. Pairs(s) = H
  BY Zenon DEF Pairs
<1>2. \E f : Eq(f)
  <2>1. PICK n \in Nat : n = Len(s) + 1  OBVIOUS
  <2>. DEFINE X == {PairRead(s, p) : p \in 1..n}
              res == [p \in 1..n |-> IF Reads(s, p) THEN <<PairRead(s, p)>> ELSE <<>>]
              nxt == [p \in 1..n |-> IF GoesOn(s, p) THEN PairNext(s, p) ELSE 0]
  <2>2. res \in [1..n -> Seq(X)]
    <3>1. ASSUME NEW p \in 1..n PROVE res[p] \in Seq(X)
      <4>1. PairRead(s, p) \in X  OBVIOUS
      <4>. HIDE DEF X
      <4>. QED  BY <4>1
    <3>. HIDE DEF X
    <3>. QED  BY <3>1
  <2>3. \A p \in 1..n : GoesOn(s, p) => PairNext(s, p) \in Nat /\ p < PairNext(s, p) /\ PairNext(s, p) <= n /\ PairNext(s, p) # 0
    <3>1. ASSUME NEW p \in 1..n, GoesOn(s, p)
          PROVE  PairNext(s, p) \in Nat /\ p < PairNext(s, p) /\ PairNext(s, p) <= n /\ PairNext(s, p) # 0
      <4>1. p \in 1..(Len(s) + 1) /\ Reads(s, p)  BY <2>1, <3>1 DEF GoesOn
      <4>2. PICK q \in Nat : q = PairNext(s, p) /\ p < q  BY <4>1, PairsForward
      <4>3. ~(PairNext(s, p) > Len(s))  BY <3>1, Zenon DEF GoesOn
      <4>4. PICK l \in Nat : l = Len(s)  OBVIOUS
      <4>6. ~(q > l)  BY <4>2, <4>3, <4>4
      <4>5. q <= n /\ q # 0  BY ONLY <2>1, <4>2, <4>6, <4>4, l \in Nat, q \in Nat, n \in Nat, p \in 1..n
      <4>. QED  BY <4>2, <4>5
    <3>. QED  BY <3>1
  <2>4. nxt \in [1..n -> Nat] /\ \A p \in 1..n : nxt[p] = 0 \/ (p < nxt[p] /\ nxt[p] <= n)
    BY <2>3
  <2>5. PICK f \in [1..n -> Seq(X)] : Loops(f, n, res, nxt)
    <3>. HIDE DEF X, res, nxt
    <3>. QED  BY ONLY <2>2, <2>4, LoopEnds, n \in Nat
  <2>6. ASSUME NEW p \in 1..n PROVE f[p] = PairsTurn(s, p, f)
    <3>1. f[p] = res[p] \o (IF nxt[p] = 0 THEN <<>> ELSE f[nxt[p]])  BY <2>5 DEF Loops
    <3>2. res[p] \in Seq(X)  BY <2>2
    <3>3. CASE ~Reads(s, p)
      <4>1. res[p] = <<>> /\ nxt[p] = 0  BY <3>3 DEF GoesOn
      <4>3. f[p] = <<>> \o <<>>  BY ONLY <3>1, <4>1
      <4>2. f[p] = <<>>  BY ONLY <4>3
      <4>. QED  BY <3>3, <4>2, PairsTurnIs
    <3>4. CASE Reads(s, p) /\ ~GoesOn(s, p)
      <4>1. res[p] = <<PairRead(s, p)>> /\ nxt[p] = 0  BY <3>4
      <4>2. f[p] = <<PairRead(s, p)>> \o <<>>  BY ONLY <3>1, <4>1
      <4>3. f[p] = <<PairRead(s, p)>>  BY ONLY <4>2
      <4>. QED  BY <3>4, <4>3, PairsTurnIs
    <3>5. CASE GoesOn(s, p)
      <4>1. res[p] = <<PairRead(s, p)>> /\ nxt[p] = PairNext(s, p) /\ nxt[p] # 0  BY <2>3, <3>5 DEF GoesOn
      <4>2. f[p] = <<PairRead(s, p)>> \o f[PairNext(s, p)]  BY ONLY <3>1, <4>1
      <4>3. Reads(s, p)  BY <3>5 DEF GoesOn
      <4>. QED  BY <3>5, <4>2, <4>3, PairsTurnIs
    <3>. QED  BY <3>3, <3>4, <3>5
  <2>7. Eq(f)
    <3>. HIDE DEF X, res, nxt
    <3>1. f = [p \in 1..n |-> f[p]]  OBVIOUS
    <3>2. [p \in 1..n |-> f[p]] = [p \in 1..n |-> PairsTurn(s, p, f)]  BY <2>6
    <3>. QED  BY <2>1, <3>1, <3>2
  <2>. HIDE DEF Eq, X, res, nxt
  <2>. QED  BY <2>7
<1>3. Eq(H)
  <2>. HIDE DEF Eq
  <2>. QED  BY <1>2
<1>4. \A p \in 1..(Len(s) + 1) : H[p] = PairsTurn(s, p, H)
  <2>. HIDE DEF H
  <2>. QED  BY <1>3
<1>. HIDE DEF H
<1>. QED  BY <1>1, <1>4

\* The readers read the key and the value of an entry.
LEMMA EntryRead ==
  ASSUME PropertyAssumption, NEW s \in Seq(Chars), NEW p \in Nat, NEW V \in Nat, NEW W \in Nat, NEW e,
         Placed(s, p, e), V = p + KeyLen(e) + 4, W = p + Size(e), W <= Len(s),
         Shape(s, p, V, W, e.value.is_string)
  PROVE  /\ Part(s, p + 1, V - 3) = KeyText[e.key]
         /\ ValueFrom(s, V) = e.value.ref
<1>1. e \in Entries /\ Stands(s, p, e)  BY DEF Placed
<1>0. 1 <= p  BY DEF Placed
<1>2. PICK K \in Nat, L \in Nat : K = KeyLen(e) /\ L = ValueLen(e)  BY <1>1, EntryTexts
<1>10. Len(s) \in Nat  OBVIOUS
<1>3. V = p + K + 4 /\ W = V + L /\ W <= Len(s)
  <2>1. Size(e) = K + 4 + L  BY <1>2 DEF Size
  <2>2. V = p + K + 4 /\ W = p + (K + 4 + L)  BY <1>2, <2>1
  <2>. QED  BY ONLY <1>10, <2>2, W <= Len(s), p \in Nat, K \in Nat, L \in Nat, V \in Nat, W \in Nat
<1>4. Part(s, p + 1, V - 3) = KeyText[e.key]
  <2>1. KeyText[e.key] \in Seq(Chars) /\ Len(KeyText[e.key]) = K  BY <1>1, <1>2, EntryTexts DEF KeyLen
  <2>2. /\ p + 1 \in Nat /\ 1 <= p + 1
        /\ V - 3 \in Nat /\ V - 3 = (p + 1) + K /\ V - 3 <= Len(s) + 1
    BY ONLY <1>3, <1>10, p \in Nat, K \in Nat, L \in Nat, V \in Nat, W \in Nat
  <2>3. ASSUME NEW j \in 1..K PROVE s[(p + 1) + j - 1] = KeyText[e.key][j]
    <3>1. (p + 1) + j - 1 = p + j  OBVIOUS
    <3>2. s[p + j] = KeyText[e.key][j]  BY <1>1, <1>2 DEF Stands
    <3>. QED  BY ONLY <3>1, <3>2
  <2>4. Within(s, KeyText[e.key], K, p + 1, V - 3)
    BY ONLY <2>1, <2>2, <2>3, K \in Nat, s \in Seq(Chars), Zenon DEF Within
  <2>. QED  BY ONLY <2>4, PartIs, Zenon
<1>5. ASSUME NEW j \in 1..L PROVE s[V + j - 1] = Written(e.value)[j]
  <2>1. V + j - 1 = p + K + 3 + j  BY ONLY <1>3, j \in 1..L, V \in Nat, p \in Nat, K \in Nat, L \in Nat
  <2>2. s[p + K + 3 + j] = Written(e.value)[j]  BY <1>1, <1>2 DEF Stands
  <2>. QED  BY ONLY <2>1, <2>2
<1>6. Written(e.value) \in Seq(Chars) /\ e.value.ref \in Seq(Chars) /\ e.value.is_string \in BOOLEAN
  BY <1>1, EntryTexts DEF Entries, PropertyAssumption
<1>7. /\ (s[V] = Quote) <=> e.value.is_string
      /\ ReadEnd(s, V) = IF e.value.is_string THEN W - 1 ELSE W
  <2>1. Scanned(s, p, V, W, e.value.is_string)  BY ScanEntry, Zenon
  <2>. QED  BY <2>1 DEF Scanned
<1>8. CASE e.value.is_string
  <2>1. PICK M \in Nat : M = Len(e.value.ref)  BY <1>6
  <2>2. /\ ValueLen(e) = Len(e.value.ref) + 2
        /\ \A j \in 1..Len(e.value.ref) : Written(e.value)[j + 1] = e.value.ref[j]
    BY <1>1, <1>8, EntryTexts
  <2>3. L = M + 2  BY <1>2, <2>1, <2>2
  <2>4. /\ W - 1 # 0 /\ V + 1 \in Nat /\ 1 <= V + 1
        /\ W - 1 \in Nat /\ W - 1 = (V + 1) + M /\ W - 1 <= Len(s) + 1
    BY ONLY <1>3, <1>10, <2>3, M \in Nat, p \in Nat, K \in Nat, V \in Nat, W \in Nat
  <2>5. ASSUME NEW j \in 1..M PROVE s[(V + 1) + j - 1] = e.value.ref[j]
    <3>1. j + 1 \in 1..L /\ V + (j + 1) - 1 = (V + 1) + j - 1  BY <2>3
    <3>2. s[V + (j + 1) - 1] = Written(e.value)[j + 1]  BY <1>5, <3>1
    <3>. QED  BY <2>1, <2>2, <3>1, <3>2
  <2>6. Part(s, V + 1, W - 1) = e.value.ref
    <3>1. Within(s, e.value.ref, M, V + 1, W - 1)
      BY ONLY <1>6, <2>1, <2>4, <2>5, M \in Nat, s \in Seq(Chars), Zenon DEF Within
    <3>. QED  BY ONLY <3>1, PartIs, Zenon
  <2>. QED  BY <1>4, <1>7, <1>8, <2>4, <2>6 DEF ValueFrom
<1>9. CASE ~e.value.is_string
  <2>1. Written(e.value) = e.value.ref  BY <1>1, <1>9, EntryTexts
  <2>2. Len(e.value.ref) = L  BY <1>2, <2>1 DEF ValueLen
  <2>3. W # 0 /\ 1 <= V /\ W = V + L /\ W <= Len(s) + 1
    BY ONLY <1>3, <1>10, p \in Nat, K \in Nat, L \in Nat, V \in Nat, W \in Nat
  <2>4. Part(s, V, W) = e.value.ref
    <3>2. \A j \in 1..L : s[V + j - 1] = e.value.ref[j]  BY <1>5, <2>1
    <3>3. Within(s, e.value.ref, L, V, W)
      BY ONLY <1>6, <2>2, <2>3, <3>2, s \in Seq(Chars), V \in Nat, W \in Nat, L \in Nat, Zenon DEF Within
    <3>. QED  BY ONLY <3>3, PartIs, Zenon
  <2>. QED  BY <1>3, <1>4, <1>7, <1>9, <2>3, <2>4 DEF ValueFrom
<1>. QED  BY <1>8, <1>9

\* What an index keeps of an entry.
PairOf(e) == [key |-> KeyText[e.key], value |-> e.value.ref]

\* The turn at an entry reads it, and the next turn is at the next entry.
LEMMA TurnAtEntry ==
  ASSUME PropertyAssumption, NEW s \in Seq(Chars), NEW es \in Seq(Entries), NEW at, NEW i \in 1..Len(es),
         NEW V \in Nat, NEW W \in Nat, Stand(s, es, at, i, V, W)
  PROVE  /\ Reads(s, at[i]) /\ PairRead(s, at[i]) = PairOf(es[i])
         /\ i < Len(es) => GoesOn(s, at[i]) /\ PairNext(s, at[i]) = at[i + 1]
         /\ i = Len(es) => ~GoesOn(s, at[i])
<1>1. PICK p \in Nat, l \in Nat, n \in Nat : p = at[i] /\ l = Len(s) /\ n = Len(es)
  <2>1. at[i] \in Nat  BY DEF Stand
  <2>2. Len(s) \in Nat /\ Len(es) \in Nat  OBVIOUS
  <2>. QED  BY <2>1, <2>2
<1>2. PICK e \in Entries : e = es[i]  OBVIOUS
<1>3. Shape(s, p, V, W, e.value.is_string) /\ Placed(s, p, e) /\ V = p + KeyLen(e) + 4 /\ W = p + Size(e)
  BY <1>1, <1>2 DEF Stand
<1>4. 1 <= p /\ p + 4 <= V /\ V <= W
  BY <1>3 DEF Shape
<1>5. W <= l
  <2>1. W <= Len(s)  BY DEF Stand
  <2>. QED  BY <1>1, <2>1
<1>6. e.value.is_string \in BOOLEAN  BY DEF Entries, PropertyAssumption
<1>7. /\ Find(s, Quote, p) = p
      /\ Find(s, Quote, p + 1) = V - 3
      /\ Find(s, ":", V - 2) = V - 2
      /\ Skip(s, V - 1, {" "}) = V
      /\ e.value.is_string => s[V] = Quote
      /\ ~e.value.is_string => s[V] # Quote
      /\ ReadEnd(s, V) = IF e.value.is_string THEN W - 1 ELSE W
  <2>1. Scanned(s, p, V, W, e.value.is_string)  BY <1>3, ScanEntry, Zenon
  <2>. QED  BY <2>1 DEF Scanned
<1>8. V - 3 + 1 = V - 2 /\ V - 2 + 1 = V - 1 /\ V <= l /\ V - 3 # 0 /\ V - 2 # 0 /\ W - 1 # 0 /\ W # 0 /\ p # 0
      /\ W - 1 + 1 = W
  BY <1>4, <1>5
<1>9. PairOpen(s, p) = p /\ PairClose(s, p) = V - 3  BY <1>7 DEF PairOpen, PairClose
<1>10. PairColon(s, p) = V - 2  BY <1>7, <1>8, <1>9 DEF PairColon
<1>11. PairFrom(s, p) = V  BY <1>7, <1>8, <1>10 DEF PairFrom
<1>12. PairEnd(s, p) = IF e.value.is_string THEN W - 1 ELSE W  BY <1>7, <1>11 DEF PairEnd
<1>13. Reads(s, p)
  <2>1. ~(V > l)  BY <1>8
  <2>2. ~(PairFrom(s, p) > Len(s))  BY <1>1, <1>11, <2>1
  <2>3. PairEnd(s, p) # 0  BY <1>8, <1>12
  <2>. QED  BY <1>8, <1>9, <1>10, <2>2, <2>3 DEF Reads
<1>14. PairRead(s, p) = PairOf(e)
  <2>1. Part(s, p + 1, V - 3) = KeyText[e.key] /\ ValueFrom(s, V) = e.value.ref
    BY <1>1, <1>3, <1>5, EntryRead
  <2>. QED  BY <1>9, <1>11, <2>1 DEF PairRead, PairOf
<1>15. PairNext(s, p) = Skip(s, W, {",", " "})
  <2>1. CASE e.value.is_string  BY <1>7, <1>8, <1>11, <1>12, <2>1 DEF PairNext
  <2>2. CASE ~e.value.is_string  BY <1>7, <1>11, <1>12, <2>2 DEF PairNext
  <2>. QED  BY <2>1, <2>2
<1>16. W \in Nat \ {0} /\ W \in W..l /\ W..(W - 1) = {}  BY <1>4, <1>5
<1>17. ASSUME i < Len(es) PROVE GoesOn(s, p) /\ PairNext(s, p) = at[i + 1]
  <2>1. s[W] = "," /\ s[W + 1] = " " /\ s[W + 2] = Quote  BY <1>17 DEF Stand
  <2>2. W + 2 <= l
    <3>1. W + 2 <= Len(s)  BY <1>17 DEF Stand
    <3>. QED  BY <1>1, <3>1
  <2>3. at[i + 1] = W + 2  BY DEF Stand
  <2>4. W + 2 \in W..l /\ W..((W + 2) - 1) = {W, W + 1}  BY <2>2
  <2>5. s[W + 2] \notin {",", " "} /\ \A r \in {W, W + 1} : s[r] \in {",", " "}  BY <2>1 DEF Quote
  <2>6. Skip(s, W, {",", " "}) = W + 2
    BY ONLY <1>1, <1>16, <2>4, <2>5, s \in Seq(Chars), SkipIs
  <2>7. ~(W + 2 > l)  BY <2>2
  <2>8. ~(PairNext(s, p) > Len(s))  BY <1>1, <1>15, <2>6, <2>7
  <2>9. s[PairNext(s, p)] # "}"  BY <1>15, <2>1, <2>6 DEF Quote
  <2>. QED  BY <1>13, <1>15, <2>3, <2>6, <2>8, <2>9 DEF GoesOn
<1>18. ASSUME i = Len(es) PROVE ~GoesOn(s, p)
  <2>1. s[W] = "}"  BY <1>18 DEF Stand
  <2>2. s[W] \notin {",", " "}  BY <2>1
  <2>3. Skip(s, W, {",", " "}) = W
    BY ONLY <1>1, <1>16, <2>2, s \in Seq(Chars), SkipIs
  <2>. QED  BY <1>15, <2>1, <2>3 DEF GoesOn
<1>. QED  BY <1>1, <1>2, <1>13, <1>14, <1>17, <1>18

\* What parse_json_properties reads from a layout: its entries, in their order.
LEMMA PairsOfLayout ==
  ASSUME PropertyAssumption, NEW s, NEW es, NEW at, Laid(s, es, at)
  PROVE  parse_json_properties(s) = [i \in 1..Len(es) |-> PairOf(es[i])]
<1>1. s \in Seq(Chars) /\ es \in Seq(Entries) /\ Starts(es, at) /\ at[1] = 2  BY DEF Laid, Starts
<1>2. PICK n \in Nat, l \in Nat : n = Len(es) /\ l = Len(s)  BY <1>1
<1>3. \A p \in 1..(Len(s) + 1) : Pairs(s)[p] = PairsTurn(s, p, Pairs(s))  BY <1>1, PairsUnfold
<1>4. CASE n = 0
  <2>0. Len(s) = 2  BY <1>2, <1>4 DEF Laid
  <2>1. Len(s) = 2 /\ s[2] = "}" /\ s[1] = "{"  BY <2>0 DEF Laid
  <2>2. Find(s, Quote, 2) = 0
    <3>0. 2 \in Nat \ {0} /\ 2..Len(s) = {2}  BY ONLY <2>0
    <3>1. 2 \in Nat \ {0} /\ \A r \in 2..Len(s) : s[r] # Quote  BY <2>1, <3>0 DEF Quote
    <3>. QED  BY <1>1, <3>1, FindNone
  <2>3. ~Reads(s, 2)  BY <2>2 DEF Reads, PairOpen
  <2>4. 2 \in 1..(Len(s) + 1)  BY ONLY <2>0
  <2>5. Pairs(s)[2] = <<>>  BY <1>3, <2>3, <2>4, PairsTurnIs
  <2>6. parse_json_properties(s) = <<>>  BY <2>1, <2>5 DEF parse_json_properties
  <2>7. [i \in 1..Len(es) |-> PairOf(es[i])] = <<>>  BY <1>2, <1>4
  <2>. QED  BY <2>6, <2>7
<1>5. CASE n # 0
  <2>. DEFINE f == Pairs(s)
              Z == {PairOf(e) : e \in Entries}
              tail(k) == [j \in 1..(k + 1) |-> PairOf(es[n - k + j - 1])]
              T == {k \in 0..(n - 1) : f[at[n - k]] = tail(k)}
  <2>1. ASSUME NEW i \in 1..n
        PROVE  /\ f[at[i]] = IF i = n THEN <<PairOf(es[i])>> ELSE <<PairOf(es[i])>> \o f[at[i + 1]]
               /\ at[i] \in 1..l
    <3>1. i \in 1..Len(es)  BY <1>2
    <3>2. PICK V \in Nat, W \in Nat : Stand(s, es, at, i, V, W)  BY <3>1, EveryEntryStands
    <3>3. /\ Reads(s, at[i]) /\ PairRead(s, at[i]) = PairOf(es[i])
          /\ i < Len(es) => GoesOn(s, at[i]) /\ PairNext(s, at[i]) = at[i + 1]
          /\ i = Len(es) => ~GoesOn(s, at[i])
      BY <1>1, <3>1, <3>2, TurnAtEntry
    <3>4. PICK p \in Nat : p = at[i] /\ 1 <= p /\ p <= l
      <4>1. Shape(s, at[i], V, W, es[i].value.is_string)  BY <3>2 DEF Stand
      <4>2. PICK p \in Nat : p = at[i]  BY <4>1 DEF Shape
      <4>3. 1 <= p /\ p + 4 <= V /\ V <= W  BY <4>1, <4>2 DEF Shape
      <4>4. W <= l
        <5>1. W <= Len(s)  BY <3>2 DEF Stand
        <5>. QED  BY <1>2, <5>1
      <4>5. 1 <= p /\ p <= l  BY ONLY <4>3, <4>4, p \in Nat, V \in Nat, W \in Nat, l \in Nat
      <4>. QED  BY <4>2, <4>5
    <3>5. p \in 1..(l + 1) /\ p \in 1..l  BY <3>4
    <3>6. f[p] = PairsTurn(s, p, f)  BY <1>2, <1>3, <3>5
    <3>7. i = n \/ i < n  OBVIOUS
    <3>8. CASE i = n
      <4>1. ~GoesOn(s, p) /\ Reads(s, p) /\ PairRead(s, p) = PairOf(es[i])  BY <1>2, <3>3, <3>4, <3>8
      <4>2. f[p] = <<PairOf(es[i])>>
        <5>. HIDE DEF f
        <5>. QED  BY <3>6, <4>1, PairsTurnIs
      <4>. QED  BY <3>4, <3>5, <3>8, <4>2
    <3>9. CASE i < n
      <4>1. GoesOn(s, p) /\ Reads(s, p) /\ PairRead(s, p) = PairOf(es[i]) /\ PairNext(s, p) = at[i + 1]
        BY <1>2, <3>3, <3>4, <3>9
      <4>2. f[p] = <<PairOf(es[i])>> \o f[at[i + 1]]
        <5>. HIDE DEF f
        <5>. QED  BY <3>6, <4>1, PairsTurnIs
      <4>3. i # n  BY <3>9
      <4>. QED  BY <3>4, <3>5, <4>2, <4>3
    <3>. QED  BY <3>7, <3>8, <3>9
  <2>2. \A i \in 1..n : PairOf(es[i]) \in Z  BY <1>1, <1>2
  <2>. HIDE DEF f, Z
  <2>3. 0 \in T
    <3>1. n \in 1..n /\ n - 0 = n /\ 0 \in 0..(n - 1)  BY <1>5
    <3>2. f[at[n]] = <<PairOf(es[n])>>  BY <2>1, <3>1
    <3>3. tail(0) = <<PairOf(es[n])>>
      <4>1. 0 + 1 = 1 /\ n - 0 + 1 - 1 = n  OBVIOUS
      <4>. QED  BY <4>1
    <3>. QED  BY <3>1, <3>2, <3>3
  <2>4. ASSUME NEW k \in 1..(n - 1), k - 1 \in T PROVE k \in T
    <3>1. n - k \in 1..n /\ n - k # n /\ n - k + 1 = n - (k - 1) /\ k \in 0..(n - 1)  BY <1>5
    <3>2. f[at[n - k]] = <<PairOf(es[n - k])>> \o f[at[n - (k - 1)]]  BY <2>1, <3>1
    <3>3. f[at[n - (k - 1)]] = tail(k - 1)  BY <2>4
    <3>4. ASSUME NEW j \in 1..k PROVE tail(k - 1)[j] = PairOf(es[n - k + j]) /\ PairOf(es[n - k + j]) \in Z
      <4>1. n - (k - 1) + j - 1 = n - k + j /\ j \in 1..(k - 1 + 1) /\ n - k + j \in 1..n  OBVIOUS
      <4>. QED  BY <2>2, <4>1
    <3>5. tail(k - 1) \in Seq(Z) /\ Len(tail(k - 1)) = k
      <4>1. tail(k - 1) = [j \in 1..k |-> PairOf(es[n - k + j])]
        <5>1. k - 1 + 1 = k  OBVIOUS
        <5>2. \A j \in 1..k : n - (k - 1) + j - 1 = n - k + j  OBVIOUS
        <5>. QED  BY <5>1, <5>2
      <4>2. \A j \in 1..k : PairOf(es[n - k + j]) \in Z  BY <3>4
      <4>3. [j \in 1..k |-> PairOf(es[n - k + j])] \in Seq(Z)  BY <4>2
      <4>4. Len([j \in 1..k |-> PairOf(es[n - k + j])]) = k  OBVIOUS
      <4>. QED  BY ONLY <4>1, <4>3, <4>4
    <3>6. PICK t \in Seq(Z) : t = tail(k - 1) /\ Len(t) = k /\ \A j \in 1..k : t[j] = PairOf(es[n - k + j])
      <4>. HIDE DEF tail
      <4>. QED  BY <3>4, <3>5
    <3>7. PICK x \in Z : x = PairOf(es[n - k])  BY <2>2, <3>1
    <3>8. <<x>> \o t = [j \in 1..(k + 1) |-> PairOf(es[n - k + j - 1])]
      <4>1. Len(<<x>> \o t) = k + 1 /\ (<<x>> \o t)[1] = x  BY <3>6
      <4>2. \A j \in 1..k : (<<x>> \o t)[j + 1] = t[j]  BY <3>6
      <4>3. ASSUME NEW j \in 1..(k + 1) PROVE (<<x>> \o t)[j] = PairOf(es[n - k + j - 1])
        <5>1. CASE j = 1
          <6>1. n - k + 1 - 1 = n - k  OBVIOUS
          <6>. QED  BY <3>7, <4>1, <5>1, <6>1
        <5>2. CASE j # 1
          <6>1. j - 1 \in 1..k /\ j - 1 + 1 = j /\ n - k + (j - 1) = n - k + j - 1  BY <5>2
          <6>. QED  BY <3>6, <4>2, <6>1
        <5>. QED  BY <5>1, <5>2
      <4>4. <<x>> \o t \in Seq(Z)  BY <3>6
      <4>5. PICK u \in Seq(Z) : u = <<x>> \o t  BY <4>4
      <4>6. Len(u) = k + 1 /\ \A j \in 1..(k + 1) : u[j] = PairOf(es[n - k + j - 1])  BY <4>1, <4>3, <4>5
      <4>7. u = [j \in 1..(k + 1) |-> u[j]]  BY <4>6
      <4>. QED  BY <4>5, <4>6, <4>7
    <3>9. f[at[n - k]] = <<x>> \o t
      <4>. HIDE DEF tail
      <4>. QED  BY <3>2, <3>3, <3>6, <3>7
    <3>. QED  BY <3>1, <3>8, <3>9
  <2>5. n - 1 \in T
    <3>1. T \in SUBSET (0..(n - 1)) /\ n - 1 \in Nat  BY <1>5
    <3>. HIDE DEF T
    <3>. QED  BY <2>3, <2>4, <3>1, StepInduction
  <2>6. n - (n - 1) = 1 /\ n - 1 + 1 = n  OBVIOUS
  <2>7. f[2] = [j \in 1..n |-> PairOf(es[1 + j - 1])]  BY <1>1, <2>5, <2>6
  <2>8. f[2] = [j \in 1..n |-> PairOf(es[j])]
    <3>1. \A j \in 1..n : 1 + j - 1 = j  OBVIOUS
    <3>. QED  BY <2>7, <3>1
  <2>9. ~(Len(s) < 2 \/ s[1] # "{")
    <3>1. s[1] = "{"  BY DEF Laid
    <3>2. 1 \in 1..n  BY ONLY <1>5, n \in Nat
    <3>4. 2 \in 1..l  BY <1>1, <2>1, <3>2
    <3>3. ~(l < 2)  BY ONLY <3>4, l \in Nat
    <3>. QED  BY <1>2, <3>1, <3>3
  <2>. QED  BY <1>2, <2>8, <2>9 DEF parse_json_properties, f
<1>. QED  BY <1>4, <1>5

-----------------------------------------------------------------------------
(***************************************************************************)
(* Where a quoted key stands in a layout.                                  *)
(***************************************************************************)

\* How keys are spelled.
LEMMA KeySpelled ==
  ASSUME PropertyAssumption, NEW k \in Keys
  PROVE  /\ KeyText[k] \in Seq(Chars)
         /\ \A j \in 1..Len(KeyText[k]) : KeyText[k][j] \notin Punctuation /\ KeyText[k][j] # Quote
<1>1. KeyText[k] \in Seq(Chars \ Punctuation)  BY DEF PropertyAssumption
<1>2. Quote \in Punctuation  BY DEF Punctuation
<1>. QED  BY <1>1, <1>2

\* Behind the first quote of a quoted key comes a letter of it or its other quote.
LEMMA QuotedFollows ==
  ASSUME PropertyAssumption, NEW k \in Keys, NEW s \in Seq(Chars), NEW i \in Nat, 1 <= i,
         QuotedAt(s, i, KeyText[k])
  PROVE  s[i] = Quote /\ i + 1 <= Len(s) /\ s[i + 1] \notin {":", ",", " ", "}"}
<1>1. KeyText[k] \in Seq(Chars) /\ \A j \in 1..Len(KeyText[k]) : KeyText[k][j] \notin Punctuation
  BY KeySpelled
<1>2. PICK m \in Nat : m = Len(KeyText[k])  BY <1>1
<1>3. s[i] = Quote /\ i + m + 1 <= Len(s) /\ s[i + m + 1] = Quote
      /\ SubSeq(s, i + 1, i + m + 1 - 1) = KeyText[k]
  BY <1>2 DEF QuotedAt, Part
<1>4. PICK l \in Nat : l = Len(s)  OBVIOUS
<1>5. i + m + 1 <= l  BY <1>3, <1>4
<1>6. i + 1 <= l  BY ONLY <1>5, i \in Nat, m \in Nat, l \in Nat
<1>7. CASE m = 0
  <2>1. i + m + 1 = i + 1  BY <1>7
  <2>2. s[i + 1] = Quote  BY <1>3, <2>1
  <2>. QED  BY <1>3, <1>4, <1>6, <2>2 DEF Quote
<1>8. CASE m # 0
  <2>1. 1 \in 1..m  BY <1>8
  <2>2. SubSeq(s, i + 1, i + m + 1 - 1)[1] = s[i + 1]
    <3>1. 1 \in 1..m /\ i + m + 1 - 1 = i + m /\ i + m <= l /\ i + 1 + 1 - 1 = i + 1
      BY ONLY <1>5, <1>8, i \in Nat, m \in Nat, l \in Nat
    <3>. QED  BY ONLY <1>4, <3>1, 1 <= i, i \in Nat, m \in Nat, s \in Seq(Chars)
  <2>3. s[i + 1] \notin Punctuation  BY <1>1, <1>2, <1>3, <2>1, <2>2
  <2>. QED  BY <1>3, <1>4, <1>6, <2>3 DEF Punctuation
<1>. QED  BY <1>7, <1>8

\* The quoted key stands where an entry of that key starts, and nowhere else.
KeyPlaces(s, es, at, k) ==
  \A q \in 1..Len(s) :
    QuotedAt(s, q, KeyText[k]) <=> \E i \in 1..Len(es) : q = at[i] /\ es[i].key = k

\* Where the quoted key stands within an entry.
LEMMA KeyInEntry ==
  ASSUME PropertyAssumption, NoKeyStrings(Values), NEW k \in Keys,
         NEW s \in Seq(Chars), NEW es \in Seq(Entries), NEW at, NEW i \in 1..Len(es),
         NEW V \in Nat, NEW W \in Nat, Stand(s, es, at, i, V, W)
  PROVE  /\ QuotedAt(s, at[i], KeyText[k]) <=> es[i].key = k
         /\ \A q \in Nat : at[i] < q /\ q < at[i + 1] => ~QuotedAt(s, q, KeyText[k])
<1>1. PICK p \in Nat, l \in Nat : p = at[i] /\ l = Len(s)
  <2>1. at[i] \in Nat  BY DEF Stand
  <2>2. Len(s) \in Nat  OBVIOUS
  <2>. QED  BY <2>1, <2>2
<1>2. PICK e \in Entries : e = es[i]  OBVIOUS
<1>3. Shape(s, p, V, W, e.value.is_string) /\ Placed(s, p, e) /\ V = p + KeyLen(e) + 4 /\ W = p + Size(e)
  BY <1>1, <1>2 DEF Stand
<1>4. Stands(s, p, e)  BY <1>3 DEF Placed
<1>5. 1 <= p /\ p + 4 <= V /\ V <= W /\ W <= l
  <2>1. 1 <= p /\ p + 4 <= V /\ V <= W /\ W <= Len(s)  BY <1>3 DEF Shape
  <2>. QED  BY <1>1, <2>1
<1>6. KeyText[k] \in Seq(Chars) /\ \A j \in 1..Len(KeyText[k]) : KeyText[k][j] # Quote  BY KeySpelled
<1>7. e.key \in Keys /\ e.value \in Values  BY DEF Entries
<1>8. PICK K \in Nat, L \in Nat : K = KeyLen(e) /\ L = ValueLen(e) /\ V = p + K + 4 /\ W = V + L
  <2>1. PICK K \in Nat, L \in Nat : K = KeyLen(e) /\ L = ValueLen(e)  BY EntryTexts
  <2>2. Size(e) = K + 4 + L  BY <2>1 DEF Size
  <2>3. V = p + K + 4 /\ W = p + (K + 4 + L)  BY <1>3, <2>1, <2>2
  <2>4. W = V + L  BY ONLY <2>3, p \in Nat, K \in Nat, L \in Nat
  <2>. QED  BY <2>1, <2>3, <2>4
<1>13. V = p + K + 4 /\ W = V + L  BY <1>8
<1>9. QuotedAt(s, p, KeyText[k]) <=> e.key = k
  <2>1. KeyText[e.key] \in Seq(Chars) /\ \A j \in 1..Len(KeyText[e.key]) : KeyText[e.key][j] # Quote
    BY <1>7, KeySpelled
  <2>2. Len(KeyText[e.key]) = K  BY <1>8 DEF KeyLen
  <2>3. p + K + 1 <= l /\ p + K + 1 = V - 3
    BY ONLY <1>5, <1>13, p \in Nat, K \in Nat, L \in Nat, V \in Nat, W \in Nat, l \in Nat
  <2>4. s[p] = Quote /\ s[p + K + 1] = Quote /\ \A j \in 1..K : s[p + j] = KeyText[e.key][j]
    BY <1>4, <1>8 DEF Stands
  <2>5. QuotedAt(s, p, KeyText[k]) <=> KeyText[k] = KeyText[e.key]
    <3>1. p + K + 1 <= Len(s)  BY <1>1, <2>3
    <3>2. QuotedText(s, p, KeyText[e.key], K, KeyText[k])
      <4>1. \A j \in 1..K : s[p + j] = KeyText[e.key][j] /\ KeyText[e.key][j] # Quote  BY <2>1, <2>2, <2>4
      <4>. QED  BY ONLY <1>5, <1>6, <2>1, <2>2, <2>4, <3>1, <4>1, s \in Seq(Chars), p \in Nat, K \in Nat, Zenon DEF QuotedText
    <3>. QED  BY ONLY <3>2, QuotedIs
  <2>6. KeyText[k] = KeyText[e.key] <=> k = e.key
    <3>1. IsInjective(KeyText) /\ DOMAIN KeyText = Keys  BY DEF PropertyAssumption
    <3>. QED  BY <1>7, <3>1 DEF IsInjective
  <2>. QED  BY <2>5, <2>6
<1>10. ASSUME e.value.is_string PROVE ~QuotedAt(s, V, KeyText[k])
  <2>1. PICK r : r = e.value.ref  OBVIOUS
  <2>2. r \in Seq(Chars)  BY <2>1, EntryTexts
  <2>3. PICK M \in Nat : M = Len(r)  BY <2>2
  <2>4. /\ L = M + 2 /\ Written(e.value)[1] = Quote /\ Written(e.value)[L] = Quote
        /\ \A j \in 1..M : Written(e.value)[j + 1] = r[j] /\ r[j] # Quote
    <3>1. /\ ValueLen(e) = Len(e.value.ref) + 2
          /\ Written(e.value)[1] = Quote /\ Written(e.value)[ValueLen(e)] = Quote
          /\ \A j \in 1..Len(e.value.ref) :
               Written(e.value)[j + 1] = e.value.ref[j] /\ e.value.ref[j] # Quote
      BY <1>10, EntryTexts
    <3>. QED  BY ONLY <1>8, <2>1, <2>3, <3>1
  <2>5. ASSUME NEW j \in 1..L PROVE s[V + j - 1] = Written(e.value)[j]
    <3>1. V + j - 1 = p + K + 3 + j  BY ONLY <1>13, j \in 1..L, p \in Nat, K \in Nat, L \in Nat, V \in Nat
    <3>2. s[p + K + 3 + j] = Written(e.value)[j]  BY <1>4, <1>8 DEF Stands
    <3>. QED  BY ONLY <3>1, <3>2
  <2>6. L = M + 2  BY <2>4
  <2>7. 1 \in 1..L /\ L \in 1..L /\ V + 1 - 1 = V /\ V + L - 1 = V + M + 1 /\ V + M + 1 <= l /\ 1 <= V
    BY ONLY <1>5, <1>13, <2>6, M \in Nat, p \in Nat, K \in Nat, L \in Nat, V \in Nat, W \in Nat, l \in Nat
  <2>8. s[V] = Quote /\ s[V + M + 1] = Quote
    <3>1. s[V + 1 - 1] = Written(e.value)[1] /\ s[V + L - 1] = Written(e.value)[L]  BY <2>5, <2>7
    <3>. QED  BY ONLY <2>4, <2>7, <3>1
  <2>9. ASSUME NEW j \in 1..M PROVE s[V + j] = r[j] /\ r[j] # Quote
    <3>1. j + 1 \in 1..L /\ V + (j + 1) - 1 = V + j  BY ONLY <2>6, j \in 1..M, M \in Nat, L \in Nat, V \in Nat
    <3>2. s[V + (j + 1) - 1] = Written(e.value)[j + 1]  BY <2>5, <3>1
    <3>. QED  BY ONLY <2>4, <3>1, <3>2, j \in 1..M
  <2>10. QuotedAt(s, V, KeyText[k]) <=> KeyText[k] = r
    <3>1. V + M + 1 <= Len(s)  BY <1>1, <2>7
    <3>2. QuotedText(s, V, r, M, KeyText[k])
      BY ONLY <1>6, <2>2, <2>3, <2>7, <2>8, <2>9, <3>1, s \in Seq(Chars), V \in Nat, M \in Nat, Zenon DEF QuotedText
    <3>. QED  BY ONLY <3>2, QuotedIs, Zenon
  <2>11. r # KeyText[k]  BY <1>7, <1>10, <2>1 DEF NoKeyStrings
  <2>. QED  BY <2>10, <2>11
<1>11. ASSUME NEW q \in Nat, p < q, q < W + 2 PROVE ~QuotedAt(s, q, KeyText[k])
  <2>1. 1 <= q  BY <1>11
  <2>2. SUFFICES ASSUME QuotedAt(s, q, KeyText[k]) PROVE FALSE  OBVIOUS
  <2>3. s[q] = Quote /\ s[q + 1] \notin {":", ",", " ", "}"}  BY <2>1, <2>2, QuotedFollows
  <2>4. q + 1 <= l
    <3>1. q + 1 <= Len(s)  BY <2>1, <2>2, QuotedFollows
    <3>. QED  BY <1>1, <3>1
  <2>5. Quote \in Punctuation /\ Quote \notin {":", ",", " ", "}"}  BY DEF Punctuation, Quote
  <2>6. /\ \A r \in (p + 1)..(V - 4) : s[r] \notin Punctuation
        /\ s[V - 2] = ":" /\ s[V - 1] = " " /\ s[W] \in {",", "}"}
        /\ e.value.is_string => \A r \in (V + 1)..(W - 2) : s[r] # Quote
        /\ ~e.value.is_string => \A r \in V..(W - 1) : s[r] \notin Punctuation
    BY <1>3 DEF Shape
  <2>7. q \in (p + 1)..(V - 4) \/ q = V - 3 \/ q = V - 2 \/ q = V - 1 \/ q = V \/ q \in (V + 1)..(W - 2)
        \/ q = W - 1 \/ q = W \/ q = W + 1
    BY ONLY <1>5, <1>11, q \in Nat, p \in Nat, V \in Nat, W \in Nat
  <2>8. q # V - 3
    <3>1. V - 3 + 1 = V - 2  OBVIOUS
    <3>. QED  BY <2>3, <2>6, <3>1
  <2>9. q \notin (p + 1)..(V - 4) /\ q # V - 2 /\ q # V - 1 /\ q # W  BY <2>3, <2>5, <2>6
  <2>10. q # W - 1
    <3>1. W - 1 + 1 = W  OBVIOUS
    <3>. QED  BY <2>3, <2>6, <3>1
  <2>11. q # W + 1
    <3>1. CASE i < Len(es)
      <4>1. s[W + 1] = " "  BY <3>1 DEF Stand
      <4>. QED  BY <2>3, <2>5, <4>1
    <3>2. CASE i = Len(es)
      <4>1. W = Len(s)  BY <3>2 DEF Stand
      <4>2. W = l  BY <1>1, <4>1
      <4>. QED  BY ONLY <2>4, <4>2, q \in Nat, l \in Nat
    <3>3. i < Len(es) \/ i = Len(es)  OBVIOUS
    <3>. QED  BY <3>1, <3>2, <3>3
  <2>12. q = V \/ q \in (V + 1)..(W - 2)  BY <2>7, <2>8, <2>9, <2>10, <2>11
  <2>13. CASE e.value.is_string  BY <1>10, <2>2, <2>3, <2>6, <2>12, <2>13
  <2>14. CASE ~e.value.is_string
    <3>1. q \in V..(W - 1)
      <4>1. q = V => V # W  BY <2>9
      <4>. QED  BY ONLY <1>5, <2>12, <4>1, q \in Nat, V \in Nat, W \in Nat
    <3>. QED  BY <2>3, <2>5, <2>6, <2>14, <3>1
  <2>. QED  BY <2>13, <2>14
<1>12. at[i + 1] = W + 2  BY DEF Stand
<1>. QED  BY <1>1, <1>2, <1>9, <1>11, <1>12

\* The same for the whole text.
LEMMA KeysOfLayout ==
  ASSUME PropertyAssumption, NoKeyStrings(Values), NEW k \in Keys,
         NEW s, NEW es, NEW at, Laid(s, es, at)
  PROVE  KeyPlaces(s, es, at, k)
<1>1. s \in Seq(Chars) /\ es \in Seq(Entries) /\ Starts(es, at)  BY DEF Laid, Starts
<1>2. PICK n \in Nat, l \in Nat : n = Len(es) /\ l = Len(s)  BY <1>1
<1>3. /\ \A i \in 1..(n + 1) : at[i] \in Nat /\ 2 <= at[i]
      /\ \A p \in 2..(at[n + 1] - 1) : \E i \in 1..n : at[i] <= p /\ p < at[i + 1]
      /\ \A i, j \in 1..(n + 1) : i < j => at[i] + Size(es[i]) + 2 <= at[j]
      /\ \A i \in 1..n : Size(es[i]) \in Nat /\ 4 <= Size(es[i])
  BY <1>1, <1>2, StartsInOrder
<1>4. \A i \in 1..n : \E V, W \in Nat : Stand(s, es, at, i, V, W)  BY <1>2, EveryEntryStands
<1>5. \A i \in 1..n : /\ QuotedAt(s, at[i], KeyText[k]) <=> es[i].key = k
                      /\ \A q \in Nat : at[i] < q /\ q < at[i + 1] => ~QuotedAt(s, q, KeyText[k])
  BY <1>1, <1>2, <1>4, KeyInEntry
<1>6. ASSUME NEW q \in 1..l, QuotedAt(s, q, KeyText[k]) PROVE \E i \in 1..n : q = at[i] /\ es[i].key = k
  <2>1. s[q] = Quote  BY <1>6 DEF QuotedAt
  <2>2. s[1] # Quote /\ s[l] # Quote
    <3>1. s[1] = "{" /\ s[l] = "}"  BY <1>2 DEF Laid
    <3>. QED  BY <3>1 DEF Quote
  <2>3. q # 1 /\ q # l  BY <2>1, <2>2
  <2>4. q \in 2..(l - 1)  BY ONLY <2>3, q \in 1..l, l \in Nat
  <2>5. n # 0
    <3>1. ASSUME n = 0 PROVE FALSE
      <4>1. Len(s) = 2  BY <1>2, <3>1 DEF Laid
      <4>2. l = 2  BY <1>2, <4>1
      <4>. QED  BY ONLY <2>4, <4>2
    <3>. QED  BY <3>1
  <2>6. n + 1 \in 1..(n + 1)  OBVIOUS
  <2>7. PICK c \in Nat : c = at[n + 1]  BY <1>3, <2>6
  <2>8. l = c - 2
    <3>1. Len(s) = at[n + 1] - 2  BY <1>2, <2>5 DEF Laid
    <3>. QED  BY <1>2, <2>7, <3>1
  <2>9. q \in 2..(c - 1)  BY ONLY <2>4, <2>8, c \in Nat, l \in Nat
  <2>10. PICK i \in 1..n : at[i] <= q /\ q < at[i + 1]  BY <1>3, <2>7, <2>9
  <2>11. PICK a \in Nat : a = at[i]
    <3>1. i \in 1..(n + 1)  OBVIOUS
    <3>. QED  BY <1>3, <3>1
  <2>12. q = a
    <3>1. ~(a < q /\ q < at[i + 1])  BY <1>5, <1>6, <2>11
    <3>2. ~(a < q)  BY <2>10, <3>1
    <3>3. a <= q  BY <2>10, <2>11
    <3>. QED  BY ONLY <3>2, <3>3, a \in Nat, q \in 1..l, l \in Nat
  <2>13. es[i].key = k  BY <1>5, <1>6, <2>11, <2>12
  <2>. QED  BY <2>11, <2>12, <2>13
<1>7. ASSUME NEW i \in 1..n, es[i].key = k PROVE QuotedAt(s, at[i], KeyText[k])
  BY <1>5, <1>7
<1>. QED  BY <1>2, <1>6, <1>7 DEF KeyPlaces

-----------------------------------------------------------------------------
(***************************************************************************)
(* The loop of get_json_value.                                             *)
(***************************************************************************)
LookOpen(s, p) == Find(s, Quote, p)
LookClose(s, p) == Find(s, Quote, LookOpen(s, p) + 1)

\* The turn at p skips a quoted text.
Skips(s, key, p) == LookOpen(s, p) # 0 /\ ~QuotedAt(s, LookOpen(s, p), key) /\ LookClose(s, p) # 0

\* The turn depends on the rest of the loop only if it skips a quoted text.
LEMMA LookupTurnIs ==
  ASSUME NEW s, NEW key, NEW p, NEW f
  PROVE  /\ Skips(s, key, p) => LookupTurn(s, key, p, f) = f[LookClose(s, p) + 1]
         /\ ~Skips(s, key, p) => LookupTurn(s, key, p, f) = LookupTurn(s, key, p, <<>>)
<1>. DEFINE open == Find(s, Quote, p)
            close == Find(s, Quote, open + 1)
            colon == Find(s, ":", open + Len(key) + 2)
            from == Skip(s, colon + 1, {" "})
            Turn(g) == IF open = 0 THEN <<>>
                       ELSE IF QuotedAt(s, open, key)
                       THEN IF colon = 0 \/ from > Len(s) THEN <<>> ELSE ValueFrom(s, from)
                       ELSE IF close = 0 THEN <<>>
                       ELSE g[close + 1]
<1>1. LookupTurn(s, key, p, f) = Turn(f) /\ LookupTurn(s, key, p, <<>>) = Turn(<<>>)
  BY Zenon DEF LookupTurn
<1>2. open = LookOpen(s, p) /\ close = LookClose(s, p)  BY DEF LookOpen, LookClose
<1>. HIDE DEF open, close, colon, from
<1>3. Skips(s, key, p) <=> open # 0 /\ ~QuotedAt(s, open, key) /\ close # 0  BY <1>2, Zenon DEF Skips
<1>4. ASSUME Skips(s, key, p) PROVE Turn(f) = f[close + 1]  BY <1>3, <1>4
<1>5. ASSUME ~Skips(s, key, p) PROVE Turn(f) = Turn(<<>>)  BY <1>3, <1>5
<1>. HIDE DEF Turn
<1>. QED  BY <1>1, <1>2, <1>4, <1>5

\* The quoted text behind p is the key, and a value follows; it is another one, and is
\* skipped.
TurnReads(s, key, p, open, colon, from) ==
  /\ open = Find(s, Quote, p) /\ open # 0 /\ QuotedAt(s, open, key)
  /\ colon = Find(s, ":", open + Len(key) + 2) /\ colon # 0
  /\ from = Skip(s, colon + 1, {" "}) /\ ~(from > Len(s))
TurnSkips(s, key, p, open, close, next) ==
  /\ open = Find(s, Quote, p) /\ open # 0 /\ ~QuotedAt(s, open, key)
  /\ close = Find(s, Quote, open + 1) /\ close # 0 /\ next = close + 1

\* What the turn gives then.
LEMMA LookupTurnReads ==
  ASSUME NEW s, NEW key, NEW p, NEW f, NEW open, NEW colon, NEW from, TurnReads(s, key, p, open, colon, from)
  PROVE  LookupTurn(s, key, p, f) = ValueFrom(s, from)
<1>1. LookupTurn(s, key, p, f) =
        IF open = 0 THEN <<>>
        ELSE IF QuotedAt(s, open, key)
        THEN IF colon = 0 \/ from > Len(s) THEN <<>> ELSE ValueFrom(s, from)
        ELSE IF Find(s, Quote, open + 1) = 0 THEN <<>>
        ELSE f[Find(s, Quote, open + 1) + 1]
  <2>1. /\ open = Find(s, Quote, p) /\ colon = Find(s, ":", open + Len(key) + 2)
        /\ from = Skip(s, colon + 1, {" "})
    BY DEF TurnReads
  <2>. QED  BY <2>1, Zenon DEF LookupTurn
<1>2. open # 0 /\ QuotedAt(s, open, key) /\ colon # 0 /\ ~(from > Len(s))  BY Zenon DEF TurnReads
<1>. QED  BY ONLY <1>1, <1>2, Zenon

\* The same where the text is skipped.
LEMMA LookupTurnSkips ==
  ASSUME NEW s, NEW key, NEW p, NEW f, NEW open, NEW close, NEW next,
         TurnSkips(s, key, p, open, close, next)
  PROVE  LookupTurn(s, key, p, f) = f[next]
<1>1. LookOpen(s, p) = open /\ LookClose(s, p) = close /\ next = close + 1  BY DEF TurnSkips, LookOpen, LookClose
<1>2. Skips(s, key, p)  BY <1>1, Zenon DEF TurnSkips, Skips
<1>. QED  BY <1>1, <1>2, LookupTurnIs

\* No quote is left.
LEMMA LookupTurnEnds ==
  ASSUME NEW s, NEW key, NEW p, NEW f, Find(s, Quote, p) = 0
  PROVE  LookupTurn(s, key, p, f) = <<>>
BY DEF LookupTurn

\* Two positions before the same quote.
LEMMA LookupTurnSame ==
  ASSUME NEW s, NEW key, NEW p, NEW q, NEW f, Find(s, Quote, p) = Find(s, Quote, q)
  PROVE  LookupTurn(s, key, p, f) = LookupTurn(s, key, q, f)
BY Zenon DEF LookupTurn

\* What the loop returns at each position.
LEMMA LookupUnfold ==
  ASSUME NEW s \in Seq(Chars), NEW key
  PROVE  \A p \in 1..(Len(s) + 1) : Lookup(s, key)[p] = LookupTurn(s, key, p, Lookup(s, key))
<1>. DEFINE Eq(f) == f = [p \in 1..(Len(s) + 1) |-> LookupTurn(s, key, p, f)]
            H == CHOOSE f : Eq(f)
<1>1. Lookup(s, key) = H
  BY Zenon DEF Lookup
<1>2. \E f : Eq(f)
  <2>1. PICK n \in Nat : n = Len(s) + 1  OBVIOUS
  <2>. DEFINE last(p) == LookupTurn(s, key, p, <<>>)
              X == {last(p) : p \in 1..n}
              res == [p \in 1..n |-> IF Skips(s, key, p) THEN <<>> ELSE <<last(p)>>]
              nxt == [p \in 1..n |-> IF Skips(s, key, p) THEN LookClose(s, p) + 1 ELSE 0]
  <2>2. res \in [1..n -> Seq(X)]
    <3>1. ASSUME NEW p \in 1..n PROVE res[p] \in Seq(X)
      <4>1. last(p) \in X  OBVIOUS
      <4>. HIDE DEF X, last
      <4>. QED  BY <4>1
    <3>. HIDE DEF X, last
    <3>. QED  BY <3>1
  <2>3. ASSUME NEW p \in 1..n, Skips(s, key, p)
        PROVE  LookClose(s, p) + 1 \in Nat /\ p < LookClose(s, p) + 1 /\ LookClose(s, p) + 1 <= n
               /\ LookClose(s, p) + 1 # 0
    <3>1. PICK l \in Nat : l = Len(s)  OBVIOUS
    <3>2. n = l + 1  BY <2>1, <3>1
    <3>3. LookOpen(s, p) # 0 /\ LookClose(s, p) # 0 /\ p \in Nat \ {0}  BY <2>3 DEF Skips
    <3>4. LookOpen(s, p) \in p..l  BY <3>1, <3>3, FindType DEF LookOpen
    <3>5. PICK o \in Nat : o = LookOpen(s, p) /\ p <= o  BY <3>4
    <3>6. o + 1 \in Nat \ {0}  OBVIOUS
    <3>7. LookClose(s, p) \in (o + 1)..l  BY <3>1, <3>3, <3>5, <3>6, FindType DEF LookClose
    <3>8. PICK c \in Nat : c = LookClose(s, p) /\ o + 1 <= c /\ c <= l  BY <3>7
    <3>9. c + 1 \in Nat /\ p < c + 1 /\ c + 1 <= n /\ c + 1 # 0
      BY ONLY <3>2, <3>5, <3>8, p \in 1..n, n \in Nat, o \in Nat, c \in Nat, l \in Nat
    <3>. QED  BY <3>8, <3>9
  <2>4. nxt \in [1..n -> Nat] /\ \A p \in 1..n : nxt[p] = 0 \/ (p < nxt[p] /\ nxt[p] <= n)
    BY <2>3
  <2>5. PICK f \in [1..n -> Seq(X)] : Loops(f, n, res, nxt)
    <3>. HIDE DEF X, res, nxt
    <3>. QED  BY ONLY <2>2, <2>4, LoopEnds, n \in Nat
  <2>. DEFINE g == [p \in 1..n |-> f[p][1]]
  <2>6. ASSUME NEW p \in 1..n PROVE g[p] = LookupTurn(s, key, p, g)
    <3>1. f[p] = res[p] \o (IF nxt[p] = 0 THEN <<>> ELSE f[nxt[p]])  BY <2>5 DEF Loops
    <3>2. CASE Skips(s, key, p)
      <4>1. PICK q \in 1..n : q = LookClose(s, p) + 1 /\ q # 0  BY <2>3, <3>2
      <4>2. res[p] = <<>> /\ nxt[p] = q  BY <3>2, <4>1
      <4>3. f[p] = <<>> \o f[q] /\ f[q] \in Seq(X)  BY <3>1, <4>1, <4>2
      <4>4. f[p] = f[q]
        <5>. HIDE DEF X
        <5>. QED  BY ONLY <4>3
      <4>5. g[p] = g[q]  BY <4>4
      <4>. HIDE DEF g
      <4>. QED  BY <3>2, <4>1, <4>5, LookupTurnIs
    <3>3. CASE ~Skips(s, key, p)
      <4>1. res[p] = <<last(p)>> /\ nxt[p] = 0  BY <3>3
      <4>2. f[p] = <<last(p)>> \o <<>>
        <5>. HIDE DEF last
        <5>. QED  BY ONLY <3>1, <4>1
      <4>3. f[p][1] = last(p)
        <5>. HIDE DEF last
        <5>. QED  BY ONLY <4>2
      <4>4. g[p] = last(p)  BY <4>3
      <4>. HIDE DEF g
      <4>. QED  BY <3>3, <4>4, LookupTurnIs
    <3>. QED  BY <3>2, <3>3
  <2>7. Eq(g)
    <3>1. g = [p \in 1..n |-> g[p]]  OBVIOUS
    <3>. HIDE DEF g
    <3>2. [p \in 1..n |-> g[p]] = [p \in 1..n |-> LookupTurn(s, key, p, g)]  BY <2>6
    <3>. QED  BY <2>1, <3>1, <3>2
  <2>. HIDE DEF Eq, g
  <2>. QED  BY <2>7
<1>3. Eq(H)
  <2>. HIDE DEF Eq
  <2>. QED  BY <1>2
<1>4. \A p \in 1..(Len(s) + 1) : H[p] = LookupTurn(s, key, p, H)
  <2>. HIDE DEF H
  <2>. QED  BY <1>3
<1>. HIDE DEF H
<1>. QED  BY <1>1, <1>4

\* f is what the loop returns at each position.
Looks(s, key, f) == \A p \in 1..(Len(s) + 1) : f[p] = LookupTurn(s, key, p, f)

\* At an entry, that is its value if it has the key, otherwise what is found behind it.
FoundAt(f, k, es, at, i) ==
  /\ es[i].key = k => f[at[i]] = es[i].value.ref
  /\ es[i].key # k /\ i < Len(es) => f[at[i]] = f[at[i + 1]]
  /\ es[i].key # k /\ i = Len(es) => f[at[i]] = <<>>

\* The loop at an entry.
LEMMA LookupAtEntry ==
  ASSUME PropertyAssumption, NoKeyStrings(Values), NEW k \in Keys,
         NEW s \in Seq(Chars), NEW es \in Seq(Entries), NEW at, NEW i \in 1..Len(es),
         NEW V \in Nat, NEW W \in Nat, Stand(s, es, at, i, V, W),
         NEW f, Looks(s, KeyText[k], f)
  PROVE  FoundAt(f, k, es, at, i)
<1>1. PICK p \in Nat, l \in Nat : p = at[i] /\ l = Len(s)
  <2>1. at[i] \in Nat  BY DEF Stand
  <2>2. Len(s) \in Nat  OBVIOUS
  <2>. QED  BY <2>1, <2>2
<1>2. PICK e \in Entries : e = es[i]  OBVIOUS
<1>3. /\ Shape(s, p, V, W, e.value.is_string) /\ Placed(s, p, e) /\ V = p + KeyLen(e) + 4 /\ W = p + Size(e)
      /\ at[i + 1] = W + 2 /\ W <= Len(s)
  BY <1>1, <1>2 DEF Stand
<1>4. 1 <= p /\ p + 4 <= V /\ V <= W /\ W <= l
  <2>1. 1 <= p /\ p + 4 <= V /\ V <= W /\ W <= Len(s)  BY <1>3 DEF Shape
  <2>. QED  BY <1>1, <2>1
<1>5. /\ Find(s, Quote, p) = p
      /\ Find(s, Quote, p + 1) = V - 3
      /\ Find(s, ":", V - 2) = V - 2
      /\ Skip(s, V - 1, {" "}) = V
      /\ ReadEnd(s, V) = IF e.value.is_string THEN W - 1 ELSE W
  <2>1. Scanned(s, p, V, W, e.value.is_string)  BY <1>3, ScanEntry, Zenon
  <2>. QED  BY <2>1 DEF Scanned
<1>6. /\ s[V - 2] = ":" /\ s[V - 1] = " " /\ s[W] \in {",", "}"}
      /\ e.value.is_string => V + 2 <= W /\ s[V] = Quote /\ s[W - 1] = Quote
                              /\ \A r \in (V + 1)..(W - 2) : s[r] # Quote
      /\ ~e.value.is_string => \A r \in V..(W - 1) : s[r] \notin Punctuation
  BY <1>3 DEF Shape
<1>7. /\ QuotedAt(s, p, KeyText[k]) <=> e.key = k
      /\ \A q \in Nat : p < q /\ q < W + 2 => ~QuotedAt(s, q, KeyText[k])
  <2>1. /\ QuotedAt(s, at[i], KeyText[k]) <=> es[i].key = k
        /\ \A q \in Nat : at[i] < q /\ q < at[i + 1] => ~QuotedAt(s, q, KeyText[k])
    BY KeyInEntry
  <2>. QED  BY <1>1, <1>2, <1>3, <2>1
<1>8. Quote \notin {":", ",", " ", "}"} /\ Quote \in Punctuation  BY DEF Quote, Punctuation
<1>9. /\ p \in 1..(l + 1) /\ V - 2 \in 1..(l + 1) /\ W \in 1..(l + 1) /\ p # 0
      /\ V - 3 # 0 /\ V - 3 + 1 = V - 2 /\ V - 2 # 0 /\ V - 2 + 1 = V - 1 /\ ~(V > l)
  BY ONLY <1>4, p \in Nat, V \in Nat, W \in Nat, l \in Nat
<1>10. \A q \in 1..(l + 1) : f[q] = LookupTurn(s, KeyText[k], q, f)  BY <1>1 DEF Looks
<1>11. ASSUME e.key = k PROVE f[p] = e.value.ref
  <2>1. QuotedAt(s, p, KeyText[k])  BY <1>7, <1>11
  <2>2. Find(s, ":", p + Len(KeyText[k]) + 2) = V - 2
    <3>1. PICK K \in Nat : K = KeyLen(e) /\ K = Len(KeyText[k])  BY <1>11, EntryTexts DEF KeyLen
    <3>2. V = p + K + 4  BY <1>3, <3>1
    <3>3. p + K + 2 = V - 2  BY ONLY <3>2, p \in Nat, K \in Nat, V \in Nat
    <3>. QED  BY <1>5, <3>1, <3>3
  <2>3. Skip(s, V - 2 + 1, {" "}) = V  BY <1>5, <1>9
  <2>4. ~(V > Len(s))  BY <1>1, <1>9
  <2>5. LookupTurn(s, KeyText[k], p, f) = ValueFrom(s, V)
    <3>1. TurnReads(s, KeyText[k], p, p, V - 2, V)
      BY ONLY <1>5, <1>9, <2>1, <2>2, <2>3, <2>4, Zenon DEF TurnReads
    <3>. QED  BY ONLY <3>1, LookupTurnReads, Zenon
  <2>6. ValueFrom(s, V) = e.value.ref
    BY <1>1, <1>3, EntryRead
  <2>. QED  BY <1>9, <1>10, <2>5, <2>6
<1>12. ASSUME i < Len(es) PROVE Find(s, Quote, W) = W + 2 /\ Find(s, Quote, W + 2) = W + 2 /\ W + 2 <= l
  <2>1. s[W] = "," /\ s[W + 1] = " " /\ s[W + 2] = Quote  BY <1>12 DEF Stand
  <2>2. W + 2 <= l
    <3>1. W + 2 <= Len(s)  BY <1>12 DEF Stand
    <3>. QED  BY <1>1, <3>1
  <2>3. /\ W \in Nat \ {0} /\ W + 2 \in W..l /\ W..((W + 2) - 1) = {W, W + 1}
        /\ W + 2 \in Nat \ {0} /\ W + 2 \in (W + 2)..l /\ (W + 2)..((W + 2) - 1) = {}
    BY ONLY <1>4, <2>2, p \in Nat, V \in Nat, W \in Nat, l \in Nat
  <2>4. \A r \in {W, W + 1} : s[r] # Quote  BY <1>8, <2>1
  <2>5. Find(s, Quote, W) = W + 2
    BY ONLY <1>1, <2>1, <2>3, <2>4, s \in Seq(Chars), FindIs
  <2>6. Find(s, Quote, W + 2) = W + 2
    <3>1. \A r \in (W + 2)..((W + 2) - 1) : s[r] # Quote  BY ONLY <2>3
    <3>2. W + 2 \in Nat \ {0} /\ W + 2 \in (W + 2)..Len(s)  BY ONLY <1>1, <2>3
    <3>. QED  BY ONLY <2>1, <3>1, <3>2, s \in Seq(Chars), FindIs
  <2>. QED  BY <2>2, <2>5, <2>6
<1>13. ASSUME i = Len(es) PROVE Find(s, Quote, W) = 0
  <2>1. s[W] = "}" /\ W = Len(s)  BY <1>13 DEF Stand
  <2>2. W = l  BY <1>1, <2>1
  <2>3. W \in Nat \ {0} /\ W..l = {W}  BY ONLY <1>4, <2>2, p \in Nat, V \in Nat, W \in Nat, l \in Nat
  <2>4. \A r \in W..l : s[r] # Quote  BY <1>8, <2>1, <2>3
  <2>. QED  BY ONLY <1>1, <2>3, <2>4, s \in Seq(Chars), FindNone
<1>14. /\ i < Len(es) => f[W] = f[W + 2]
       /\ i = Len(es) => f[W] = <<>>
  <2>1. ASSUME i < Len(es) PROVE f[W] = f[W + 2]
    <3>1. W + 2 \in 1..(l + 1)  BY <1>12, <2>1
    <3>2. f[W] = LookupTurn(s, KeyText[k], W, f) /\ f[W + 2] = LookupTurn(s, KeyText[k], W + 2, f)
      BY <1>9, <1>10, <3>1
    <3>3. Find(s, Quote, W) = Find(s, Quote, W + 2)  BY <1>12, <2>1
    <3>4. LookupTurn(s, KeyText[k], W, f) = LookupTurn(s, KeyText[k], W + 2, f)  BY <3>3, LookupTurnSame
    <3>. QED  BY <3>2, <3>4
  <2>2. ASSUME i = Len(es) PROVE f[W] = <<>>
    <3>1. f[W] = LookupTurn(s, KeyText[k], W, f)  BY <1>9, <1>10
    <3>2. Find(s, Quote, W) = 0  BY <1>13, <2>2
    <3>. QED  BY <3>1, <3>2, LookupTurnEnds
  <2>. QED  BY <2>1, <2>2
<1>15. f[V - 2] = f[W]
  <2>1. f[V - 2] = LookupTurn(s, KeyText[k], V - 2, f)  BY <1>9, <1>10
  <2>2. CASE e.value.is_string
    <3>1. s[V] = Quote /\ V + 2 <= W  BY <1>6, <2>2
    <3>0. V + 2 <= W  BY <3>1
    <3>2. V - 2 \in Nat \ {0} /\ V \in (V - 2)..l /\ (V - 2)..(V - 1) = {V - 2, V - 1} /\ V # 0
          /\ p < V /\ V < W + 2 /\ W - 1 # 0 /\ W - 1 + 1 = W
      BY ONLY <1>4, <3>0, p \in Nat, V \in Nat, W \in Nat, l \in Nat
    <3>3. \A r \in (V - 2)..(V - 1) : s[r] # Quote  BY <1>6, <1>8, <3>2
    <3>4. Find(s, Quote, V - 2) = V
      BY ONLY <1>1, <3>1, <3>2, <3>3, s \in Seq(Chars), FindIs
    <3>5. Find(s, Quote, V + 1) = W - 1  BY <1>5, <2>2, <3>1 DEF ReadEnd
    <3>6. ~QuotedAt(s, V, KeyText[k])  BY <1>7, <3>2
    <3>7. LookupTurn(s, KeyText[k], V - 2, f) = f[W]
      <4>1. TurnSkips(s, KeyText[k], V - 2, V, W - 1, W)  BY ONLY <3>2, <3>4, <3>5, <3>6, Zenon DEF TurnSkips
      <4>. QED  BY ONLY <4>1, LookupTurnSkips
    <3>. QED  BY <2>1, <3>2, <3>7
  <2>3. CASE ~e.value.is_string
    <3>1. \A r \in (V - 2)..(W - 1) : s[r] # Quote
      <4>1. ASSUME NEW r \in (V - 2)..(W - 1) PROVE s[r] # Quote
        <5>1. r = V - 2 \/ r = V - 1 \/ r \in V..(W - 1)  OBVIOUS
        <5>2. r \in V..(W - 1) => s[r] # Quote  BY <1>6, <1>8, <2>3
        <5>. QED  BY <1>6, <1>8, <5>1, <5>2
      <4>. QED  BY <4>1
    <3>2. Find(s, Quote, V - 2) = Find(s, Quote, W)
      <4>1. CASE i < Len(es)
        <5>1. Find(s, Quote, W) = W + 2 /\ W + 2 <= l  BY <1>12, <4>1
        <5>2. V - 2 \in Nat \ {0} /\ W + 2 \in (V - 2)..l
          BY ONLY <1>4, <5>1, W + 2 <= l, p \in Nat, V \in Nat, W \in Nat, l \in Nat
        <5>3. s[W] = "," /\ s[W + 1] = " " /\ s[W + 2] = Quote  BY <4>1 DEF Stand
        <5>4. \A r \in (V - 2)..((W + 2) - 1) : s[r] # Quote
          <6>1. ASSUME NEW r \in (V - 2)..((W + 2) - 1) PROVE s[r] # Quote
            <7>1. r \in (V - 2)..(W - 1) \/ r = W \/ r = W + 1  OBVIOUS
            <7>. QED  BY <1>8, <3>1, <5>3, <7>1
          <6>. QED  BY <6>1
        <5>5. Find(s, Quote, V - 2) = W + 2
          BY ONLY <1>1, <5>2, <5>3, <5>4, s \in Seq(Chars), FindIs
        <5>. QED  BY <5>1, <5>5
      <4>2. CASE i = Len(es)
        <5>1. s[W] = "}" /\ W = Len(s)  BY <4>2 DEF Stand
        <5>2. W = l  BY <1>1, <5>1
        <5>3. V - 2 \in Nat \ {0} /\ (V - 2)..l = (V - 2)..(W - 1) \cup {W}
          BY ONLY <1>4, <5>2, p \in Nat, V \in Nat, W \in Nat, l \in Nat
        <5>4. \A r \in (V - 2)..l : s[r] # Quote  BY <1>8, <3>1, <5>1, <5>3
        <5>5. Find(s, Quote, V - 2) = 0  BY ONLY <1>1, <5>3, <5>4, s \in Seq(Chars), FindNone
        <5>. QED  BY <1>13, <4>2, <5>5
      <4>3. i < Len(es) \/ i = Len(es)  OBVIOUS
      <4>. QED  BY <4>1, <4>2, <4>3
    <3>3. LookupTurn(s, KeyText[k], V - 2, f) = LookupTurn(s, KeyText[k], W, f)  BY <3>2, LookupTurnSame
    <3>4. f[W] = LookupTurn(s, KeyText[k], W, f)  BY <1>9, <1>10
    <3>. QED  BY <2>1, <3>3, <3>4
  <2>. QED  BY <2>2, <2>3
<1>16. ASSUME e.key # k PROVE f[p] = f[W]
  <2>1. ~QuotedAt(s, p, KeyText[k])  BY <1>7, <1>16
  <2>2. LookupTurn(s, KeyText[k], p, f) = f[V - 2]
    <3>1. TurnSkips(s, KeyText[k], p, p, V - 3, V - 2)  BY ONLY <1>5, <1>9, <2>1, Zenon DEF TurnSkips
    <3>. QED  BY ONLY <3>1, LookupTurnSkips
  <2>. QED  BY <1>9, <1>10, <1>15, <2>2
<1>. QED  BY <1>1, <1>2, <1>3, <1>11, <1>14, <1>16 DEF FoundAt

\* Every key has at most one entry.
Distinct(es) == \A i, j \in 1..Len(es) : es[i].key = es[j].key => i = j

\* What get_json_value finds in a layout: the value of the key.
LEMMA LookupOfLayout ==
  ASSUME PropertyAssumption, NoKeyStrings(Values), NEW k \in Keys,
         NEW s, NEW es, NEW at, Laid(s, es, at), Distinct(es)
  PROVE  /\ \A i \in 1..Len(es) : es[i].key = k => get_json_value(s, KeyText[k]) = es[i].value.ref
         /\ (\A i \in 1..Len(es) : es[i].key # k) => get_json_value(s, KeyText[k]) = <<>>
<1>1. s \in Seq(Chars) /\ es \in Seq(Entries) /\ at[1] = 2  BY DEF Laid, Starts
<1>2. PICK n \in Nat, l \in Nat : n = Len(es) /\ l = Len(s)  BY <1>1
<1>3. PICK f : f = Lookup(s, KeyText[k])  OBVIOUS
<1>4. \A p \in 1..(Len(s) + 1) : f[p] = LookupTurn(s, KeyText[k], p, f)  BY <1>1, <1>3, LookupUnfold
<1>5. get_json_value(s, KeyText[k]) = f[1]  BY <1>3 DEF get_json_value
<1>6. CASE n = 0
  <2>1. Len(s) = 2  BY <1>2, <1>6 DEF Laid
  <2>2. s[1] = "{" /\ s[2] = "}"  BY <2>1 DEF Laid
  <2>3. 1 \in Nat \ {0} /\ 1..Len(s) = {1, 2} /\ 1 \in 1..(Len(s) + 1)  BY ONLY <2>1
  <2>4. \A r \in 1..Len(s) : s[r] # Quote  BY <2>2, <2>3 DEF Quote
  <2>5. Find(s, Quote, 1) = 0  BY ONLY <1>1, <2>3, <2>4, FindNone
  <2>6. f[1] = LookupTurn(s, KeyText[k], 1, f)  BY <1>4, <2>3
  <2>7. f[1] = <<>>  BY <2>5, <2>6, LookupTurnEnds
  <2>. QED  BY <1>2, <1>5, <1>6, <2>7
<1>7. CASE n # 0
  <2>1. ASSUME NEW i \in 1..n
        PROVE  /\ es[i].key = k => f[at[i]] = es[i].value.ref
               /\ es[i].key # k /\ i < n => f[at[i]] = f[at[i + 1]]
               /\ es[i].key # k /\ i = n => f[at[i]] = <<>>
    <3>1. i \in 1..Len(es)  BY <1>2
    <3>2. PICK V \in Nat, W \in Nat : Stand(s, es, at, i, V, W)  BY <3>1, EveryEntryStands
    <3>3. Looks(s, KeyText[k], f)  BY <1>4 DEF Looks
    <3>4. FoundAt(f, k, es, at, i)  BY <1>1, <3>1, <3>2, <3>3, LookupAtEntry, Zenon
    <3>. QED  BY <1>2, <3>4 DEF FoundAt
  <2>2. f[1] = f[2]
    <3>1. 1 \in 1..n /\ 1 \in 1..Len(es)  BY <1>2, <1>7
    <3>2. PICK V \in Nat, W \in Nat : Stand(s, es, at, 1, V, W)  BY <3>1, EveryEntryStands
    <3>3. Shape(s, 2, V, W, es[1].value.is_string)  BY <1>1, <3>2 DEF Stand
    <3>4. 2 + 4 <= V /\ V <= W /\ W <= Len(s)  BY <3>3 DEF Shape
    <3>5. W <= l  BY <1>2, <3>4
    <3>6. 2 <= l /\ 1 \in 1..(l + 1) /\ 2 \in 1..(l + 1) /\ 1 \in Nat \ {0} /\ 2 \in 1..l /\ 1..(2 - 1) = {1}
      BY ONLY <3>4, <3>5, V \in Nat, W \in Nat, l \in Nat
    <3>7. Find(s, Quote, 2) = 2
      <4>1. Scanned(s, 2, V, W, es[1].value.is_string)  BY <3>3, ScanEntry, Zenon
      <4>. QED  BY <4>1 DEF Scanned
    <3>8. Find(s, Quote, 1) = 2
      <4>1. s[2] = Quote  BY <3>3 DEF Shape
      <4>2. s[1] = "{"  BY DEF Laid
      <4>3. \A r \in 1..(2 - 1) : s[r] # Quote  BY <3>6, <4>2 DEF Quote
      <4>. QED  BY ONLY <1>1, <1>2, <3>6, <4>1, <4>3, FindIs
    <3>9. f[1] = LookupTurn(s, KeyText[k], 1, f) /\ f[2] = LookupTurn(s, KeyText[k], 2, f)
      BY <1>2, <1>4, <3>6
    <3>. QED  BY <3>7, <3>8, <3>9, LookupTurnSame
  <2>. DEFINE T == {j \in 0..(n - 1) : \/ f[1] = f[at[j + 1]] /\ \A i \in 1..j : es[i].key # k
                                       \/ \E i \in 1..j : es[i].key = k /\ f[1] = es[i].value.ref}
  <2>3. 0 \in T
    <3>1. 0 \in 0..(n - 1) /\ 0 + 1 = 1 /\ 1..0 = {}  BY ONLY <1>7, n \in Nat
    <3>. QED  BY <1>1, <2>2, <3>1
  <2>4. ASSUME NEW j \in 1..(n - 1), j - 1 \in T PROVE j \in T
    <3>1. j \in 1..n /\ j < n /\ j - 1 + 1 = j /\ j \in 0..(n - 1) /\ 1..j = 1..(j - 1) \cup {j}
      BY ONLY <1>7, n \in Nat, j \in 1..(n - 1)
    <3>2. CASE \E i \in 1..(j - 1) : es[i].key = k /\ f[1] = es[i].value.ref  BY <3>1, <3>2
    <3>3. CASE f[1] = f[at[j]] /\ \A i \in 1..(j - 1) : es[i].key # k
      <4>1. CASE es[j].key = k  BY <2>1, <3>1, <3>3, <4>1
      <4>2. CASE es[j].key # k  BY <2>1, <3>1, <3>3, <4>2
      <4>. QED  BY <4>1, <4>2
    <3>. QED  BY <2>4, <3>1, <3>2, <3>3
  <2>5. n - 1 \in T
    <3>1. T \in SUBSET (0..(n - 1)) /\ n - 1 \in Nat  BY <1>7
    <3>. HIDE DEF T
    <3>. QED  BY <2>3, <2>4, <3>1, StepInduction
  <2>6. n - 1 + 1 = n /\ n \in 1..n /\ 1..n = 1..(n - 1) \cup {n}  BY ONLY <1>7, n \in Nat
  <2>7. \/ \E i \in 1..n : es[i].key = k /\ f[1] = es[i].value.ref
        \/ f[1] = <<>> /\ \A i \in 1..n : es[i].key # k
    <3>1. CASE \E i \in 1..(n - 1) : es[i].key = k /\ f[1] = es[i].value.ref  BY <2>6, <3>1
    <3>2. CASE f[1] = f[at[n]] /\ \A i \in 1..(n - 1) : es[i].key # k
      <4>1. CASE es[n].key = k  BY <2>1, <2>6, <3>2, <4>1
      <4>2. CASE es[n].key # k  BY <2>1, <2>6, <3>2, <4>2
      <4>. QED  BY <4>1, <4>2
    <3>. QED  BY <2>5, <2>6, <3>1, <3>2
  <2>8. \A i, j \in 1..n : es[i].key = es[j].key => i = j  BY <1>2 DEF Distinct
  <2>. QED  BY <1>2, <1>5, <2>7, <2>8
<1>. QED  BY <1>6, <1>7

-----------------------------------------------------------------------------
(***************************************************************************)
(* What the writers write.                                                 *)
(***************************************************************************)

\* The text t is a, of length m, and b, of length n, behind it.
Joins(t, a, b, m, n) ==
  /\ t \in Seq(Chars) /\ Len(t) = m + n
  /\ \A j \in 1..m : t[j] = a[j]
  /\ \A j \in 1..n : t[m + j] = b[j]

\* That is how \o joins them.
LEMMA Joined ==
  ASSUME NEW a \in Seq(Chars), NEW b \in Seq(Chars), NEW m \in Nat, Len(a) = m, NEW n \in Nat, Len(b) = n
  PROVE  \E t \in Seq(Chars) : t = a \o b /\ Joins(t, a, b, m, n)
<1>1. Joins(a \o b, a, b, m, n) /\ a \o b \in Seq(Chars)  BY DEF Joins
<1>. QED  BY <1>1, Zenon

\* Texts of one to three characters.
LEMMA OneChar ==
  ASSUME NEW x \in Chars
  PROVE  \E t \in Seq(Chars) : t = <<x>> /\ Len(t) = 1 /\ t[1] = x
<1>1. <<x>> \in Seq(Chars) /\ Len(<<x>>) = 1 /\ <<x>>[1] = x  OBVIOUS
<1>. QED  BY <1>1, Zenon

\* Two.
LEMMA TwoChars ==
  ASSUME NEW x \in Chars, NEW y \in Chars
  PROVE  \E t \in Seq(Chars) : t = <<x, y>> /\ Len(t) = 2 /\ t[1] = x /\ t[2] = y
<1>1. <<x, y>> \in Seq(Chars) /\ Len(<<x, y>>) = 2 /\ <<x, y>>[1] = x /\ <<x, y>>[2] = y  OBVIOUS
<1>. QED  BY <1>1, Zenon

\* Three.
LEMMA ThreeChars ==
  ASSUME NEW x \in Chars, NEW y \in Chars, NEW z \in Chars
  PROVE  \E t \in Seq(Chars) : t = <<x, y, z>> /\ Len(t) = 3 /\ t[1] = x /\ t[2] = y /\ t[3] = z
<1>1. /\ <<x, y, z>> \in Seq(Chars) /\ Len(<<x, y, z>>) = 3
      /\ <<x, y, z>>[1] = x /\ <<x, y, z>>[2] = y /\ <<x, y, z>>[3] = z
  OBVIOUS
<1>. QED  BY <1>1, Zenon

\* An entry that is copied from p to q.
LEMMA StandsCopied ==
  ASSUME PropertyAssumption, NEW e \in Entries, NEW s, NEW t, NEW p \in Nat, NEW q \in Nat,
         Stands(s, p, e), \A j \in 0..(Size(e) - 1) : t[q + j] = s[p + j]
  PROVE  Stands(t, q, e)
<1>1. PICK K \in Nat, L \in Nat : K = KeyLen(e) /\ L = ValueLen(e)  BY EntryTexts
<1>2. \A j \in 0..(K + 4 + L - 1) : t[q + j] = s[p + j]  BY <1>1 DEF Size
<1>3. /\ s[p] = Quote /\ s[p + K + 1] = Quote /\ s[p + K + 2] = ":" /\ s[p + K + 3] = " "
      /\ \A j \in 1..K : s[p + j] = KeyText[e.key][j]
      /\ \A j \in 1..L : s[p + K + 3 + j] = Written(e.value)[j]
  BY <1>1 DEF Stands
<1>4. /\ t[q + 0] = s[p + 0] /\ t[q + (K + 1)] = s[p + (K + 1)] /\ t[q + (K + 2)] = s[p + (K + 2)]
      /\ t[q + (K + 3)] = s[p + (K + 3)]
  <2>1. 0 \in 0..(K + 4 + L - 1) /\ K + 1 \in 0..(K + 4 + L - 1) /\ K + 2 \in 0..(K + 4 + L - 1)
        /\ K + 3 \in 0..(K + 4 + L - 1)
    OBVIOUS
  <2>. QED  BY ONLY <1>2, <2>1
<1>5. /\ q + 0 = q /\ p + 0 = p /\ q + (K + 1) = q + K + 1 /\ p + (K + 1) = p + K + 1
      /\ q + (K + 2) = q + K + 2 /\ p + (K + 2) = p + K + 2
      /\ q + (K + 3) = q + K + 3 /\ p + (K + 3) = p + K + 3
  OBVIOUS
<1>6. t[q] = Quote /\ t[q + K + 1] = Quote /\ t[q + K + 2] = ":" /\ t[q + K + 3] = " "
  BY ONLY <1>3, <1>4, <1>5
<1>7. ASSUME NEW j \in 1..K PROVE t[q + j] = KeyText[e.key][j]
  <2>1. j \in 0..(K + 4 + L - 1)  OBVIOUS
  <2>. QED  BY ONLY <1>2, <1>3, <2>1, j \in 1..K
<1>8. ASSUME NEW j \in 1..L PROVE t[q + K + 3 + j] = Written(e.value)[j]
  <2>1. K + 3 + j \in 0..(K + 4 + L - 1) /\ q + (K + 3 + j) = q + K + 3 + j /\ p + (K + 3 + j) = p + K + 3 + j
    OBVIOUS
  <2>2. t[q + (K + 3 + j)] = s[p + (K + 3 + j)]  BY ONLY <1>2, <2>1
  <2>. QED  BY ONLY <1>3, <2>1, <2>2, j \in 1..L
<1>. QED  BY <1>1, <1>6, <1>7, <1>8 DEF Stands

\* The text of an entry.
LEMMA EntryIs ==
  ASSUME PropertyAssumption, NEW e \in Entries
  PROVE  /\ Entry(e.key, e.value) \in Seq(Chars)
         /\ Len(Entry(e.key, e.value)) = Size(e)
         /\ Stands(Entry(e.key, e.value), 1, e)
<1>1. PICK a \in Seq(Chars), w \in Seq(Chars), K \in Nat, L \in Nat :
        a = KeyText[e.key] /\ w = Written(e.value) /\ K = KeyLen(e) /\ L = ValueLen(e)
  BY EntryTexts
<1>2. Len(a) = K /\ Len(w) = L
  BY <1>1 DEF KeyLen, ValueLen
<1>3. Quote \in Chars /\ ":" \in Chars /\ " " \in Chars  BY DEF PropertyAssumption, Punctuation
<1>4. PICK q \in Seq(Chars) : q = <<Quote>> /\ Len(q) = 1 /\ q[1] = Quote
  BY ONLY <1>3, OneChar, Zenon
<1>5. PICK c \in Seq(Chars) : c = <<Quote, ":", " ">> /\ Len(c) = 3 /\ c[1] = Quote /\ c[2] = ":" /\ c[3] = " "
  <2>1. PICK x \in Chars, y \in Chars, z \in Chars : x = Quote /\ y = ":" /\ z = " "  BY <1>3, Zenon
  <2>2. PICK u \in Seq(Chars) : u = <<x, y, z>> /\ Len(u) = 3 /\ u[1] = x /\ u[2] = y /\ u[3] = z  BY ThreeChars
  <2>3. u = <<Quote, ":", " ">> /\ Len(u) = 3 /\ u[1] = Quote /\ u[2] = ":" /\ u[3] = " "  BY ONLY <2>1, <2>2
  <2>. QED  BY <2>3, Zenon
<1>0. 1 \in Nat /\ 3 \in Nat /\ 1 + K \in Nat /\ (1 + K) + 3 \in Nat  OBVIOUS
<1>6. PICK b \in Seq(Chars) : b = q \o a /\ Joins(b, q, a, 1, K)
  BY <1>0, <1>2, <1>4, Joined, Zenon
<1>7. /\ Len(b) = 1 + K
      /\ \A j \in 1..1 : b[j] = q[j]
      /\ \A j \in 1..K : b[1 + j] = a[j]
  BY <1>6 DEF Joins
<1>8. PICK d \in Seq(Chars) : d = b \o c /\ Joins(d, b, c, 1 + K, 3)
  BY <1>0, <1>5, <1>7, Joined, Zenon
<1>9. /\ Len(d) = (1 + K) + 3
      /\ \A j \in 1..(1 + K) : d[j] = b[j]
      /\ \A j \in 1..3 : d[(1 + K) + j] = c[j]
  BY <1>8 DEF Joins
<1>17. PICK t \in Seq(Chars) : t = d \o w /\ Joins(t, d, w, (1 + K) + 3, L)
  BY <1>0, <1>2, <1>9, Joined, Zenon
<1>10. /\ Len(t) = ((1 + K) + 3) + L
       /\ \A j \in 1..((1 + K) + 3) : t[j] = d[j]
       /\ \A j \in 1..L : t[((1 + K) + 3) + j] = w[j]
  BY <1>17 DEF Joins
<1>11. t = Entry(e.key, e.value)
  <2>1. t = <<Quote>> \o a \o <<Quote, ":", " ">> \o w  BY <1>4, <1>5, <1>6, <1>8, <1>17, Zenon
  <2>. QED  BY <1>1, <2>1 DEF Entry
<1>12. t[1] = Quote
  <2>1. 1 \in 1..1 /\ 1 \in 1..(1 + K) /\ 1 \in 1..((1 + K) + 3)  OBVIOUS
  <2>. QED  BY ONLY <1>4, <1>7, <1>9, <1>10, <2>1
<1>13. ASSUME NEW j \in 1..K PROVE t[1 + j] = a[j]
  <2>1. 1 + j \in 1..(1 + K) /\ 1 + j \in 1..((1 + K) + 3)  OBVIOUS
  <2>. QED  BY ONLY <1>7, <1>9, <1>10, <2>1, j \in 1..K
<1>14. ASSUME NEW j \in 1..3 PROVE t[(1 + K) + j] = c[j]
  <2>1. (1 + K) + j \in 1..((1 + K) + 3)  OBVIOUS
  <2>. QED  BY ONLY <1>9, <1>10, <2>1, j \in 1..3
<1>15. t[1 + K + 1] = Quote /\ t[1 + K + 2] = ":" /\ t[1 + K + 3] = " "
  <2>1. 1 \in 1..3 /\ 2 \in 1..3 /\ 3 \in 1..3  OBVIOUS
  <2>. QED  BY <1>5, <1>14, <2>1
<1>16. Stands(t, 1, e)
  BY <1>1, <1>10, <1>12, <1>13, <1>15 DEF Stands
<1>18. Len(t) = Size(e)
  BY <1>1, <1>10 DEF Size
<1>. QED  BY <1>11, <1>16, <1>18


\* The text t is s with one more entry in front of its last brace.
Grown(s, t, es, z, e) ==
  /\ t \in Seq(Chars) /\ Len(t) = Len(s) + z + Size(e)
  /\ z = IF Len(es) = 0 THEN 0 ELSE 2
  /\ \A r \in 1..(Len(s) - 1) : t[r] = s[r]
  /\ Len(es) # 0 => t[Len(s)] = "," /\ t[Len(s) + 1] = " "
  /\ Stands(t, Len(s) + z, e)
  /\ t[Len(t)] = "}"

\* It lays out one entry more.
LEMMA GrownIsLaid ==
  ASSUME PropertyAssumption, NEW s, NEW es, NEW at, Laid(s, es, at),
         NEW e \in Entries, NEW t, NEW z \in Nat, Grown(s, t, es, z, e)
  PROVE  \E more : Laid(t, Append(es, e), more)
<1>1. s \in Seq(Chars) /\ es \in Seq(Entries) /\ Starts(es, at) /\ t \in Seq(Chars)  BY DEF Laid, Starts, Grown
<1>2. PICK n \in Nat, l \in Nat, m \in Nat : n = Len(es) /\ l = Len(s) /\ m = Len(t)  BY <1>1
<1>3. /\ \A i \in 1..(n + 1) : at[i] \in Nat /\ 2 <= at[i]
      /\ \A i \in 1..n : Size(es[i]) \in Nat /\ 4 <= Size(es[i])
      /\ \A i, j \in 1..(n + 1) : i < j => at[i] + Size(es[i]) + 2 <= at[j]
  BY <1>1, <1>2, StartsInOrder
<1>4. at[1] = 2 /\ \A i \in 1..n : at[i + 1] = at[i] + Size(es[i]) + 2  BY <1>1, <1>2 DEF Starts
<1>5. n + 1 \in 1..(n + 1)  OBVIOUS
<1>6. PICK c \in Nat : c = at[n + 1]  BY <1>3, <1>5
<1>7. PICK Z \in Nat : Z = Size(e)
  <2>1. KeyLen(e) \in Nat /\ ValueLen(e) \in Nat  BY EntryTexts
  <2>. QED  BY <2>1 DEF Size
<1>8. z = (IF n = 0 THEN 0 ELSE 2) /\ c = l + z
  <2>1. z = IF n = 0 THEN 0 ELSE 2  BY <1>2 DEF Grown
  <2>2. CASE n = 0
    <3>1. Len(s) = 2  BY <1>2, <2>2 DEF Laid
    <3>2. c = 2 /\ l = 2  BY <1>2, <1>4, <1>6, <2>2, <3>1
    <3>. QED  BY <2>1, <2>2, <3>2
  <2>3. CASE n # 0
    <3>1. Len(s) = at[n + 1] - 2  BY <1>2, <2>3 DEF Laid
    <3>2. l = c - 2  BY <1>2, <1>6, <3>1
    <3>. QED  BY <2>1, <2>3, <3>2
  <2>. QED  BY <2>2, <2>3
<1>9. m = l + z + Z /\ \A r \in 1..(l - 1) : t[r] = s[r]
  <2>1. Len(t) = Len(s) + z + Size(e) /\ \A r \in 1..(Len(s) - 1) : t[r] = s[r]  BY DEF Grown
  <2>2. m = l + z + Z  BY <1>2, <1>7, <2>1
  <2>. QED  BY <1>2, <2>1, <2>2
<1>10. n # 0 => t[l] = "," /\ t[l + 1] = " "  BY <1>2 DEF Grown
<1>11. Stands(t, c, e) /\ t[m] = "}"
  <2>1. Stands(t, l + z, e)  BY <1>2 DEF Grown
  <2>. QED  BY <1>2, <1>8, <2>1 DEF Grown
<1>. DEFINE more == [i \in 1..(n + 2) |-> IF i = n + 2 THEN c + Z + 2 ELSE at[i]]
<1>12. PICK fs \in Seq(Entries) : fs = Append(es, e) /\ Len(fs) = n + 1
                                  /\ fs[n + 1] = e /\ \A i \in 1..n : fs[i] = es[i]
  <2>1. /\ Append(es, e) \in Seq(Entries) /\ Len(Append(es, e)) = n + 1
        /\ Append(es, e)[n + 1] = e /\ \A i \in 1..n : Append(es, e)[i] = es[i]
    BY ONLY <1>1, <1>2, e \in Entries, n \in Nat
  <2>. QED  BY <2>1, Zenon
<1>13. /\ more \in [1..(n + 2) -> Nat] /\ more[n + 2] = c + Z + 2
       /\ \A i \in 1..(n + 1) : more[i] = at[i] /\ i \in 1..(n + 2)
  <2>1. n + 2 \in 1..(n + 2) /\ \A i \in 1..(n + 1) : i # n + 2 /\ i \in 1..(n + 2)  OBVIOUS
  <2>2. \A i \in 1..(n + 2) : i # n + 2 => i \in 1..(n + 1)  OBVIOUS
  <2>3. c + Z + 2 \in Nat  OBVIOUS
  <2>. QED  BY <1>3, <2>1, <2>2, <2>3
<1>. HIDE DEF more
<1>14. Starts(fs, more)
  <2>1. more[1] = 2
    <3>1. 1 \in 1..(n + 1)  OBVIOUS
    <3>. QED  BY <1>4, <1>13, <3>1
  <2>2. ASSUME NEW i \in 1..(n + 1) PROVE more[i + 1] = more[i] + Size(fs[i]) + 2
    <3>1. CASE i = n + 1
      <4>1. n + 1 + 1 = n + 2  OBVIOUS
      <4>2. more[i] = c /\ more[i + 1] = c + Z + 2 /\ Size(fs[i]) = Z
        BY <1>5, <1>6, <1>7, <1>12, <1>13, <3>1, <4>1
      <4>. QED  BY ONLY <4>2
    <3>2. CASE i # n + 1
      <4>1. i \in 1..n /\ i + 1 \in 1..(n + 1)  BY ONLY <3>2, i \in 1..(n + 1), n \in Nat
      <4>2. at[i + 1] = at[i] + Size(es[i]) + 2  BY <1>4, <4>1
      <4>3. more[i + 1] = at[i + 1] /\ more[i] = at[i] /\ fs[i] = es[i]  BY <1>12, <1>13, <4>1
      <4>. QED  BY ONLY <4>2, <4>3
    <3>. QED  BY <3>1, <3>2
  <2>3. more \in [1..(Len(fs) + 1) -> Nat]
    <3>1. n + 1 + 1 = n + 2  OBVIOUS
    <3>. QED  BY <1>12, <1>13, <3>1
  <2>. QED  BY <1>12, <2>1, <2>2, <2>3 DEF Starts
<1>15. 2 <= l
  <2>1. CASE n = 0
    <3>1. Len(s) = 2  BY <1>2, <2>1 DEF Laid
    <3>. QED  BY <1>2, <3>1
  <2>2. CASE n # 0
    <3>1. n \in 1..n /\ n \in 1..(n + 1) /\ n < n + 1  BY <2>2
    <3>2. PICK a \in Nat, y \in Nat : a = at[n] /\ y = Size(es[n]) /\ 2 <= a /\ 4 <= y /\ a + y + 2 <= c
      BY <1>3, <1>5, <1>6, <3>1
    <3>. QED  BY <1>8, <3>2
  <2>. QED  BY <2>1, <2>2
<1>16. t[1] = "{"
  <2>1. s[1] = "{"  BY DEF Laid
  <2>2. 1 \in 1..(l - 1)  BY ONLY <1>15, l \in Nat
  <2>. QED  BY <1>9, <2>1, <2>2
<1>17. ASSUME NEW i \in 1..(n + 1) PROVE Stands(t, more[i], fs[i])
  <2>1. CASE i = n + 1  BY <1>5, <1>6, <1>11, <1>12, <1>13, <2>1
  <2>2. CASE i # n + 1
    <3>1. i \in 1..n /\ i < n + 1  BY ONLY <2>2, i \in 1..(n + 1), n \in Nat
    <3>2. PICK a \in Nat, y \in Nat : a = at[i] /\ y = Size(es[i]) /\ 2 <= a /\ 4 <= y /\ a + y + 2 <= c
      BY <1>3, <1>5, <1>6, <3>1
    <3>3. a + y <= l
      <4>1. n # 0  BY <3>1
      <4>. QED  BY ONLY <1>8, <3>2, <4>1, a \in Nat, y \in Nat, c \in Nat, l \in Nat, z \in Nat
    <3>4. ASSUME NEW j \in 0..(y - 1) PROVE t[a + j] = s[a + j]
      <4>0. 2 <= a  BY ONLY <3>2
      <4>1. a + j \in 1..(l - 1)  BY ONLY <4>0, <3>3, j \in 0..(y - 1), a \in Nat, y \in Nat, l \in Nat
      <4>. QED  BY <1>9, <4>1
    <3>5. Stands(s, a, es[i]) /\ es[i] \in Entries
      <4>1. Stands(s, at[i], es[i])  BY <1>2, <3>1 DEF Laid
      <4>2. a = at[i] /\ es[i] \in Entries  BY <1>1, <1>2, <3>1, <3>2
      <4>. QED  BY ONLY <4>1, <4>2
    <3>6. Stands(t, a, es[i])  BY <3>2, <3>4, <3>5, StandsCopied
    <3>. QED  BY <1>12, <1>13, <3>1, <3>2, <3>6
  <2>. QED  BY <2>1, <2>2
<1>18. ASSUME NEW i \in 1..(n + 1), i # n + 1 PROVE t[more[i + 1] - 2] = "," /\ t[more[i + 1] - 1] = " "
  <2>1. i \in 1..n /\ i + 1 \in 1..(n + 1) /\ n # 0  BY ONLY <1>18, n \in Nat
  <2>2. more[i + 1] = at[i + 1]  BY <1>13, <2>1
  <2>3. CASE i = n
    <3>0. z = 2 /\ c = l + z  BY <1>8, <2>1
    <3>2. c - 2 = l /\ c - 1 = l + 1  BY ONLY <3>0, c \in Nat, l \in Nat
    <3>1. more[i + 1] = c /\ c - 2 = l /\ c - 1 = l + 1  BY ONLY <1>6, <2>2, <2>3, <3>2
    <3>. QED  BY <1>10, <2>1, <3>1
  <2>4. CASE i # n
    <3>1. i + 1 \in 1..n /\ i + 1 < n + 1 /\ i < i + 1 /\ i \in 1..(n + 1)  BY ONLY <2>1, <2>4, n \in Nat
    <3>2. PICK a \in Nat, y \in Nat : a = at[i + 1] /\ y = Size(es[i + 1]) /\ 4 <= y /\ a + y + 2 <= c
      BY <1>3, <1>5, <1>6, <2>1, <3>1
    <3>3. PICK b \in Nat, x \in Nat : b = at[i] /\ x = Size(es[i]) /\ 2 <= b /\ 4 <= x /\ b + x + 2 <= a
      BY <1>3, <2>1, <3>1, <3>2
    <3>6. 4 <= y /\ a + y + 2 <= c /\ 2 <= b /\ 4 <= x /\ b + x + 2 <= a /\ c = l + z /\ z = 2
      BY <1>8, <2>1, <3>2, <3>3
    <3>4. a - 2 \in 1..(l - 1) /\ a - 1 \in 1..(l - 1)
      BY ONLY <3>6, a \in Nat, y \in Nat, b \in Nat, x \in Nat, c \in Nat, l \in Nat, z \in Nat
    <3>5. s[a - 2] = "," /\ s[a - 1] = " "
      <4>1. i \in 1..Len(es) /\ i # Len(es)  BY <1>2, <2>1, <2>4
      <4>2. s[at[i + 1] - 2] = "," /\ s[at[i + 1] - 1] = " "  BY <4>1 DEF Laid
      <4>. QED  BY <3>2, <4>2
    <3>. QED  BY <1>9, <2>2, <3>2, <3>4, <3>5
  <2>. QED  BY <2>3, <2>4
<1>19. Len(t) = more[Len(fs) + 1] - 2 /\ Len(fs) # 0
  <2>1. n + 1 + 1 = n + 2 /\ n + 1 # 0 /\ c + Z + 2 - 2 = l + z + Z  BY <1>8
  <2>. QED  BY <1>2, <1>9, <1>12, <1>13, <2>1
<1>20. Laid(t, fs, more)
  <2>1. t[Len(t)] = "}"  BY <1>2, <1>11
  <2>2. \A i \in 1..Len(fs) : Stands(t, more[i], fs[i])  BY <1>12, <1>17
  <2>3. \A i \in 1..Len(fs) : i # Len(fs) => t[more[i + 1] - 2] = "," /\ t[more[i + 1] - 1] = " "  BY <1>12, <1>18
  <2>. QED  BY <1>1, <1>14, <1>16, <1>19, <2>1, <2>2, <2>3, Zenon DEF Laid
<1>. QED  BY <1>12, <1>20

\* What stands between the entries.
Separator(es) == IF Len(es) = 0 THEN <<>> ELSE <<",", " ">>

\* b is a text without its last brace.
Opened(b, es, at) == Laid(b \o <<"}">>, es, at)

\* A text without its last brace, a separator, an entry and a brace: one entry more.
LEMMA AppendedIsLaid ==
  ASSUME PropertyAssumption, NEW b \in Seq(Chars), NEW es, NEW at, Opened(b, es, at), NEW e \in Entries
  PROVE  \E more : Opened(b \o Separator(es) \o Entry(e.key, e.value), Append(es, e), more)
<1>1. "}" \in Chars /\ "," \in Chars /\ " " \in Chars  BY DEF PropertyAssumption, Punctuation
<1>2. PICK x \in Seq(Chars) : x = <<"}">> /\ Len(x) = 1 /\ x[1] = "}"
  BY ONLY <1>1, OneChar, Zenon
<1>3. PICK z \in Nat : z = IF Len(es) = 0 THEN 0 ELSE 2  OBVIOUS
<1>4. PICK u \in Seq(Chars) : u = Separator(es) /\ Len(u) = z /\ (Len(es) # 0 => u[1] = "," /\ u[2] = " ")
  <2>1. CASE Len(es) = 0
    <3>1. Separator(es) = <<>> /\ z = 0  BY <1>3, <2>1 DEF Separator
    <3>2. <<>> \in Seq(Chars) /\ Len(<<>>) = 0  OBVIOUS
    <3>. QED  BY <2>1, <3>1, <3>2
  <2>2. CASE Len(es) # 0
    <3>1. PICK y \in Chars, v \in Chars : y = "," /\ v = " "  BY <1>1
    <3>2. PICK u \in Seq(Chars) : u = <<y, v>> /\ Len(u) = 2 /\ u[1] = y /\ u[2] = v  BY TwoChars
    <3>3. u = Separator(es) /\ z = 2  BY <1>3, <2>2, <3>1, <3>2 DEF Separator
    <3>. QED  BY <3>1, <3>2, <3>3
  <2>. QED  BY <2>1, <2>2
<1>5. PICK Z \in Nat : Z = Size(e)
  <2>1. KeyLen(e) \in Nat /\ ValueLen(e) \in Nat  BY EntryTexts
  <2>. QED  BY <2>1 DEF Size
<1>6. PICK w \in Seq(Chars) : w = Entry(e.key, e.value) /\ Len(w) = Z /\ Stands(w, 1, e)
  BY <1>5, EntryIs
<1>7. PICK m \in Nat : m = Len(b)  OBVIOUS
<1>8. 1 \in Nat /\ m + z \in Nat /\ (m + z) + Z \in Nat  OBVIOUS
<1>9. PICK s \in Seq(Chars) : s = b \o x /\ Joins(s, b, x, m, 1)  BY <1>2, <1>7, <1>8, Joined, Zenon
<1>10. PICK c \in Seq(Chars) : c = b \o u /\ Joins(c, b, u, m, z)  BY <1>4, <1>7, Joined, Zenon
<1>11. Len(c) = m + z /\ (\A j \in 1..m : c[j] = b[j]) /\ \A j \in 1..z : c[m + j] = u[j]
  BY <1>10 DEF Joins
<1>12. PICK d \in Seq(Chars) : d = c \o w /\ Joins(d, c, w, m + z, Z)  BY <1>6, <1>8, <1>11, Joined, Zenon
<1>13. Len(d) = (m + z) + Z /\ (\A j \in 1..(m + z) : d[j] = c[j]) /\ \A j \in 1..Z : d[(m + z) + j] = w[j]
  BY <1>12 DEF Joins
<1>14. PICK t \in Seq(Chars) : t = d \o x /\ Joins(t, d, x, (m + z) + Z, 1)  BY <1>2, <1>8, <1>13, Joined, Zenon
<1>15. /\ Len(t) = ((m + z) + Z) + 1 /\ \A j \in 1..((m + z) + Z) : t[j] = d[j]
       /\ \A j \in 1..1 : t[((m + z) + Z) + j] = x[j]
  BY <1>14 DEF Joins
<1>16. Len(s) = m + 1 /\ \A j \in 1..m : s[j] = b[j]  BY <1>9 DEF Joins
<1>17. Laid(s, es, at)  BY <1>2, <1>9, Zenon DEF Opened
<1>18. Grown(s, t, es, z, e)
  <2>1. Len(t) = Len(s) + z + Size(e)
    <3>1. ((m + z) + Z) + 1 = m + 1 + z + Z  OBVIOUS
    <3>. QED  BY ONLY <1>5, <1>15, <1>16, <3>1
  <2>2. ASSUME NEW r \in 1..(Len(s) - 1) PROVE t[r] = s[r]
    <3>1. m + 1 - 1 = m  OBVIOUS
    <3>2. r \in 1..m  BY ONLY <1>16, <3>1, r \in 1..(Len(s) - 1)
    <3>3. r \in 1..(m + z) /\ r \in 1..((m + z) + Z)  BY ONLY <3>2, m \in Nat, z \in Nat, Z \in Nat
    <3>. QED  BY ONLY <1>11, <1>13, <1>15, <1>16, <3>2, <3>3
  <2>3. ASSUME Len(es) # 0 PROVE t[Len(s)] = "," /\ t[Len(s) + 1] = " "
    <3>1. z = 2  BY <1>3, <2>3
    <3>2. /\ 1 \in 1..z /\ 2 \in 1..z /\ m + 1 \in 1..(m + z) /\ m + 2 \in 1..(m + z)
          /\ m + 1 \in 1..((m + z) + Z) /\ m + 2 \in 1..((m + z) + Z)
      BY ONLY <3>1, m \in Nat, z \in Nat, Z \in Nat
    <3>3. t[m + 1] = u[1] /\ t[m + 2] = u[2]  BY ONLY <1>11, <1>13, <1>15, <3>2
    <3>4. m + 1 + 1 = m + 2  OBVIOUS
    <3>. QED  BY ONLY <1>4, <1>16, <2>3, <3>3, <3>4
  <2>4. Stands(t, Len(s) + z, e)
    <3>1. PICK q \in Nat : q = m + 1 + z  OBVIOUS
    <3>2. ASSUME NEW j \in 0..(Z - 1) PROVE t[q + j] = w[1 + j]
      <4>1. 1 + j \in 1..Z /\ q + j = (m + z) + (1 + j) /\ (m + z) + (1 + j) \in 1..((m + z) + Z)
        BY ONLY <3>1, j \in 0..(Z - 1), m \in Nat, z \in Nat, Z \in Nat, q \in Nat
      <4>. QED  BY ONLY <1>13, <1>15, <4>1
    <3>3. \A j \in 0..(Size(e) - 1) : t[q + j] = w[1 + j]  BY <1>5, <3>2
    <3>4. Stands(t, q, e)
      <4>1. PICK p \in Nat : p = 1  OBVIOUS
      <4>2. Stands(w, p, e) /\ \A j \in 0..(Size(e) - 1) : t[q + j] = w[p + j]  BY <1>6, <3>3, <4>1
      <4>. QED  BY ONLY PropertyAssumption, e \in Entries, <4>2, StandsCopied
    <3>. QED  BY ONLY <1>16, <3>1, <3>4
  <2>5. t[Len(t)] = "}"
    <3>1. 1 \in 1..1  OBVIOUS
    <3>. QED  BY ONLY <1>2, <1>15, <3>1
  <2>. QED  BY <1>3, <2>1, <2>2, <2>3, <2>4, <2>5, Zenon DEF Grown
<1>19. \E more : Laid(t, Append(es, e), more)  BY <1>17, <1>18, GrownIsLaid, Zenon
<1>20. t = b \o Separator(es) \o Entry(e.key, e.value) \o <<"}">>
  BY <1>2, <1>4, <1>6, <1>10, <1>12, <1>14, Zenon
<1>. QED  BY <1>19, <1>20, Zenon DEF Opened

\* The text t is s with the text w of length m in place of its part from V to W.
Replaced(s, t, V, W, w, m) ==
  /\ t \in Seq(Chars) /\ Len(t) = (Len(s) - W) + (V + m)
  /\ \A r \in 1..(V - 1) : t[r] = s[r]
  /\ \A r \in 1..m : t[(V - 1) + r] = w[r]
  /\ \A r \in W..Len(s) : t[(r - W) + (V + m)] = s[r]

\* It lays out the entries, one of them with another value.
LEMMA ReplacedIsLaid ==
  ASSUME PropertyAssumption, NEW s, NEW es, NEW at, Laid(s, es, at), NEW j \in 1..Len(es),
         NEW V \in Nat, NEW W \in Nat, Stand(s, es, at, j, V, W), NEW e \in Entries, e.key = es[j].key,
         NEW t, Replaced(s, t, V, W, Written(e.value), ValueLen(e))
  PROVE  \E more : Laid(t, [es EXCEPT ![j] = e], more)
<1>1. s \in Seq(Chars) /\ es \in Seq(Entries) /\ Starts(es, at) /\ t \in Seq(Chars)  BY DEF Laid, Starts, Replaced
<1>2. PICK n \in Nat, l \in Nat : n = Len(es) /\ l = Len(s)  BY <1>1
<1>3. /\ \A i \in 1..(n + 1) : at[i] \in Nat /\ 2 <= at[i]
      /\ \A i \in 1..n : Size(es[i]) \in Nat /\ 4 <= Size(es[i])
      /\ \A i, k \in 1..(n + 1) : i < k => at[i] + Size(es[i]) + 2 <= at[k]
  BY <1>1, <1>2, StartsInOrder
<1>4. at[1] = 2 /\ \A i \in 1..n : at[i + 1] = at[i] + Size(es[i]) + 2  BY <1>1, <1>2 DEF Starts
<1>5. j \in 1..n /\ j + 1 \in 1..(n + 1) /\ n + 1 \in 1..(n + 1) /\ n # 0 /\ j \in 1..(n + 1)  BY <1>2
<1>6. PICK p \in Nat, K \in Nat, m \in Nat, c \in Nat :
        p = at[j] /\ K = KeyLen(e) /\ m = ValueLen(e) /\ c = at[n + 1]
  <2>1. at[j] \in Nat /\ at[n + 1] \in Nat  BY <1>3, <1>5
  <2>2. KeyLen(e) \in Nat /\ ValueLen(e) \in Nat  BY EntryTexts
  <2>. QED  BY <2>1, <2>2
<1>7. V = p + K + 4
  <2>1. KeyLen(es[j]) = K  BY <1>6 DEF KeyLen
  <2>2. V = at[j] + KeyLen(es[j]) + 4  BY DEF Stand
  <2>. QED  BY <1>6, <2>1, <2>2
<1>8. 2 <= p /\ V <= W /\ W <= l
  <2>1. 2 <= p  BY <1>3, <1>5, <1>6
  <2>2. W <= Len(s) /\ Shape(s, at[j], V, W, es[j].value.is_string)  BY DEF Stand
  <2>3. V <= W  BY <2>2 DEF Shape
  <2>4. W <= l  BY <1>2, <2>2
  <2>. QED  BY <2>1, <2>3, <2>4
<1>9. at[j + 1] = W + 2  BY DEF Stand
<1>10. l = c - 2
  <2>1. Len(s) = at[n + 1] - 2  BY <1>2, <1>5 DEF Laid
  <2>. QED  BY <1>2, <1>6, <2>1
<1>11. PICK B \in Nat : B = V + m  OBVIOUS
<1>12. /\ Len(t) = (l - W) + B
       /\ \A r \in 1..(V - 1) : t[r] = s[r]
       /\ \A r \in 1..m : t[(V - 1) + r] = Written(e.value)[r]
       /\ \A r \in W..l : t[(r - W) + B] = s[r]
  BY <1>2, <1>6, <1>11, Zenon DEF Replaced
<1>13. ASSUME NEW i \in 1..(n + 1), j < i PROVE W + 2 <= at[i]
  <2>1. CASE i = j + 1
    <3>1. at[i] = W + 2  BY <1>9, <2>1
    <3>. QED  BY <3>1
  <2>2. CASE i # j + 1
    <3>1. j + 1 < i /\ j + 1 \in 1..n  BY ONLY <1>5, <1>13, <2>2, i \in 1..(n + 1), n \in Nat
    <3>2. PICK a \in Nat, y \in Nat : a = at[i] /\ y = Size(es[j + 1])  BY <1>3, <3>1
    <3>3. at[j + 1] + Size(es[j + 1]) + 2 <= at[i]  BY <1>3, <1>5, <3>1
    <3>4. (W + 2) + y + 2 <= a  BY ONLY <1>9, <3>2, <3>3
    <3>5. W + 2 <= a  BY ONLY <3>4, W \in Nat, y \in Nat, a \in Nat
    <3>. QED  BY ONLY <3>2, <3>5
  <2>. QED  BY <2>1, <2>2
<1>. DEFINE more == [i \in 1..(n + 1) |-> IF i <= j THEN at[i] ELSE (at[i] - W) + B]
<1>14. PICK fs \in Seq(Entries) : fs = [es EXCEPT ![j] = e] /\ Len(fs) = n
                                  /\ fs[j] = e /\ \A i \in 1..n : i # j => fs[i] = es[i]
  <2>1. /\ [es EXCEPT ![j] = e] \in Seq(Entries) /\ Len([es EXCEPT ![j] = e]) = n
        /\ [es EXCEPT ![j] = e][j] = e /\ \A i \in 1..n : i # j => [es EXCEPT ![j] = e][i] = es[i]
    BY ONLY <1>1, <1>2, <1>5, e \in Entries, n \in Nat
  <2>. QED  BY <2>1, Zenon
<1>15. ASSUME NEW i \in 1..(n + 1)
       PROVE  /\ i <= j => more[i] = at[i]
              /\ j < i => more[i] = (at[i] - W) + B /\ (at[i] - W) + B \in Nat
  <2>1. i <= j => more[i] = at[i]  OBVIOUS
  <2>2. ASSUME j < i PROVE more[i] = (at[i] - W) + B /\ (at[i] - W) + B \in Nat
    <3>1. ~(i <= j)  BY ONLY <1>5, <2>2, i \in 1..(n + 1), n \in Nat
    <3>2. more[i] = (at[i] - W) + B  BY <3>1
    <3>3. PICK a \in Nat : a = at[i]  BY <1>3
    <3>4. W + 2 <= a  BY <1>13, <2>2, <3>3
    <3>5. (a - W) + B \in Nat  BY ONLY <3>4, a \in Nat, W \in Nat, B \in Nat
    <3>. QED  BY ONLY <3>2, <3>3, <3>5
  <2>. QED  BY <2>1, <2>2
<1>16. more \in [1..(n + 1) -> Nat]
  <2>1. ASSUME NEW i \in 1..(n + 1) PROVE (IF i <= j THEN at[i] ELSE (at[i] - W) + B) \in Nat
    <3>1. i <= j \/ j < i  BY ONLY <1>5, i \in 1..(n + 1), n \in Nat
    <3>2. at[i] \in Nat  BY <1>3
    <3>3. j < i => (at[i] - W) + B \in Nat  BY <1>15
    <3>. QED  BY ONLY <3>1, <3>2, <3>3
  <2>. QED  BY <2>1
<1>. HIDE DEF more
<1>17. more[1] = 2
  <2>1. 1 \in 1..(n + 1) /\ 1 <= j  BY <1>5
  <2>. QED  BY <1>4, <1>15, <2>1
<1>18. Size(e) = K + 4 + m  BY <1>6 DEF Size
<1>19. ASSUME NEW i \in 1..n PROVE more[i + 1] = more[i] + Size(fs[i]) + 2
  <2>0. i \in 1..(n + 1) /\ i + 1 \in 1..(n + 1)  OBVIOUS
  <2>1. at[i + 1] = at[i] + Size(es[i]) + 2  BY <1>4
  <2>2. i < j \/ i = j \/ j < i  BY ONLY <1>5, i \in 1..n, n \in Nat
  <2>3. CASE i < j
    <3>1. i + 1 <= j /\ i <= j /\ i # j  BY ONLY <1>5, <2>3, i \in 1..n, n \in Nat
    <3>2. more[i + 1] = at[i + 1] /\ more[i] = at[i] /\ fs[i] = es[i]  BY <1>14, <1>15, <2>0, <3>1
    <3>. QED  BY ONLY <2>1, <3>2
  <2>4. CASE i = j
    <3>1. j <= j /\ j < j + 1  BY ONLY <1>5, n \in Nat
    <3>2. more[j + 1] = (at[j + 1] - W) + B  BY <1>5, <1>15, <3>1
    <3>3. more[j] = p  BY <1>5, <1>6, <1>15, <3>1
    <3>4. ((W + 2) - W) + B = p + (K + 4 + m) + 2
      BY ONLY <1>7, <1>11, W \in Nat, B \in Nat, p \in Nat, K \in Nat, m \in Nat, V \in Nat
    <3>. QED  BY ONLY <1>9, <1>14, <1>18, <2>4, <3>2, <3>3, <3>4
  <2>5. CASE j < i
    <3>1. j < i + 1 /\ i # j  BY ONLY <1>5, <2>5, i \in 1..n, n \in Nat
    <3>2. PICK a \in Nat, y \in Nat, b \in Nat : a = at[i] /\ y = Size(es[i]) /\ b = at[i + 1]  BY <1>3, <2>0
    <3>3. b = a + y + 2  BY ONLY <2>1, <3>2
    <3>4. (b - W) + B = ((a - W) + B) + y + 2
      BY ONLY <3>3, a \in Nat, b \in Nat, y \in Nat, W \in Nat, B \in Nat
    <3>5. more[i + 1] = (at[i + 1] - W) + B /\ more[i] = (at[i] - W) + B /\ fs[i] = es[i]
      BY <1>14, <1>15, <2>0, <2>5, <3>1
    <3>. QED  BY ONLY <3>2, <3>4, <3>5
  <2>. QED  BY <2>2, <2>3, <2>4, <2>5
<1>20. Starts(fs, more)  BY <1>14, <1>16, <1>17, <1>19 DEF Starts
<1>21. t[1] = "{"
  <2>1. s[1] = "{"  BY DEF Laid
  <2>2. 1 \in 1..(V - 1)  BY ONLY <1>7, <1>8, p \in Nat, K \in Nat, V \in Nat
  <2>. QED  BY <1>12, <2>1, <2>2
<1>22. t[Len(t)] = "}"
  <2>1. s[Len(s)] = "}"  BY DEF Laid
  <2>2. l \in W..l  BY ONLY <1>8, W \in Nat, l \in Nat
  <2>3. t[(l - W) + B] = s[l]  BY <1>12, <2>2
  <2>. QED  BY ONLY <1>2, <1>12, <2>1, <2>3
<1>23. Len(t) = more[n + 1] - 2
  <2>1. j < n + 1  BY ONLY <1>5, n \in Nat
  <2>2. more[n + 1] = (at[n + 1] - W) + B  BY <1>5, <1>15, <2>1
  <2>3. (l - W) + B = ((c - W) + B) - 2  BY ONLY <1>10, l \in Nat, c \in Nat, W \in Nat, B \in Nat
  <2>. QED  BY ONLY <1>6, <1>12, <2>2, <2>3
<1>24. ASSUME NEW i \in 1..n PROVE Stands(t, more[i], fs[i])
  <2>0. i \in 1..(n + 1) /\ i + 1 \in 1..(n + 1)  OBVIOUS
  <2>1. Stands(s, at[i], es[i])  BY <1>2 DEF Laid
  <2>2. i < j \/ i = j \/ j < i  BY ONLY <1>5, i \in 1..n, n \in Nat
  <2>3. PICK a \in Nat, y \in Nat : a = at[i] /\ y = Size(es[i]) /\ 2 <= a /\ 4 <= y  BY <1>3, <2>0
  <2>4. es[i] \in Entries  BY <1>1, <1>2
  <2>5. CASE i < j
    <3>1. i <= j /\ i # j  BY ONLY <1>5, <2>5, i \in 1..n, n \in Nat
    <3>2. at[i] + Size(es[i]) + 2 <= at[j]  BY <1>3, <1>5, <2>0, <2>5
    <3>3. a + y + 2 <= p  BY ONLY <1>6, <2>3, <3>2
    <3>4. ASSUME NEW k \in 0..(y - 1) PROVE t[a + k] = s[a + k]
      <4>1. 2 <= a  BY <2>3
      <4>2. a + k \in 1..(V - 1)
        BY ONLY <1>7, <3>3, <4>1, k \in 0..(y - 1), a \in Nat, y \in Nat, p \in Nat, K \in Nat, V \in Nat
      <4>. QED  BY <1>12, <4>2
    <3>5. \A k \in 0..(Size(es[i]) - 1) : t[a + k] = s[a + k]  BY <2>3, <3>4
    <3>6. Stands(s, a, es[i])  BY <2>1, <2>3
    <3>7. Stands(t, a, es[i])  BY ONLY PropertyAssumption, <2>4, <3>5, <3>6, a \in Nat, StandsCopied
    <3>8. more[i] = a /\ fs[i] = es[i]  BY <1>14, <1>15, <2>0, <2>3, <3>1
    <3>. QED  BY ONLY <3>7, <3>8
  <2>6. CASE i = j
    <3>1. Stands(s, p, es[j])  BY <1>6, <2>1, <2>6
    <3>2. KeyLen(es[j]) = K  BY <1>6 DEF KeyLen
    <3>3. /\ s[p] = Quote /\ s[p + K + 1] = Quote /\ s[p + K + 2] = ":" /\ s[p + K + 3] = " "
          /\ \A k \in 1..K : s[p + k] = KeyText[e.key][k]
      BY <3>1, <3>2 DEF Stands
    <3>4. /\ p \in 1..(V - 1) /\ p + K + 1 \in 1..(V - 1) /\ p + K + 2 \in 1..(V - 1) /\ p + K + 3 \in 1..(V - 1)
          /\ \A k \in 1..K : p + k \in 1..(V - 1)
      BY ONLY <1>7, <1>8, p \in Nat, K \in Nat, V \in Nat
    <3>5. /\ t[p] = Quote /\ t[p + K + 1] = Quote /\ t[p + K + 2] = ":" /\ t[p + K + 3] = " "
          /\ \A k \in 1..K : t[p + k] = KeyText[e.key][k]
      BY ONLY <1>12, <3>3, <3>4
    <3>6. ASSUME NEW k \in 1..m PROVE t[p + K + 3 + k] = Written(e.value)[k]
      <4>1. (V - 1) + k = p + K + 3 + k  BY ONLY <1>7, k \in 1..m, m \in Nat, p \in Nat, K \in Nat, V \in Nat
      <4>2. t[(V - 1) + k] = Written(e.value)[k]  BY <1>12
      <4>. QED  BY ONLY <4>1, <4>2
    <3>7. Stands(t, p, e)  BY <1>6, <3>5, <3>6 DEF Stands
    <3>8. j <= j  BY ONLY <1>5, n \in Nat
    <3>9. more[j] = p  BY <1>5, <1>6, <1>15, <3>8
    <3>. QED  BY ONLY <1>14, <2>6, <3>7, <3>9
  <2>7. CASE j < i
    <3>1. i # j  BY ONLY <1>5, <2>7, i \in 1..n, n \in Nat
    <3>2. W + 2 <= a  BY <1>13, <2>0, <2>3, <2>7
    <3>3. a + y <= l
      <4>1. i < n + 1  OBVIOUS
      <4>2. at[i] + Size(es[i]) + 2 <= at[n + 1]  BY <1>3, <1>5, <2>0, <4>1
      <4>3. a + y + 2 <= c  BY ONLY <1>6, <2>3, <4>2
      <4>. QED  BY ONLY <1>10, <4>3, a \in Nat, y \in Nat, c \in Nat, l \in Nat
    <3>4. PICK q \in Nat : q = (a - W) + B
      <4>1. (a - W) + B \in Nat  BY ONLY <3>2, a \in Nat, W \in Nat, B \in Nat
      <4>. QED  BY <4>1
    <3>5. ASSUME NEW k \in 0..(y - 1) PROVE t[q + k] = s[a + k]
      <4>1. a + k \in W..l /\ ((a + k) - W) + B = q + k
        BY ONLY <3>2, <3>3, <3>4, k \in 0..(y - 1), a \in Nat, y \in Nat, l \in Nat, W \in Nat, B \in Nat, q \in Nat
      <4>2. t[((a + k) - W) + B] = s[a + k]  BY <1>12, <4>1
      <4>. QED  BY ONLY <4>1, <4>2
    <3>6. \A k \in 0..(Size(es[i]) - 1) : t[q + k] = s[a + k]  BY <2>3, <3>5
    <3>7. Stands(s, a, es[i])  BY <2>1, <2>3
    <3>8. Stands(t, q, es[i])
      BY ONLY PropertyAssumption, <2>4, <3>6, <3>7, a \in Nat, q \in Nat, StandsCopied
    <3>9. more[i] = q /\ fs[i] = es[i]  BY <1>14, <1>15, <2>0, <2>3, <2>7, <3>1, <3>4
    <3>. QED  BY ONLY <3>8, <3>9
  <2>. QED  BY <2>2, <2>5, <2>6, <2>7
<1>25. ASSUME NEW i \in 1..n, i # n PROVE t[more[i + 1] - 2] = "," /\ t[more[i + 1] - 1] = " "
  <2>0. i + 1 \in 1..(n + 1) /\ i \in 1..(n + 1) /\ i + 1 \in 1..n /\ i + 1 < n + 1
    BY ONLY <1>25, n \in Nat
  <2>1. s[at[i + 1] - 2] = "," /\ s[at[i + 1] - 1] = " "
    <3>1. i \in 1..Len(es) /\ i # Len(es)  BY <1>2, <1>25
    <3>. QED  BY <3>1 DEF Laid
  <2>2. PICK a \in Nat : a = at[i + 1] /\ 2 <= a  BY <1>3, <2>0
  <2>3. i < j \/ j <= i  BY ONLY <1>5, i \in 1..n, n \in Nat
  <2>4. CASE i < j
    <3>1. i + 1 <= j  BY ONLY <1>5, <2>4, i \in 1..n, n \in Nat
    <3>2. more[i + 1] = a  BY <1>15, <2>0, <2>2, <3>1
    <3>3. PICK b \in Nat, y \in Nat : b = at[i] /\ y = Size(es[i]) /\ 2 <= b /\ 4 <= y  BY <1>3, <2>0
    <3>4. a = b + y + 2  BY <1>4, <2>2, <3>3
    <3>5. a <= p
      <4>1. CASE i + 1 = j  BY <1>6, <2>2, <4>1
      <4>2. CASE i + 1 < j
        <5>1. at[i + 1] + Size(es[i + 1]) + 2 <= at[j]  BY <1>3, <1>5, <2>0, <4>2
        <5>2. PICK x \in Nat : x = Size(es[i + 1])  BY <1>3, <2>0
        <5>3. a + x + 2 <= p  BY ONLY <1>6, <2>2, <5>1, <5>2
        <5>. QED  BY ONLY <5>3, a \in Nat, x \in Nat, p \in Nat
      <4>3. i + 1 = j \/ i + 1 < j  BY ONLY <1>5, <3>1, i \in 1..n, n \in Nat
      <4>. QED  BY <4>1, <4>2, <4>3
    <3>6. 2 <= b /\ 4 <= y  BY <3>3
    <3>7. a - 2 \in 1..(V - 1) /\ a - 1 \in 1..(V - 1)
      BY ONLY <1>7, <3>4, <3>5, <3>6, a \in Nat, b \in Nat, y \in Nat, p \in Nat, K \in Nat, V \in Nat
    <3>. QED  BY ONLY <1>12, <2>1, <2>2, <3>2, <3>7
  <2>5. CASE j <= i
    <3>1. j < i + 1  BY ONLY <1>5, <2>5, i \in 1..n, n \in Nat
    <3>2. W + 2 <= a /\ more[i + 1] = (a - W) + B  BY <1>13, <1>15, <2>0, <2>2, <3>1
    <3>5. W + 2 <= a  BY <3>2
    <3>3. a + 2 <= c
      <4>1. at[i + 1] + Size(es[i + 1]) + 2 <= at[n + 1]  BY <1>3, <1>5, <2>0
      <4>2. PICK x \in Nat : x = Size(es[i + 1])  BY <1>3, <2>0
      <4>3. a + x + 2 <= c  BY ONLY <1>6, <2>2, <4>1, <4>2
      <4>. QED  BY ONLY <4>3, a \in Nat, x \in Nat, c \in Nat
    <3>4. /\ a - 2 \in W..l /\ a - 1 \in W..l
          /\ ((a - 2) - W) + B = ((a - W) + B) - 2 /\ ((a - 1) - W) + B = ((a - W) + B) - 1
      BY ONLY <1>10, <3>3, <3>5, a \in Nat, c \in Nat, l \in Nat, W \in Nat, B \in Nat
    <3>6. t[((a - 2) - W) + B] = s[a - 2] /\ t[((a - 1) - W) + B] = s[a - 1]  BY <1>12, <3>4
    <3>. QED  BY ONLY <2>1, <2>2, <3>2, <3>4, <3>6
  <2>. QED  BY <2>3, <2>4, <2>5
<1>26. Laid(t, fs, more)
  <2>1. Len(t) = more[Len(fs) + 1] - 2 /\ Len(fs) # 0  BY <1>5, <1>14, <1>23
  <2>2. \A i \in 1..Len(fs) : Stands(t, more[i], fs[i])  BY <1>14, <1>24
  <2>3. \A i \in 1..Len(fs) : i # Len(fs) => t[more[i + 1] - 2] = "," /\ t[more[i + 1] - 1] = " "  BY <1>14, <1>25
  <2>. QED  BY <1>1, <1>20, <1>21, <1>22, <2>1, <2>2, <2>3, Zenon DEF Laid
<1>. QED  BY <1>14, <1>26

\* update_json_property finds a key at its entry, or nowhere.
KeyFound(s, es, at, k) ==
  /\ \A j \in 1..Len(es) : es[j].key = k => KeyAt(s, KeyText[k]) = at[j]
  /\ (\A j \in 1..Len(es) : es[j].key # k) => KeyAt(s, KeyText[k]) = 0

\* So it does.
LEMMA KeyAtIs ==
  ASSUME PropertyAssumption, NoKeyStrings(Values), NEW k \in Keys,
         NEW s, NEW es, NEW at, Laid(s, es, at), Distinct(es)
  PROVE  KeyFound(s, es, at, k)
<1>1. s \in Seq(Chars) /\ es \in Seq(Entries)  BY DEF Laid, Starts
<1>2. PICK n \in Nat, l \in Nat : n = Len(es) /\ l = Len(s)  BY <1>1
<1>3. DOMAIN s = 1..l  BY <1>1, <1>2
<1>4. \A q \in 1..l : QuotedAt(s, q, KeyText[k]) <=> \E i \in 1..n : q = at[i] /\ es[i].key = k
  <2>1. KeyPlaces(s, es, at, k)  BY KeysOfLayout
  <2>. QED  BY <1>2, <2>1 DEF KeyPlaces
<1>. DEFINE Q == {i \in 1..l : QuotedAt(s, i, KeyText[k])}
<1>5. KeyAt(s, KeyText[k]) = IF Q = {} THEN 0 ELSE Min(Q)  BY <1>3, Zenon DEF KeyAt
<1>6. ASSUME NEW j \in 1..n, es[j].key = k PROVE KeyAt(s, KeyText[k]) = at[j]
  <2>1. j \in 1..Len(es)  BY <1>2
  <2>2. PICK V \in Nat, W \in Nat : Stand(s, es, at, j, V, W)  BY <2>1, EveryEntryStands
  <2>3. PICK p \in Nat : p = at[j] /\ 1 <= p /\ p <= l
    <3>1. PICK p \in Nat : p = at[j]  BY <2>2 DEF Stand
    <3>2. Shape(s, p, V, W, es[j].value.is_string)  BY <2>2, <3>1 DEF Stand
    <3>3. 1 <= p /\ p + 4 <= V /\ V <= W  BY <3>2 DEF Shape
    <3>4. W <= Len(s)  BY <3>2 DEF Shape
    <3>5. W <= l  BY ONLY <1>2, <3>4
    <3>6. 1 <= p /\ p <= l  BY ONLY <3>3, <3>5, p \in Nat, V \in Nat, W \in Nat, l \in Nat
    <3>. QED  BY <3>1, <3>6
  <2>4. p \in 1..l  BY <2>3
  <2>5. p \in Q  BY <1>4, <1>6, <2>3, <2>4
  <2>6. \A i \in 1..n : es[i].key = k => i = j  BY <1>2, <1>6 DEF Distinct
  <2>7. \A q \in Q : q = p  BY <1>4, <2>3, <2>6
  <2>8. Q \in SUBSET Nat  OBVIOUS
  <2>. HIDE DEF Q
  <2>9. Min(Q) \in Q  BY <2>5, <2>8, MinOfNumbers
  <2>. QED  BY <1>5, <2>3, <2>5, <2>7, <2>9
<1>7. ASSUME \A j \in 1..n : es[j].key # k PROVE KeyAt(s, KeyText[k]) = 0
  <2>1. Q = {}  BY <1>4, <1>7
  <2>. QED  BY <1>5, <2>1
<1>. QED  BY <1>2, <1>6, <1>7 DEF KeyFound

\* The two ways of update_json_property.
Replaces(s, k, key, colon, from, behind) ==
  /\ key = KeyAt(s, KeyText[k]) /\ key # 0
  /\ colon = Find(s, ":", key + Len(KeyText[k]) + 2) /\ colon # 0
  /\ from = Skip(s, colon + 1, {" "}) /\ behind = ValueEnd(s, from)
Appends(s, k, closing, separator) ==
  /\ KeyAt(s, KeyText[k]) = 0
  /\ closing = RFind(s, "}") /\ closing # 0
  /\ separator = IF closing > 2 /\ s[closing - 1] # "{" THEN <<",", " ">> ELSE <<>>

\* The texts that come out.
ReplacedText(s, k, v, from, behind) ==
  update_json_property(s, k, v) = Part(s, 1, from) \o Written(v) \o SubSeq(s, behind, Len(s))
AppendedText(s, k, v, closing, separator) ==
  update_json_property(s, k, v) = Part(s, 1, closing) \o separator \o Entry(k, v) \o <<"}">>

\* What it gives then.
LEMMA UpdateReplaces ==
  ASSUME NEW s, NEW k, NEW v, NEW key, NEW colon, NEW from, NEW behind, Replaces(s, k, key, colon, from, behind)
  PROVE  ReplacedText(s, k, v, from, behind)
<1>1. update_json_property(s, k, v) =
        IF key # 0
        THEN IF colon = 0 THEN s
             ELSE Part(s, 1, from) \o Written(v) \o SubSeq(s, behind, Len(s))
        ELSE IF RFind(s, "}") = 0 THEN s
        ELSE Part(s, 1, RFind(s, "}"))
             \o (IF RFind(s, "}") > 2 /\ s[RFind(s, "}") - 1] # "{" THEN <<",", " ">> ELSE <<>>)
             \o Entry(k, v) \o <<"}">>
  <2>1. /\ key = KeyAt(s, KeyText[k]) /\ colon = Find(s, ":", key + Len(KeyText[k]) + 2)
        /\ from = Skip(s, colon + 1, {" "}) /\ behind = ValueEnd(s, from)
    BY DEF Replaces
  <2>. QED  BY <2>1, Zenon DEF update_json_property
<1>2. key # 0 /\ colon # 0  BY DEF Replaces
<1>. QED  BY ONLY <1>1, <1>2, Zenon DEF ReplacedText

\* And for a new entry.
LEMMA UpdateAppends ==
  ASSUME NEW s, NEW k, NEW v, NEW closing, NEW separator, Appends(s, k, closing, separator)
  PROVE  AppendedText(s, k, v, closing, separator)
<1>. DEFINE key == KeyAt(s, KeyText[k])
            colon == Find(s, ":", key + Len(KeyText[k]) + 2)
            from == Skip(s, colon + 1, {" "})
<1>1. update_json_property(s, k, v) =
        IF key # 0
        THEN IF colon = 0 THEN s
             ELSE Part(s, 1, from) \o Written(v) \o SubSeq(s, ValueEnd(s, from), Len(s))
        ELSE IF closing = 0 THEN s
        ELSE Part(s, 1, closing) \o separator \o Entry(k, v) \o <<"}">>
  <2>1. closing = RFind(s, "}")
        /\ separator = IF closing > 2 /\ s[closing - 1] # "{" THEN <<",", " ">> ELSE <<>>
    BY DEF Appends
  <2>. QED  BY <2>1, Zenon DEF update_json_property
<1>2. key = 0 /\ closing # 0  BY DEF Appends
<1>. HIDE DEF key, colon, from
<1>. QED  BY ONLY <1>1, <1>2, Zenon DEF AppendedText

\* The text u is the part of s from p to q.
Bounds(s, p, q) == s \in Seq(Chars) /\ p \in Nat /\ q \in Nat /\ 1 <= p /\ p <= q /\ q <= Len(s) + 1
Cut(u, s, p, q) == u = Part(s, p, q) /\ Len(u) = q - p /\ \A r \in 1..(q - p) : u[r] = s[(p + r) - 1]

\* That part exists.
LEMMA PartOf ==
  ASSUME NEW s, NEW p, NEW q, Bounds(s, p, q)
  PROVE  \E u \in Seq(Chars) : Cut(u, s, p, q)
<1>. s \in Seq(Chars) /\ p \in Nat /\ q \in Nat  BY DEF Bounds
<1>1. PICK l \in Nat : l = Len(s)  OBVIOUS
<1>2. p <= q /\ q <= l + 1 /\ 1 <= p  BY <1>1 DEF Bounds
<1>3. /\ SubSeq(s, p, q - 1) \in Seq(Chars) /\ Len(SubSeq(s, p, q - 1)) = q - p
      /\ \A r \in 1..(q - p) : SubSeq(s, p, q - 1)[r] = s[(p + r) - 1]
  BY ONLY <1>1, <1>2, s \in Seq(Chars), p \in Nat, q \in Nat, l \in Nat
<1>. QED  BY <1>3, Zenon DEF Part, Cut

\* The value of an entry is replaced.
LEMMA SetReplaces ==
  ASSUME PropertyAssumption, NoKeyStrings(Values), NEW s, NEW es, NEW at, Laid(s, es, at), Distinct(es),
         NEW j \in 1..Len(es), NEW e \in Entries, e.key = es[j].key
  PROVE  \E more : Laid(update_json_property(s, e.key, e.value), [es EXCEPT ![j] = e], more)
<1>1. s \in Seq(Chars) /\ es \in Seq(Entries) /\ e.key \in Keys  BY DEF Laid, Starts, Entries
<1>2. PICK l \in Nat : l = Len(s)  BY <1>1
<1>3. PICK V \in Nat, W \in Nat : Stand(s, es, at, j, V, W)  BY EveryEntryStands
<1>19. PICK str : str = es[j].value.is_string  OBVIOUS
<1>4. PICK p \in Nat : p = at[j] /\ Shape(s, p, V, W, str)  BY <1>3, <1>19 DEF Stand
<1>5. 1 <= p /\ p + 4 <= V /\ V <= W /\ W <= l
  <2>1. 1 <= p /\ p + 4 <= V /\ V <= W /\ W <= Len(s)  BY <1>4 DEF Shape
  <2>. QED  BY <1>2, <2>1
<1>6. PICK K \in Nat, m \in Nat, w \in Seq(Chars) :
        K = KeyLen(e) /\ K = Len(KeyText[e.key]) /\ m = ValueLen(e) /\ w = Written(e.value) /\ Len(w) = m
  BY EntryTexts DEF KeyLen, ValueLen
<1>7. V = p + K + 4
  <2>1. KeyLen(es[j]) = K  BY <1>6 DEF KeyLen
  <2>2. V = at[j] + KeyLen(es[j]) + 4  BY <1>3 DEF Stand
  <2>. QED  BY ONLY <1>4, <2>1, <2>2
<1>8. Replaces(s, e.key, p, V - 2, V, W)
  <2>1. KeyAt(s, KeyText[e.key]) = p
    <3>1. KeyFound(s, es, at, e.key)  BY <1>1, KeyAtIs, Zenon
    <3>. QED  BY <1>4, <3>1 DEF KeyFound
  <2>2. p + K + 2 = V - 2 /\ p # 0 /\ V - 2 # 0 /\ V - 2 + 1 = V - 1
    BY ONLY <1>5, <1>7, p \in Nat, K \in Nat, V \in Nat
  <2>3. Find(s, ":", V - 2) = V - 2 /\ Skip(s, V - 1, {" "}) = V /\ ValueEnd(s, V) = W
    <3>1. Scanned(s, p, V, W, str)  BY <1>4, ScanEntry, Zenon
    <3>. QED  BY <3>1 DEF Scanned
  <2>4. V - 2 = Find(s, ":", p + Len(KeyText[e.key]) + 2)
    <3>1. p + Len(KeyText[e.key]) + 2 = V - 2  BY ONLY <1>6, <2>2
    <3>. QED  BY ONLY <2>3, <3>1
  <2>5. V = Skip(s, V - 2 + 1, {" "})  BY ONLY <2>2, <2>3
  <2>. QED  BY ONLY <2>1, <2>2, <2>3, <2>4, <2>5, Zenon DEF Replaces
<1>18. PICK a \in Seq(Chars) : Cut(a, s, 1, V)
  <2>1. 1 \in Nat /\ 1 <= V
    BY ONLY <1>5, p \in Nat, V \in Nat
  <2>2. V <= l + 1  BY ONLY <1>5, V \in Nat, W \in Nat, l \in Nat
  <2>3. 1 <= 1 /\ V <= Len(s) + 1  BY ONLY <1>2, <2>2
  <2>4. Bounds(s, 1, V)  BY ONLY <1>1, <2>1, <2>3, V \in Nat, Zenon DEF Bounds
  <2>. QED  BY ONLY <2>4, PartOf, Zenon
<1>9. a = Part(s, 1, V) /\ Len(a) = V - 1 /\ \A r \in 1..(V - 1) : a[r] = s[(1 + r) - 1]
  BY <1>18 DEF Cut
<1>10. PICK b \in Seq(Chars) :
         b = SubSeq(s, W, l) /\ Len(b) = (l + 1) - W /\ \A r \in 1..((l + 1) - W) : b[r] = s[(W + r) - 1]
  <2>1. l + 1 \in Nat /\ W <= l + 1 /\ 1 <= W /\ (l + 1) - 1 = l
    BY ONLY <1>5, p \in Nat, V \in Nat, W \in Nat, l \in Nat
  <2>2. l + 1 <= l + 1  BY ONLY <2>1
  <2>3. l + 1 <= Len(s) + 1  BY ONLY <1>2, <2>2
  <2>4. Bounds(s, W, l + 1)  BY ONLY <1>1, <2>1, <2>3, W \in Nat, Zenon DEF Bounds
  <2>5. PICK u \in Seq(Chars) : Cut(u, s, W, l + 1)  BY ONLY <2>4, PartOf, Zenon
  <2>6. u = SubSeq(s, W, (l + 1) - 1) /\ Len(u) = (l + 1) - W /\ \A r \in 1..((l + 1) - W) : u[r] = s[(W + r) - 1]
    BY <2>5 DEF Cut, Part
  <2>7. u = SubSeq(s, W, l)  BY ONLY <2>1, <2>6
  <2>. QED  BY <2>6, <2>7, Zenon
<1>11. V - 1 \in Nat /\ (V - 1) + m \in Nat /\ (l + 1) - W \in Nat
  BY ONLY <1>5, p \in Nat, V \in Nat, W \in Nat, l \in Nat, m \in Nat
<1>12. PICK d \in Seq(Chars) : d = a \o w /\ Joins(d, a, w, V - 1, m)  BY <1>6, <1>9, <1>11, Joined, Zenon
<1>13. Len(d) = (V - 1) + m /\ (\A r \in 1..(V - 1) : d[r] = a[r]) /\ \A r \in 1..m : d[(V - 1) + r] = w[r]
  BY <1>12 DEF Joins
<1>14. PICK t \in Seq(Chars) : t = d \o b /\ Joins(t, d, b, (V - 1) + m, (l + 1) - W)
  BY <1>10, <1>11, <1>13, Joined, Zenon
<1>15. /\ Len(t) = ((V - 1) + m) + ((l + 1) - W) /\ \A r \in 1..((V - 1) + m) : t[r] = d[r]
       /\ \A r \in 1..((l + 1) - W) : t[((V - 1) + m) + r] = b[r]
  BY <1>14 DEF Joins
<1>16. update_json_property(s, e.key, e.value) = t
  <2>1. update_json_property(s, e.key, e.value) = Part(s, 1, V) \o Written(e.value) \o SubSeq(s, W, Len(s))
    <3>1. ReplacedText(s, e.key, e.value, V, W)  BY ONLY <1>8, UpdateReplaces, Zenon
    <3>. QED  BY ONLY <3>1, Zenon DEF ReplacedText
  <2>2. SubSeq(s, W, Len(s)) = b  BY <1>2, <1>10
  <2>. QED  BY <1>6, <1>9, <1>12, <1>14, <2>1, <2>2, Zenon
<1>17. Replaced(s, t, V, W, Written(e.value), ValueLen(e))
  <2>1. ((V - 1) + m) + ((l + 1) - W) = (l - W) + (V + m)  BY ONLY <1>5, p \in Nat, V \in Nat, W \in Nat, l \in Nat, m \in Nat
  <2>2. ASSUME NEW r \in 1..(V - 1) PROVE t[r] = s[r]
    <3>1. (1 + r) - 1 = r /\ r \in 1..((V - 1) + m)  BY ONLY r \in 1..(V - 1), V \in Nat, m \in Nat
    <3>. QED  BY ONLY <1>9, <1>13, <1>15, <3>1, r \in 1..(V - 1)
  <2>3. ASSUME NEW r \in 1..m PROVE t[(V - 1) + r] = w[r]
    <3>1. (V - 1) + r \in 1..((V - 1) + m)  BY ONLY <1>11, r \in 1..m, V \in Nat, m \in Nat
    <3>. QED  BY ONLY <1>13, <1>15, <3>1, r \in 1..m
  <2>4. ASSUME NEW r \in W..l PROVE t[(r - W) + (V + m)] = s[r]
    <3>1. PICK x \in Nat : x = (r - W) + 1
      <4>1. (r - W) + 1 \in Nat  BY ONLY r \in W..l, W \in Nat, l \in Nat
      <4>. QED  BY <4>1
    <3>2. /\ x \in 1..((l + 1) - W) /\ ((V - 1) + m) + x = (r - W) + (V + m) /\ (W + x) - 1 = r
      BY ONLY <3>1, r \in W..l, W \in Nat, l \in Nat, V \in Nat, m \in Nat, x \in Nat
    <3>. QED  BY ONLY <1>10, <1>15, <3>2
  <2>5. Len(t) = (Len(s) - W) + (V + m)  BY ONLY <1>2, <1>15, <2>1
  <2>6. \A r \in W..Len(s) : t[(r - W) + (V + m)] = s[r]  BY ONLY <1>2, <2>4
  <2>7. t \in Seq(Chars)  OBVIOUS
  <2>8. \A r \in 1..m : t[(V - 1) + r] = w[r]  BY ONLY <2>3
  <2>9. \A r \in 1..(V - 1) : t[r] = s[r]  BY ONLY <2>2
  <2>10. Replaced(s, t, V, W, w, m)  BY ONLY <2>5, <2>6, <2>7, <2>8, <2>9, Zenon DEF Replaced
  <2>. QED  BY ONLY <1>6, <2>10
<1>. QED  BY <1>3, <1>16, <1>17, ReplacedIsLaid

\* An entry is appended.
LEMMA SetAppends ==
  ASSUME PropertyAssumption, NoKeyStrings(Values), NEW s, NEW es, NEW at, Laid(s, es, at), Distinct(es),
         NEW e \in Entries, \A j \in 1..Len(es) : es[j].key # e.key
  PROVE  \E more : Laid(update_json_property(s, e.key, e.value), Append(es, e), more)
<1>1. s \in Seq(Chars) /\ es \in Seq(Entries) /\ e.key \in Keys  BY DEF Laid, Starts, Entries
<1>2. PICK n \in Nat, l \in Nat : n = Len(es) /\ l = Len(s)  BY <1>1
<1>3. s[1] = "{" /\ s[l] = "}"  BY <1>2 DEF Laid
<1>4. /\ n = 0 => l = 2
      /\ n # 0 => l > 2 /\ s[l - 1] # "{"
  <2>1. ASSUME n = 0 PROVE l = 2
    <3>1. Len(s) = 2  BY <1>2, <2>1 DEF Laid
    <3>. QED  BY <1>2, <3>1
  <2>2. ASSUME n # 0 PROVE l > 2 /\ s[l - 1] # "{"
    <3>1. n \in 1..Len(es) /\ n = Len(es)  BY <1>2, <2>2
    <3>2. PICK V \in Nat, W \in Nat : Stand(s, es, at, n, V, W)  BY <3>1, EveryEntryStands
    <3>12. PICK str : str = es[n].value.is_string  OBVIOUS
    <3>3. PICK p \in Nat : p = at[n] /\ Shape(s, p, V, W, str)  BY <3>2, <3>12 DEF Stand
    <3>4. 1 <= p /\ p + 4 <= V /\ V <= W  BY <3>3 DEF Shape
    <3>5. W = l
      <4>1. W = Len(s)  BY <3>1, <3>2 DEF Stand
      <4>. QED  BY ONLY <1>2, <4>1
    <3>6. /\ s[V - 1] = " "
          /\ str => V + 2 <= W /\ s[W - 1] = Quote
          /\ ~str => \A r \in V..(W - 1) : s[r] \notin Punctuation
      BY <3>3 DEF Shape
    <3>7. "{" \in Punctuation /\ Quote # "{"  BY DEF Punctuation, Quote
    <3>8. l > 2  BY ONLY <3>4, <3>5, p \in Nat, V \in Nat, W \in Nat, l \in Nat
    <3>9. CASE str  BY <3>5, <3>6, <3>7, <3>8, <3>9
    <3>10. CASE ~str /\ V = W  BY <3>5, <3>6, <3>8, <3>10
    <3>11. CASE ~str /\ V # W
      <4>1. W - 1 \in V..(W - 1)  BY ONLY <3>4, <3>11, V \in Nat, W \in Nat
      <4>. QED  BY <3>5, <3>6, <3>7, <3>8, <3>11, <4>1
    <3>. QED  BY <3>9, <3>10, <3>11
  <2>. QED  BY <2>1, <2>2
<1>5. 2 <= l
  <2>1. CASE n = 0  BY <1>4, <2>1
  <2>2. CASE n # 0
    <3>1. l > 2  BY <1>4, <2>2
    <3>. QED  BY ONLY <3>1, l \in Nat
  <2>. QED  BY <2>1, <2>2
<1>6. RFind(s, "}") = l
  <2>1. DOMAIN s = 1..l  BY <1>1, <1>2
  <2>. DEFINE Q == {i \in 1..l : s[i] = "}"}
  <2>2. RFind(s, "}") = IF Q = {} THEN 0 ELSE Max(Q)  BY <2>1, Zenon DEF RFind
  <2>3. l \in Q /\ Q \in SUBSET (0..l) /\ \A y \in Q : y <= l
    <3>1. l \in 1..l /\ 1..l \in SUBSET (0..l) /\ \A y \in 1..l : y <= l  BY ONLY <1>5, l \in Nat
    <3>. QED  BY ONLY <1>3, <3>1
  <2>. HIDE DEF Q
  <2>4. Max(Q) = l  BY <2>3, MaxOfPositions
  <2>. QED  BY <2>2, <2>3, <2>4
<1>7. Appends(s, e.key, l, Separator(es))
  <2>1. KeyAt(s, KeyText[e.key]) = 0
    <3>1. KeyFound(s, es, at, e.key)  BY <1>1, KeyAtIs, Zenon
    <3>. QED  BY <3>1 DEF KeyFound
  <2>2. Separator(es) = IF l > 2 /\ s[l - 1] # "{" THEN <<",", " ">> ELSE <<>>
    <3>1. CASE n = 0
      <4>1. ~(l > 2)  BY <1>4, <3>1
      <4>. QED  BY <1>2, <3>1, <4>1 DEF Separator
    <3>2. CASE n # 0  BY <1>2, <1>4, <3>2 DEF Separator
    <3>. QED  BY <3>1, <3>2
  <2>3. l # 0  BY <1>5
  <2>. QED  BY <1>6, <2>1, <2>2, <2>3, Zenon DEF Appends
<1>13. PICK b \in Seq(Chars) : Cut(b, s, 1, l)
  <2>1. 1 \in Nat /\ 1 <= 1 /\ 1 <= l /\ l <= l + 1  BY ONLY <1>5, l \in Nat
  <2>2. l <= Len(s) + 1  BY ONLY <1>2, <2>1
  <2>3. Bounds(s, 1, l)  BY ONLY <1>1, <2>1, <2>2, l \in Nat, Zenon DEF Bounds
  <2>. QED  BY ONLY <2>3, PartOf, Zenon
<1>8. b = Part(s, 1, l) /\ Len(b) = l - 1 /\ \A r \in 1..(l - 1) : b[r] = s[(1 + r) - 1]
  BY <1>13 DEF Cut
<1>9. b \o <<"}">> = s
  <2>1. "}" \in Chars  BY DEF PropertyAssumption, Punctuation
  <2>2. PICK x \in Seq(Chars) : x = <<"}">> /\ Len(x) = 1 /\ x[1] = "}"  BY ONLY <2>1, OneChar, Zenon
  <2>3. l - 1 \in Nat /\ 1 \in Nat  BY ONLY <1>5, l \in Nat
  <2>4. PICK u \in Seq(Chars) : u = b \o x /\ Joins(u, b, x, l - 1, 1)  BY <1>8, <2>2, <2>3, Joined, Zenon
  <2>5. Len(u) = (l - 1) + 1 /\ (\A r \in 1..(l - 1) : u[r] = b[r]) /\ \A r \in 1..1 : u[(l - 1) + r] = x[r]
    BY <2>4 DEF Joins
  <2>6. ASSUME NEW r \in 1..l PROVE u[r] = s[r]
    <3>1. CASE r = l
      <4>1. 1 \in 1..1 /\ (l - 1) + 1 = l  BY ONLY l \in Nat
      <4>. QED  BY ONLY <1>3, <2>2, <2>5, <3>1, <4>1
    <3>2. CASE r # l
      <4>1. r \in 1..(l - 1) /\ (1 + r) - 1 = r  BY ONLY <3>2, r \in 1..l, l \in Nat
      <4>. QED  BY ONLY <1>8, <2>5, <4>1
    <3>. QED  BY <3>1, <3>2
  <2>7. Len(u) = l
    <3>1. (l - 1) + 1 = l  BY ONLY l \in Nat
    <3>. QED  BY ONLY <2>5, <3>1
  <2>8. u = s
    <3>1. Len(s) = l /\ s \in Seq(Chars)  BY ONLY <1>1, <1>2
    <3>. QED  BY ONLY <2>6, <2>7, <3>1, u \in Seq(Chars), l \in Nat
  <2>. QED  BY ONLY <2>2, <2>4, <2>8, Zenon
<1>10. Opened(b, es, at)  BY <1>9, Zenon DEF Opened
<1>11. PICK more : Opened(b \o Separator(es) \o Entry(e.key, e.value), Append(es, e), more)
  BY <1>10, AppendedIsLaid, Zenon
<1>12. update_json_property(s, e.key, e.value) = b \o Separator(es) \o Entry(e.key, e.value) \o <<"}">>
  <2>1. update_json_property(s, e.key, e.value) = Part(s, 1, l) \o Separator(es) \o Entry(e.key, e.value) \o <<"}">>
    <3>1. AppendedText(s, e.key, e.value, l, Separator(es))  BY ONLY <1>7, UpdateAppends, Zenon
    <3>. QED  BY ONLY <3>1, Zenon DEF AppendedText
  <2>. QED  BY <1>8, <2>1, Zenon
<1>. QED  BY <1>11, <1>12, Zenon DEF Opened


-----------------------------------------------------------------------------
(***************************************************************************)
(* evaluate_properties: the text of a map.                                 *)
(***************************************************************************)

\* q lists each of the first k keys that m has, once.
Picks(q, k, m) ==
  /\ q \in Seq(Keys)
  /\ \A i, j \in 1..Len(q) : q[i] = q[j] => i = j
  /\ \A i \in 1..Len(q) : q[i] \in DOMAIN m /\ \E j \in 1..k : q[i] = KeyOrder[j]
  /\ \A j \in 1..k : KeyOrder[j] \in DOMAIN m => \E i \in 1..Len(q) : q[i] = KeyOrder[j]

\* The next key, if m has it, goes behind.
LEMMA PicksMore ==
  ASSUME PropertyAssumption, NEW m, NEW k \in 1..Len(KeyOrder), NEW q, Picks(q, k - 1, m)
  PROVE  /\ KeyOrder[k] \in DOMAIN m => Picks(Append(q, KeyOrder[k]), k, m)
         /\ KeyOrder[k] \notin DOMAIN m => Picks(q, k, m)
<1>1. KeyOrder \in Seq(Keys) /\ \A i, j \in 1..Len(KeyOrder) : KeyOrder[i] = KeyOrder[j] => i = j
  BY DEF PropertyAssumption, IsInjective
<1>2. PICK x \in Keys : x = KeyOrder[k]  BY <1>1
<1>3. q \in Seq(Keys)  BY DEF Picks
<1>4. PICK n \in Nat, l \in Nat : n = Len(q) /\ l = Len(KeyOrder)  BY <1>1, <1>3
<1>5. k \in 1..l /\ \A j \in 1..(k - 1) : j \in 1..k /\ j # k /\ j \in 1..l
  BY ONLY <1>4, k \in 1..Len(KeyOrder), l \in Nat
<1>6. \A j \in 1..k : j = k \/ j \in 1..(k - 1)  BY ONLY l \in Nat, <1>5
<1>7. \A i \in 1..n : q[i] # x
  <2>1. ASSUME NEW i \in 1..n, q[i] = x PROVE FALSE
    <3>1. PICK j \in 1..(k - 1) : q[i] = KeyOrder[j]  BY <1>4 DEF Picks
    <3>2. KeyOrder[j] = KeyOrder[k] /\ j \in 1..Len(KeyOrder) /\ j # k  BY ONLY <1>2, <1>4, <1>5, <2>1, <3>1
    <3>. QED  BY <1>1, <3>2
  <2>. QED  BY <2>1
<1>8. ASSUME x \in DOMAIN m PROVE Picks(Append(q, x), k, m)
  <2>1. PICK r : r = Append(q, x)  OBVIOUS
  <2>2. r \in Seq(Keys) /\ Len(r) = n + 1 /\ r[n + 1] = x /\ \A i \in 1..n : r[i] = q[i]  BY <1>3, <1>4, <2>1
  <2>3. \A i \in 1..(n + 1) : i = n + 1 \/ i \in 1..n  OBVIOUS
  <2>4. n + 1 \in 1..(n + 1) /\ \A i \in 1..n : i \in 1..(n + 1)  OBVIOUS
  <2>5. /\ \A i, j \in 1..n : q[i] = q[j] => i = j
        /\ \A i \in 1..n : q[i] \in DOMAIN m /\ \E j \in 1..(k - 1) : q[i] = KeyOrder[j]
        /\ \A j \in 1..(k - 1) : KeyOrder[j] \in DOMAIN m => \E i \in 1..n : q[i] = KeyOrder[j]
    BY <1>4, Zenon DEF Picks
  <2>6. \A i, j \in 1..(n + 1) : r[i] = r[j] => i = j
    <3>1. ASSUME NEW i \in 1..(n + 1), NEW j \in 1..(n + 1), r[i] = r[j] PROVE i = j
      <4>1. CASE i \in 1..n /\ j \in 1..n
        <5>1. q[i] = q[j]  BY ONLY <2>2, <3>1, <4>1
        <5>. QED  BY ONLY <2>5, <4>1, <5>1
      <4>2. CASE i = n + 1 /\ j \in 1..n
        <5>1. q[j] = x  BY ONLY <2>2, <3>1, <4>2
        <5>. QED  BY ONLY <1>7, <4>2, <5>1
      <4>3. CASE i \in 1..n /\ j = n + 1
        <5>1. q[i] = x  BY ONLY <2>2, <3>1, <4>3
        <5>. QED  BY ONLY <1>7, <4>3, <5>1
      <4>. QED  BY ONLY <2>3, <4>1, <4>2, <4>3
    <3>. QED  BY ONLY <3>1
  <2>7. \A i \in 1..(n + 1) : r[i] \in DOMAIN m /\ \E j \in 1..k : r[i] = KeyOrder[j]
    <3>1. k \in 1..k
      <4>1. k \in 1..l  BY ONLY <1>5
      <4>. QED  BY ONLY <4>1, l \in Nat
    <3>2. r[n + 1] \in DOMAIN m /\ \E j \in 1..k : r[n + 1] = KeyOrder[j]  BY ONLY <1>2, <1>8, <2>2, <3>1
    <3>3. ASSUME NEW i \in 1..n PROVE r[i] \in DOMAIN m /\ \E j \in 1..k : r[i] = KeyOrder[j]
      <4>1. r[i] = q[i] /\ q[i] \in DOMAIN m  BY ONLY <2>2, <2>5, i \in 1..n
      <4>2. PICK j \in 1..(k - 1) : q[i] = KeyOrder[j]  BY ONLY <2>5, i \in 1..n
      <4>3. j \in 1..k  BY ONLY <1>5, j \in 1..(k - 1)
      <4>. QED  BY ONLY <4>1, <4>2, <4>3
    <3>. QED  BY ONLY <2>3, <3>2, <3>3
  <2>8. \A j \in 1..k : KeyOrder[j] \in DOMAIN m => \E i \in 1..(n + 1) : r[i] = KeyOrder[j]
    BY ONLY <1>2, <1>6, <2>2, <2>4, <2>5
  <2>. QED  BY ONLY <2>1, <2>2, <2>6, <2>7, <2>8 DEF Picks
<1>9. ASSUME x \notin DOMAIN m PROVE Picks(q, k, m)
  <2>5. /\ \A i, j \in 1..n : q[i] = q[j] => i = j
        /\ \A i \in 1..n : q[i] \in DOMAIN m /\ \E j \in 1..(k - 1) : q[i] = KeyOrder[j]
        /\ \A j \in 1..(k - 1) : KeyOrder[j] \in DOMAIN m => \E i \in 1..n : q[i] = KeyOrder[j]
    BY <1>4, Zenon DEF Picks
  <2>1. \A i \in 1..n : q[i] \in DOMAIN m /\ \E j \in 1..k : q[i] = KeyOrder[j]  BY ONLY <1>5, <2>5
  <2>2. \A j \in 1..k : KeyOrder[j] \in DOMAIN m => \E i \in 1..n : q[i] = KeyOrder[j]
    BY ONLY <1>2, <1>6, <1>9, <2>5
  <2>. QED  BY ONLY <1>3, <1>4, <2>1, <2>2, <2>5 DEF Picks
<1>. QED  BY ONLY <1>2, <1>8, <1>9

\* InOrder lists the keys of a map, each once.
LEMMA InOrderIs ==
  ASSUME PropertyAssumption, NEW m
  PROVE  Picks(InOrder(m), Len(KeyOrder), m)
<1>1. KeyOrder \in Seq(Keys)  BY DEF PropertyAssumption
<1>2. PICK n \in Nat : n = Len(KeyOrder) /\ DOMAIN KeyOrder = 1..n  BY <1>1
<1>. DEFINE piece(i) == IF KeyOrder[i] \in DOMAIN m THEN <<KeyOrder[i]>> ELSE <<>>
<1>3. PICK seqs : seqs = [i \in 1..n |-> piece(i)]  OBVIOUS
<1>4. seqs \in [1..n -> Seq(Keys)]
  <2>1. \A i \in 1..n : KeyOrder[i] \in Keys  BY <1>1, <1>2
  <2>2. \A i \in 1..n : piece(i) \in Seq(Keys)  BY <2>1
  <2>. HIDE DEF piece
  <2>. QED  BY <1>3, <2>2
<1>5. InOrder(m) = FlattenSeq(seqs)  BY <1>2, <1>3, Zenon DEF InOrder
<1>6. PICK f \in [0..n -> Seq(Keys)] : Appended(f, n, seqs)  BY ONLY <1>4, n \in Nat, FlattenFold, Zenon
<1>7. f[0] = <<>> /\ (\A k \in 1..n : f[k] = f[k - 1] \o seqs[k]) /\ FlattenSeq(seqs) = f[n]  BY <1>6 DEF Appended
<1>. DEFINE T == {k \in 0..n : Picks(f[k], k, m)}
<1>8. 0 \in T
  <2>1. Picks(<<>>, 0, m)  BY DEF Picks
  <2>2. 0 \in 0..n  OBVIOUS
  <2>. QED  BY ONLY <1>7, <2>1, <2>2
<1>9. ASSUME NEW k \in 1..n, k - 1 \in T PROVE k \in T
  <2>1. Picks(f[k - 1], k - 1, m) /\ k \in 0..n /\ k \in 1..Len(KeyOrder)  BY <1>2, <1>9
  <2>2. PICK q \in Seq(Keys) : q = f[k - 1] /\ Picks(q, k - 1, m)  BY <2>1, Zenon DEF Picks
  <2>3. f[k] = q \o piece(k)
    <3>1. seqs[k] = piece(k)  BY <1>3
    <3>. HIDE DEF piece
    <3>. QED  BY ONLY <1>7, <2>2, <3>1, k \in 1..n
  <2>4. PICK x \in Keys : x = KeyOrder[k]  BY <1>1, <2>1
  <2>5. CASE x \in DOMAIN m
    <3>1. q \o <<x>> = Append(q, x)  OBVIOUS
    <3>2. f[k] = Append(q, x)  BY ONLY <2>3, <2>4, <2>5, <3>1
    <3>3. Picks(Append(q, x), k, m)  BY ONLY <2>1, <2>2, <2>4, <2>5, PicksMore, PropertyAssumption
    <3>. QED  BY <2>1, <3>2, <3>3
  <2>6. CASE x \notin DOMAIN m
    <3>1. q \o <<>> = q  OBVIOUS
    <3>2. f[k] = q  BY ONLY <2>3, <2>4, <2>6, <3>1
    <3>3. Picks(q, k, m)  BY ONLY <2>1, <2>2, <2>4, <2>6, PicksMore, PropertyAssumption
    <3>. QED  BY <2>1, <3>2, <3>3
  <2>. QED  BY <2>5, <2>6
<1>10. n \in T
  <2>1. T \in SUBSET (0..n)  OBVIOUS
  <2>. HIDE DEF T
  <2>2. T = 0..n  BY ONLY <1>8, <1>9, <2>1, StepInduction, n \in Nat
  <2>. QED  BY ONLY <2>2, n \in Nat
<1>. QED  BY <1>2, <1>5, <1>7, <1>10

\* Joining three and four texts from the right and from the left.
Rejoins3(a, b, c) == a \o (b \o c) = (a \o b) \o c
Rejoins(a, b, c, d) == a \o (b \o (c \o d)) = ((a \o b) \o c) \o d

\* \o is associative.
LEMMA Joined3 ==
  ASSUME NEW a \in Seq(Chars), NEW b \in Seq(Chars), NEW c \in Seq(Chars)
  PROVE  Rejoins3(a, b, c)
<1>1. a \o (b \o c) = (a \o b) \o c  BY ConcatAssociative
<1>. QED  BY ONLY <1>1, Zenon DEF Rejoins3

\* So it is for four texts.
LEMMA Joined4 ==
  ASSUME NEW a \in Seq(Chars), NEW b \in Seq(Chars), NEW c \in Seq(Chars), NEW d \in Seq(Chars)
  PROVE  Rejoins(a, b, c, d)
<1>1. a \o b \in Seq(Chars) /\ c \o d \in Seq(Chars)  OBVIOUS
<1>2. PICK x \in Seq(Chars), y \in Seq(Chars) : x = a \o b /\ y = c \o d  BY ONLY <1>1, Zenon
<1>3. Rejoins3(a, b, y)  BY ONLY a \in Seq(Chars), b \in Seq(Chars), y \in Seq(Chars), Joined3, Zenon
<1>4. Rejoins3(x, c, d)  BY ONLY x \in Seq(Chars), c \in Seq(Chars), d \in Seq(Chars), Joined3, Zenon
<1>. QED  BY ONLY <1>2, <1>3, <1>4, Zenon DEF Rejoins, Rejoins3

\* The separator is a text.
LEMMA CommaText ==
  ASSUME PropertyAssumption
  PROVE  \E t \in Seq(Chars) : t = <<",", " ">>
<1>1. PICK x \in Chars, y \in Chars : x = "," /\ y = " "  BY DEF PropertyAssumption, Punctuation
<1>2. PICK t \in Seq(Chars) : t = <<x, y>> /\ Len(t) = 2 /\ t[1] = x /\ t[2] = y  BY TwoChars
<1>. QED  BY <1>1, <1>2

\* The first k entries of the map m whose keys are ks.
EntriesOf(m, ks, k) == [i \in 1..k |-> [key |-> ks[i], value |-> m[ks[i]]]]

\* They are entries, and each comes behind those before it.
LEMMA EntriesOfMore ==
  ASSUME NEW m, NEW ks \in Seq(Keys), NEW n \in Nat, n = Len(ks), \A i \in 1..n : m[ks[i]] \in Values,
         NEW k \in 1..n
  PROVE  /\ EntriesOf(m, ks, k - 1) \in Seq(Entries) /\ Len(EntriesOf(m, ks, k - 1)) = k - 1
         /\ [key |-> ks[k], value |-> m[ks[k]]] \in Entries
         /\ EntriesOf(m, ks, k) = Append(EntriesOf(m, ks, k - 1), [key |-> ks[k], value |-> m[ks[k]]])
<1>. DEFINE e(i) == [key |-> ks[i], value |-> m[ks[i]]]
<1>1. \A i \in 1..n : e(i) \in Entries  BY DEF Entries
<1>. HIDE DEF e
<1>2. PICK q : q = [i \in 1..(k - 1) |-> e(i)]  OBVIOUS
<1>3. q \in Seq(Entries) /\ Len(q) = k - 1 /\ \A i \in 1..(k - 1) : q[i] = e(i)
  <2>1. k - 1 \in Nat /\ \A i \in 1..(k - 1) : i \in 1..n  OBVIOUS
  <2>. QED  BY <1>1, <1>2, <2>1
<1>5. PICK x \in Entries : x = e(k)  BY <1>1
<1>4. [i \in 1..k |-> e(i)] = Append(q, x)
  <2>1. PICK r \in Seq(Entries) : r = Append(q, x)
    <3>1. Append(q, x) \in Seq(Entries)  BY <1>3
    <3>. QED  BY ONLY <3>1, Zenon
  <2>2. Len(r) = k /\ r[k] = x /\ \A i \in 1..(k - 1) : r[i] = q[i]
    <3>1. Len(r) = (k - 1) + 1 /\ r[(k - 1) + 1] = x /\ \A i \in 1..(k - 1) : r[i] = q[i]  BY <1>3, <2>1
    <3>2. (k - 1) + 1 = k OBVIOUS
    <3>. QED  BY ONLY <3>1, <3>2
  <2>3. \A i \in 1..k : r[i] = e(i)
    <3>1. \A i \in 1..k : i = k \/ i \in 1..(k - 1)  OBVIOUS
    <3>. QED  BY ONLY <1>3, <1>5, <2>2, <3>1
  <2>4. r = [i \in 1..k |-> e(i)]
    <3>1. DOMAIN r = 1..k  BY ONLY <2>2, r \in Seq(Entries)
    <3>2. r = [i \in DOMAIN r |-> r[i]]  BY ONLY r \in Seq(Entries)
    <3>. QED  BY ONLY <2>3, <3>1, <3>2
  <2>. QED  BY <2>1, <2>4
<1>. QED  BY <1>1, <1>2, <1>3, <1>4, <1>5 DEF EntriesOf, e

\* The text without an entry.
LEMMA NothingIsOpened ==
  ASSUME PropertyAssumption
  PROVE  \E at : Opened(<<"{">> \o <<>>, <<>>, at)
<1>1. "{" \in Chars /\ "}" \in Chars  BY DEF PropertyAssumption, Punctuation
<1>2. PICK a \in Seq(Chars) : a = <<"{">> /\ Len(a) = 1 /\ a[1] = "{"  BY ONLY <1>1, OneChar, Zenon
<1>3. PICK b \in Seq(Chars) : b = <<"}">> /\ Len(b) = 1 /\ b[1] = "}"  BY ONLY <1>1, OneChar, Zenon
<1>4. a \o <<>> = a  OBVIOUS
<1>5. PICK s \in Seq(Chars) : s = a \o b /\ Joins(s, a, b, 1, 1)
  <2>1. PICK i \in Nat : i = 1  OBVIOUS
  <2>2. Len(a) = i /\ Len(b) = i  BY <1>2, <1>3, <2>1
  <2>3. PICK s \in Seq(Chars) : s = a \o b /\ Joins(s, a, b, i, i)  BY ONLY <2>2, Joined, a \in Seq(Chars), b \in Seq(Chars), i \in Nat, Zenon
  <2>. QED  BY <2>1, <2>3, Zenon
<1>6. Len(s) = 2 /\ s[1] = "{" /\ s[2] = "}"
  <2>1. Len(s) = 1 + 1 /\ (\A j \in 1..1 : s[j] = a[j]) /\ \A j \in 1..1 : s[1 + j] = b[j]  BY <1>5 DEF Joins
  <2>2. 1 \in 1..1 /\ 1 + 1 = 2  OBVIOUS
  <2>. QED  BY ONLY <1>2, <1>3, <2>1, <2>2
<1>7. PICK es, at : es = <<>> /\ at = [i \in 1..1 |-> 2]  OBVIOUS
<1>8. es \in Seq(Entries) /\ Len(es) = 0  BY <1>7
<1>9. Starts(es, at)  BY <1>7, <1>8 DEF Starts
<1>10. Laid(s, es, at)
  <2>1. \A i \in 1..Len(es) : FALSE  BY <1>8
  <2>2. Len(s) = IF Len(es) = 0 THEN 2 ELSE at[Len(es) + 1] - 2  BY ONLY <1>6, <1>8
  <2>3. s[Len(s)] = "}"  BY ONLY <1>6
  <2>. QED  BY <1>6, <1>9, <2>1, <2>2, <2>3, Zenon DEF Laid
<1>. QED  BY <1>2, <1>3, <1>4, <1>5, <1>7, <1>10, Zenon DEF Opened


\* What evaluate_properties puts in front of entry i, and the entry.
Piece(m, ks, i) == (IF i = 1 THEN <<>> ELSE <<",", " ">>) \o Entry(ks[i], m[ks[i]])

\* One piece more: one entry more.
LEMMA PieceOpened ==
  ASSUME PropertyAssumption, NEW m, NEW ks \in Seq(Keys), NEW n \in Nat, n = Len(ks),
         \A i \in 1..n : m[ks[i]] \in Values, NEW k \in 1..n,
         NEW g \in Seq(Chars), NEW at, Opened(<<"{">> \o g, EntriesOf(m, ks, k - 1), at)
  PROVE  /\ Piece(m, ks, k) \in Seq(Chars)
         /\ \E more : Opened(<<"{">> \o (g \o Piece(m, ks, k)), EntriesOf(m, ks, k), more)
<1>1. "{" \in Chars  BY DEF PropertyAssumption, Punctuation
<1>2. PICK a \in Seq(Chars) : a = <<"{">>
  <2>1. PICK t \in Seq(Chars) : t = <<"{">> /\ Len(t) = 1 /\ t[1] = "{"  BY ONLY <1>1, OneChar, Zenon
  <2>. QED  BY ONLY <2>1
<1>3. PICK e \in Entries : e = [key |-> ks[k], value |-> m[ks[k]]]  BY EntriesOfMore, Zenon
<1>4. e.key = ks[k] /\ e.value = m[ks[k]]  BY <1>3
<1>5. PICK es \in Seq(Entries) :
        es = EntriesOf(m, ks, k - 1) /\ Len(es) = k - 1 /\ EntriesOf(m, ks, k) = Append(es, e)
  <2>1. /\ EntriesOf(m, ks, k - 1) \in Seq(Entries) /\ Len(EntriesOf(m, ks, k - 1)) = k - 1
        /\ EntriesOf(m, ks, k) = Append(EntriesOf(m, ks, k - 1), [key |-> ks[k], value |-> m[ks[k]]])
    BY EntriesOfMore
  <2>. QED  BY ONLY <1>3, <2>1, Zenon
<1>6. PICK z \in Seq(Chars) : z = Separator(es) /\ z = IF k = 1 THEN <<>> ELSE <<",", " ">>
  <2>1. Len(es) = 0 <=> k = 1
    <3>1. k - 1 = 0 <=> k = 1  BY ONLY k \in 1..n, n \in Nat
    <3>. QED  BY ONLY <1>5, <3>1
  <2>2. PICK c \in Seq(Chars) : c = <<",", " ">>  BY ONLY PropertyAssumption, CommaText, Zenon
  <2>3. <<>> \in Seq(Chars)  BY ONLY EmptySeq
  <2>. QED  BY ONLY <2>1, <2>2, <2>3 DEF Separator
<1>7. PICK d \in Seq(Chars) : d = Entry(e.key, e.value)  BY EntryIs
<1>8. Piece(m, ks, k) = z \o d  BY <1>4, <1>6, <1>7 DEF Piece
<1>9. Piece(m, ks, k) \in Seq(Chars)
  <2>1. z \o d \in Seq(Chars)  BY ONLY z \in Seq(Chars), d \in Seq(Chars)
  <2>. QED  BY ONLY <1>8, <2>1
<1>10. PICK b \in Seq(Chars) : b = a \o g /\ Opened(b, es, at)
  <2>1. a \o g \in Seq(Chars)  BY ONLY a \in Seq(Chars), g \in Seq(Chars)
  <2>. QED  BY ONLY <1>2, <1>5, <2>1, Opened(<<"{">> \o g, EntriesOf(m, ks, k - 1), at), Zenon
<1>11. PICK more : Opened(b \o Separator(es) \o Entry(e.key, e.value), Append(es, e), more)
  BY <1>10, AppendedIsLaid, Zenon
<1>12. b \o Separator(es) \o Entry(e.key, e.value) = <<"{">> \o (g \o Piece(m, ks, k))
  <2>2. Rejoins(a, g, z, d)
    BY ONLY a \in Seq(Chars), g \in Seq(Chars), z \in Seq(Chars), d \in Seq(Chars), Joined4, Zenon
  <2>1. a \o (g \o (z \o d)) = ((a \o g) \o z) \o d  BY ONLY <2>2, Zenon DEF Rejoins
  <2>. QED  BY ONLY <1>2, <1>6, <1>7, <1>8, <1>10, <2>1, Zenon
<1>13. Opened(<<"{">> \o (g \o Piece(m, ks, k)), EntriesOf(m, ks, k), more)
  BY ONLY <1>5, <1>11, <1>12, Zenon
<1>. QED  BY <1>9, <1>13, Zenon

\* The text of a map lays out its entries, in the order of its keys.
LEMMA EvaluatedIsLaid ==
  ASSUME PropertyAssumption, NEW m, NEW ks \in Seq(Keys), ks = InOrder(m), NEW n \in Nat, n = Len(ks),
         \A i \in 1..n : m[ks[i]] \in Values
  PROVE  \E at : Laid(evaluate_properties(m), EntriesOf(m, ks, n), at)
<1>1. DOMAIN ks = 1..n  OBVIOUS
<1>2. PICK seqs : seqs = [i \in 1..n |-> Piece(m, ks, i)]  OBVIOUS
<1>3. evaluate_properties(m) = <<"{">> \o FlattenSeq(seqs) \o <<"}">>
  <2>1. evaluate_properties(m) = <<"{">> \o FlattenSeq([i \in DOMAIN ks |-> Piece(m, ks, i)]) \o <<"}">>
    BY Zenon DEF evaluate_properties, Piece
  <2>. QED  BY ONLY <1>1, <1>2, <2>1, Zenon
<1>4. ASSUME NEW i \in 1..n PROVE Piece(m, ks, i) \in Seq(Chars)
  <2>1. PICK e \in Entries : e = [key |-> ks[i], value |-> m[ks[i]]]  BY EntriesOfMore, Zenon
  <2>2. e.key = ks[i] /\ e.value = m[ks[i]]  BY <2>1
  <2>3. PICK d \in Seq(Chars) : d = Entry(e.key, e.value)  BY EntryIs
  <2>5. PICK c \in Seq(Chars) : c = <<",", " ">>  BY ONLY PropertyAssumption, CommaText, Zenon
  <2>6. PICK z \in Seq(Chars) : z = IF i = 1 THEN <<>> ELSE <<",", " ">>
    <3>1. <<>> \in Seq(Chars)  OBVIOUS
    <3>. QED  BY ONLY <2>5, <3>1
  <2>7. Piece(m, ks, i) = z \o d  BY ONLY <2>2, <2>3, <2>6, Zenon DEF Piece
  <2>8. z \o d \in Seq(Chars)  OBVIOUS
  <2>. QED  BY ONLY <2>7, <2>8
<1>5. seqs \in [1..n -> Seq(Chars)]  BY ONLY <1>2, <1>4
<1>6. PICK f \in [0..n -> Seq(Chars)] : Appended(f, n, seqs)  BY ONLY <1>5, n \in Nat, FlattenFold, Zenon
<1>7. f[0] = <<>> /\ (\A k \in 1..n : f[k] = f[k - 1] \o seqs[k]) /\ FlattenSeq(seqs) = f[n]  BY <1>6 DEF Appended
<1>. DEFINE T == {k \in 0..n : \E at : Opened(<<"{">> \o f[k], EntriesOf(m, ks, k), at)}
<1>8. 0 \in T
  <2>1. EntriesOf(m, ks, 0) = <<>>  BY DEF EntriesOf
  <2>2. \E at : Opened(<<"{">> \o f[0], EntriesOf(m, ks, 0), at)  BY ONLY PropertyAssumption, <1>7, <2>1, NothingIsOpened, Zenon
  <2>3. 0 \in 0..n  OBVIOUS
  <2>. QED  BY ONLY <2>2, <2>3
<1>9. ASSUME NEW k \in 1..n, k - 1 \in T PROVE k \in T
  <2>1. k \in 0..n /\ k - 1 \in 0..n  OBVIOUS
  <2>2. PICK g \in Seq(Chars) : g = f[k - 1]  BY <2>1
  <2>3. PICK at : Opened(<<"{">> \o g, EntriesOf(m, ks, k - 1), at)  BY <1>9, <2>2
  <2>4. \E more : Opened(<<"{">> \o (g \o Piece(m, ks, k)), EntriesOf(m, ks, k), more)  BY <2>3, PieceOpened, Zenon
  <2>5. f[k] = g \o Piece(m, ks, k)
    <3>1. seqs[k] = Piece(m, ks, k)  BY <1>2
    <3>. QED  BY ONLY <1>7, <2>2, <3>1, k \in 1..n
  <2>6. \E more : Opened(<<"{">> \o f[k], EntriesOf(m, ks, k), more)  BY ONLY <2>4, <2>5, Zenon
  <2>. QED  BY ONLY <2>1, <2>6
<1>10. n \in T
  <2>1. T \in SUBSET (0..n)  OBVIOUS
  <2>. HIDE DEF T
  <2>2. T = 0..n  BY ONLY <1>8, <1>9, <2>1, StepInduction, n \in Nat
  <2>. QED  BY ONLY <2>2, n \in Nat
<1>11. PICK at : Opened(<<"{">> \o f[n], EntriesOf(m, ks, n), at)  BY <1>10
<1>12. Laid(evaluate_properties(m), EntriesOf(m, ks, n), at)  BY ONLY <1>3, <1>7, <1>11, Zenon DEF Opened
<1>. QED  BY <1>12, Zenon


-----------------------------------------------------------------------------
(***************************************************************************)
(* The invariant: the text of a node lays out one entry for each property. *)
(***************************************************************************)

\* The entries are those of the properties.
Keeps(es, map) ==
  /\ \A i \in 1..Len(es) : es[i].key \in DOMAIN map /\ map[es[i].key] = es[i].value.ref
  /\ \A k \in DOMAIN map : \E i \in 1..Len(es) : es[i].key = k

\* The text s lays them out.
Holds(s, map, es, at) == Laid(s, es, at) /\ Distinct(es) /\ Keeps(es, map)

\* There are such entries.
PropsInv == \E es, at : Holds(json, props, es, at)

\* The text that CREATE writes.
LEMMA CreatedHolds ==
  ASSUME PropertyAssumption, NEW m, \A k \in DOMAIN m : m[k] \in Values, DOMAIN m \subseteq Keys
  PROVE  \E es, at : Holds(evaluate_properties(m), [k \in DOMAIN m |-> m[k].ref], es, at)
<1>1. PICK ks \in Seq(Keys) : ks = InOrder(m) /\ Picks(ks, Len(KeyOrder), m)
  <2>1. Picks(InOrder(m), Len(KeyOrder), m)  BY InOrderIs
  <2>. QED  BY <2>1, Zenon DEF Picks
<1>2. PICK n \in Nat : n = Len(ks)  OBVIOUS
<1>3. /\ \A i, j \in 1..n : ks[i] = ks[j] => i = j
      /\ \A i \in 1..n : ks[i] \in DOMAIN m
      /\ \A j \in 1..Len(KeyOrder) : KeyOrder[j] \in DOMAIN m => \E i \in 1..n : ks[i] = KeyOrder[j]
  BY <1>1, <1>2, Zenon DEF Picks
<1>4. \A i \in 1..n : m[ks[i]] \in Values  BY <1>3
<1>5. PICK at : Laid(evaluate_properties(m), EntriesOf(m, ks, n), at)
  BY <1>1, <1>2, <1>4, EvaluatedIsLaid, Zenon
<1>6. PICK es : es = EntriesOf(m, ks, n)  OBVIOUS
<1>7. Len(es) = n /\ \A i \in 1..n : es[i].key = ks[i] /\ es[i].value = m[ks[i]]
  BY ONLY <1>6, n \in Nat DEF EntriesOf
<1>8. Distinct(es)  BY ONLY <1>3, <1>7 DEF Distinct
<1>9. PICK map : map = [k \in DOMAIN m |-> m[k].ref]  OBVIOUS
<1>10. Keeps(es, map)
  <2>1. ASSUME NEW i \in 1..n PROVE es[i].key \in DOMAIN map /\ map[es[i].key] = es[i].value.ref
    BY <1>3, <1>7, <1>9
  <2>2. ASSUME NEW k \in DOMAIN map PROVE \E i \in 1..n : es[i].key = k
    <3>1. k \in DOMAIN m /\ k \in Keys  BY <1>9
    <3>2. PICK j \in 1..Len(KeyOrder) : KeyOrder[j] = k
      <4>1. KeyOrder \in Seq(Keys)  BY DEF PropertyAssumption
      <4>. QED  BY <3>1, <4>1 DEF Keys, ToSet
    <3>. QED  BY ONLY <1>3, <1>7, <3>1, <3>2
  <2>. QED  BY ONLY <1>7, <2>1, <2>2 DEF Keeps
<1>. QED  BY <1>5, <1>6, <1>8, <1>9, <1>10, Zenon DEF Holds

\* The text that SET writes.
LEMMA SetHolds ==
  ASSUME PropertyAssumption, NoKeyStrings(Values), NEW s, NEW map, NEW es, NEW at, Holds(s, map, es, at),
         NEW k \in Keys, NEW v \in Values
  PROVE  \E fs, more : Holds(update_json_property(s, k, v), [x \in DOMAIN map \cup {k} |-> IF x = k THEN v.ref ELSE map[x]], fs, more)
<1>1. Laid(s, es, at) /\ Distinct(es) /\ Keeps(es, map) /\ es \in Seq(Entries)  BY DEF Holds, Laid, Starts
<1>2. PICK e \in Entries : e.key = k /\ e.value = v
  <2>1. PICK r : r = [key |-> k, value |-> v]  OBVIOUS
  <2>2. r \in Entries /\ r.key = k /\ r.value = v  BY ONLY <2>1, k \in Keys, v \in Values DEF Entries
  <2>. QED  BY ONLY <2>2, Zenon
<1>3. PICK n \in Nat : n = Len(es)  BY <1>1
<1>4. PICK new : new = [x \in DOMAIN map \cup {k} |-> IF x = k THEN v.ref ELSE map[x]]  OBVIOUS
<1>5. DOMAIN new = {k} \cup DOMAIN map /\ new[k] = v.ref /\ \A x \in DOMAIN map : x # k => new[x] = map[x]
  BY ONLY <1>4
<1>6. CASE \E j \in 1..n : es[j].key = k
  <2>1. PICK j \in 1..n : es[j].key = k  BY <1>6
  <2>2. PICK fs : fs = [es EXCEPT ![j] = e]  OBVIOUS
  <2>3. Len(fs) = n /\ fs[j] = e /\ \A i \in 1..n : i # j => fs[i] = es[i]
    BY ONLY <1>1, <1>3, <2>1, <2>2, e \in Entries
  <2>4. PICK more : Laid(update_json_property(s, e.key, e.value), fs, more)
    BY <1>1, <1>2, <1>3, <2>1, <2>2, SetReplaces
  <2>5. \A i \in 1..n : fs[i].key = es[i].key  BY <1>2, <2>1, <2>3
  <2>6. Distinct(fs)  BY <1>1, <1>3, <2>3, <2>5 DEF Distinct
  <2>7. Keeps(fs, new)
    <3>1. ASSUME NEW i \in 1..n PROVE fs[i].key \in DOMAIN new /\ new[fs[i].key] = fs[i].value.ref
      <4>1. CASE i = j  BY <1>2, <1>5, <2>3, <4>1
      <4>2. CASE i # j
        <5>1. es[i].key # k  BY <1>1, <1>3, <2>1, <4>2 DEF Distinct
        <5>2. es[i].key \in DOMAIN map /\ map[es[i].key] = es[i].value.ref  BY <1>1, <1>3 DEF Keeps
        <5>. QED  BY ONLY <1>5, <2>3, <4>2, <5>1, <5>2
      <4>. QED  BY <4>1, <4>2
    <3>2. ASSUME NEW x \in DOMAIN new PROVE \E i \in 1..n : fs[i].key = x
      <4>1. \E i \in 1..n : es[i].key = x  BY <1>1, <1>3, <1>5, <2>1 DEF Keeps
      <4>. QED  BY <2>5, <4>1
    <3>. QED  BY ONLY <2>3, <3>1, <3>2 DEF Keeps
  <2>. QED  BY <1>2, <1>4, <2>4, <2>6, <2>7, Zenon DEF Holds
<1>7. CASE \A j \in 1..n : es[j].key # k
  <2>1. PICK fs : fs = Append(es, e)  OBVIOUS
  <2>2. PICK more : Laid(update_json_property(s, e.key, e.value), fs, more)
    BY <1>1, <1>2, <1>3, <1>7, <2>1, SetAppends
  <2>3. Len(fs) = n + 1 /\ fs[n + 1] = e /\ \A i \in 1..n : fs[i] = es[i]
    BY ONLY <1>1, <1>3, <2>1, e \in Entries, n \in Nat
  <2>4. \A i \in 1..(n + 1) : i = n + 1 \/ i \in 1..n  OBVIOUS
  <2>5. n + 1 \in 1..(n + 1) /\ \A i \in 1..n : i \in 1..(n + 1)  OBVIOUS
  <2>6. Distinct(fs)
    <3>1. ASSUME NEW i \in 1..(n + 1), NEW j \in 1..(n + 1), fs[i].key = fs[j].key PROVE i = j
      <4>1. CASE i \in 1..n /\ j \in 1..n
        <5>1. es[i].key = es[j].key  BY ONLY <2>3, <3>1, <4>1
        <5>. QED  BY <1>1, <1>3, <4>1, <5>1 DEF Distinct
      <4>2. CASE i = n + 1 /\ j \in 1..n
        <5>1. es[j].key = k  BY ONLY <1>2, <2>3, <3>1, <4>2
        <5>. QED  BY ONLY <1>7, <4>2, <5>1
      <4>3. CASE i \in 1..n /\ j = n + 1
        <5>1. es[i].key = k  BY ONLY <1>2, <2>3, <3>1, <4>3
        <5>. QED  BY ONLY <1>7, <4>3, <5>1
      <4>. QED  BY ONLY <2>4, <4>1, <4>2, <4>3
    <3>. QED  BY ONLY <2>3, <3>1 DEF Distinct
  <2>7. Keeps(fs, new)
    <3>1. ASSUME NEW i \in 1..(n + 1) PROVE fs[i].key \in DOMAIN new /\ new[fs[i].key] = fs[i].value.ref
      <4>1. CASE i = n + 1
        <5>1. fs[i] = e  BY ONLY <2>3, <4>1
        <5>. QED  BY ONLY <1>2, <1>5, <5>1
      <4>2. CASE i \in 1..n
        <5>1. es[i].key # k  BY ONLY <1>7, <4>2
        <5>2. es[i].key \in DOMAIN map /\ map[es[i].key] = es[i].value.ref  BY <1>1, <1>3, <4>2 DEF Keeps
        <5>. QED  BY ONLY <1>5, <2>3, <4>2, <5>1, <5>2
      <4>. QED  BY ONLY <2>4, <4>1, <4>2
    <3>2. ASSUME NEW x \in DOMAIN new PROVE \E i \in 1..(n + 1) : fs[i].key = x
      <4>1. CASE x = k
        <5>1. fs[n + 1].key = x  BY ONLY <1>2, <2>3, <4>1
        <5>. QED  BY ONLY <2>5, <5>1
      <4>2. CASE x # k
        <5>1. x \in DOMAIN map  BY ONLY <1>5, <4>2, x \in DOMAIN new
        <5>2. PICK i \in 1..n : es[i].key = x  BY <1>1, <1>3, <5>1 DEF Keeps
        <5>. QED  BY ONLY <2>3, <2>5, <5>2
      <4>. QED  BY ONLY <4>1, <4>2
    <3>. QED  BY ONLY <2>3, <3>1, <3>2 DEF Keeps
  <2>. QED  BY <1>2, <1>4, <2>2, <2>6, <2>7, Zenon DEF Holds
<1>. QED  BY <1>6, <1>7

\* What the readers find in such a text.
LEMMA HoldsAgree ==
  ASSUME PropertyAssumption, NoKeyStrings(Values), NEW es, NEW at, Holds(json, props, es, at)
  PROVE  ReadersAgree
<1>1. Laid(json, es, at) /\ Distinct(es) /\ Keeps(es, props) /\ es \in Seq(Entries)  BY DEF Holds, Laid, Starts
<1>2. PICK n \in Nat : n = Len(es)  BY <1>1
<1>3. /\ \A i \in 1..n : es[i].key \in DOMAIN props /\ props[es[i].key] = es[i].value.ref
      /\ \A k \in DOMAIN props : \E i \in 1..n : es[i].key = k
  BY <1>1, <1>2 DEF Keeps
<1>4. ASSUME NEW k \in Keys
      PROVE  get_json_value(json, KeyText[k]) = IF k \in DOMAIN props THEN props[k] ELSE <<>>
  <2>1. /\ \A i \in 1..Len(es) : es[i].key = k => get_json_value(json, KeyText[k]) = es[i].value.ref
        /\ (\A i \in 1..Len(es) : es[i].key # k) => get_json_value(json, KeyText[k]) = <<>>
    BY <1>1, LookupOfLayout
  <2>2. CASE k \in DOMAIN props
    <3>1. PICK i \in 1..n : es[i].key = k  BY <1>3, <2>2
    <3>. QED  BY ONLY <1>2, <1>3, <2>1, <2>2, <3>1
  <2>3. CASE k \notin DOMAIN props
    <3>1. \A i \in 1..n : es[i].key # k  BY <1>3, <2>3
    <3>. QED  BY ONLY <1>2, <2>1, <2>3, <3>1
  <2>. QED  BY <2>2, <2>3
<1>5. PICK pairs : pairs = parse_json_properties(json)  OBVIOUS
<1>6. pairs = [i \in 1..n |-> PairOf(es[i])]  BY <1>1, <1>2, <1>5, PairsOfLayout, Zenon
<1>7. DOMAIN pairs = 1..n /\ \A i \in 1..n : pairs[i] = [key |-> KeyText[es[i].key], value |-> props[es[i].key]]
  BY ONLY <1>3, <1>6 DEF PairOf
<1>8. ToSet(pairs) = {[key |-> KeyText[k], value |-> props[k]] : k \in DOMAIN props}
  <2>1. ToSet(pairs) = {pairs[i] : i \in 1..n}  BY <1>7 DEF ToSet
  <2>. DEFINE pair(k) == [key |-> KeyText[k], value |-> props[k]]
  <2>2. \A i \in 1..n : pairs[i] = pair(es[i].key) /\ es[i].key \in DOMAIN props  BY <1>3, <1>7
  <2>. HIDE DEF pair
  <2>3. {pairs[i] : i \in 1..n} = {pair(k) : k \in DOMAIN props}
    <3>1. ASSUME NEW i \in 1..n PROVE pairs[i] \in {pair(k) : k \in DOMAIN props}  BY ONLY <2>2, i \in 1..n
    <3>2. ASSUME NEW k \in DOMAIN props PROVE pair(k) \in {pairs[i] : i \in 1..n}
      <4>1. PICK i \in 1..n : es[i].key = k  BY ONLY <1>3, k \in DOMAIN props
      <4>. QED  BY ONLY <2>2, <4>1
    <3>. QED  BY ONLY <3>1, <3>2
  <2>. QED  BY ONLY <2>1, <2>3, Zenon DEF pair
<1>9. IsInjective(pairs)
  <2>1. \A x, y \in Keys : KeyText[x] = KeyText[y] => x = y
    BY DEF PropertyAssumption, IsInjective
  <2>2. \A i \in 1..n : es[i].key \in Keys
    <3>1. \A e \in Entries : e.key \in Keys  BY ONLY DEF Entries
    <3>2. \A i \in 1..n : es[i] \in Entries  BY <1>1, <1>2
    <3>. QED  BY ONLY <3>1, <3>2
  <2>3. \A i, j \in 1..n : es[i].key = es[j].key => i = j  BY <1>1, <1>2 DEF Distinct
  <2>4. ASSUME NEW i \in 1..n, NEW j \in 1..n, pairs[i] = pairs[j] PROVE i = j
    <3>1. KeyText[es[i].key] = KeyText[es[j].key]
      <4>1. pairs[i].key = KeyText[es[i].key] /\ pairs[j].key = KeyText[es[j].key]  BY ONLY <1>7, i \in 1..n, j \in 1..n
      <4>. QED  BY ONLY <2>4, <4>1
    <3>2. es[i].key = es[j].key  BY ONLY <2>1, <2>2, <3>1, i \in 1..n, j \in 1..n
    <3>. QED  BY ONLY <2>3, <3>2, i \in 1..n, j \in 1..n
  <2>. QED  BY ONLY <1>7, <2>4 DEF IsInjective
<1>. QED  BY <1>4, <1>5, <1>8, <1>9 DEF ReadersAgree

\* PropsInv is inductive.
LEMMA PropsInvHolds ==
  ASSUME NoKeyStrings(Values)
  PROVE  PropsSpec => []PropsInv
<1>1. PropsInit => PropsInv
  <2>1. PICK none : none = NoProperties  OBVIOUS
  <2>2. DOMAIN none = {} /\ [k \in DOMAIN none |-> none[k].ref] = none  BY <2>1 DEF NoProperties
  <2>3. \E es, at : Holds(evaluate_properties(none), [k \in DOMAIN none |-> none[k].ref], es, at)
    BY <2>2, PropertyAssumption, CreatedHolds
  <2>. QED  BY <2>1, <2>2, <2>3, Zenon DEF PropsInit, PropsInv
<1>2. PropsInv /\ [PropsNext]_<<json, props>> => PropsInv'
  <2>1. SUFFICES ASSUME NEW es, NEW at, Holds(json, props, es, at), [PropsNext]_<<json, props>>
                 PROVE  \E fs, more : Holds(json', props', fs, more)
    BY Zenon DEF PropsInv
  <2>2. CASE UNCHANGED <<json, props>>
    <3>1. json' = json /\ props' = props  BY <2>2
    <3>. QED  BY <2>1, <3>1, Zenon
  <2>3. ASSUME NEW m \in Maps, CreateProps(m) PROVE \E fs, more : Holds(json', props', fs, more)
    <3>1. DOMAIN m \subseteq Keys /\ \A k \in DOMAIN m : m[k] \in Values  BY PropertyAssumption DEF PropertyAssumption
    <3>2. \E fs, more : Holds(evaluate_properties(m), [k \in DOMAIN m |-> m[k].ref], fs, more)
      BY <3>1, PropertyAssumption, CreatedHolds
    <3>. QED  BY <2>3, <3>2, Zenon DEF CreateProps
  <2>4. ASSUME NEW k \in Keys, NEW v \in Values, SetProp(k, v) PROVE \E fs, more : Holds(json', props', fs, more)
    <3>1. \E fs, more : Holds(update_json_property(json, k, v), [x \in DOMAIN props \cup {k} |-> IF x = k THEN v.ref ELSE props[x]], fs, more)
      BY <2>1, PropertyAssumption, SetHolds, Zenon
    <3>. QED  BY <2>4, <3>1, Zenon DEF SetProp
  <2>. QED  BY <2>1, <2>2, <2>3, <2>4, Zenon DEF PropsNext
<1>. QED  BY <1>1, <1>2, PTL DEF PropsSpec

\* Whatever the keys, their spelling, the values and the maps are, as long as no string
\* is spelled like a key: after every CREATE and SET both scanners find in the text of
\* a node what the statements assigned.
THEOREM ReadersAlwaysAgree ==
  ASSUME NoKeyStrings(Values)
  PROVE  PropsSpec => []ReadersAgree
<1>1. PropsSpec => []PropsInv  BY PropsInvHolds
<1>2. PropsInv => ReadersAgree  BY PropertyAssumption, HoldsAgree, Zenon DEF PropsInv
<1>. QED  BY <1>1, <1>2, PTL

===============================================================================
