--------------------------- MODULE ExecutorProofs ---------------------------
(***************************************************************************)
(* Proofs about Executor, for every set of statements, variables, labels,  *)
(* keys and values and every bound.  What execute does with the elements   *)
(* of a path, the paths of a clause or the ids of a variable is a fold in  *)
(* the model; the first part says what a fold computes.                    *)
(***************************************************************************)
EXTENDS Executor, GraphTablesProofs, WellFoundedInduction, FiniteSetTheorems

-----------------------------------------------------------------------------
(***************************************************************************)
(* Folds.  Induction over positions is by a least counterexample: the      *)
(* order of the natural numbers is well founded.                           *)
(***************************************************************************)

\* Induction over an interval, from a least counterexample.
LEMMA StepInduction ==
  ASSUME NEW n \in Nat, NEW T \in SUBSET (0..n), 0 \in T, \A k \in 1..n : k - 1 \in T => k \in T
  PROVE  T = 0..n
<1>. DEFINE C == (0..n) \ T
            R == OpToRel(<, Nat)
<1>1. SUFFICES ASSUME C # {} PROVE FALSE
  OBVIOUS
<1>2. IsWellFoundedOn(R, Nat)
  BY NatLessThanWellFounded
<1>3. C \subseteq Nat
  OBVIOUS
<1>4. \E x \in C : \A y \in C : ~(<<y, x>> \in R)
  <2>. HIDE DEF C, R
  <2>. QED  BY <1>1, <1>2, <1>3, WFMin, ZenonT(30)
<1>5. PICK x \in C : \A y \in C : ~(<<y, x>> \in R)
  BY <1>4
<1>6. x \in 1..n /\ x - 1 \in 0..n /\ x \notin T
  <2>. HIDE DEF R
  <2>. QED  BY <1>5, 0 \in T
<1>7. x - 1 \in C
  <2>. HIDE DEF R
  <2>. QED  BY <1>6
<1>8. <<x - 1, x>> \in R
  BY <1>6 DEF OpToRel
<1>. QED
  <2>. HIDE DEF R
  <2>. QED  BY <1>5, <1>7, <1>8

\* The largest element of a non-empty set of positions.
LEMMA MaxOfPositions ==
  ASSUME NEW n \in Nat, NEW s \in SUBSET (1..n), s # {}
  PROVE  /\ Max(s) \in s
         /\ \A x \in s : x <= Max(s)
<1>. DEFINE T == {k \in 0..n : s \cap 1..k # {} =>
                     \E x \in s \cap 1..k : \A y \in s \cap 1..k : y <= x}
<1>1. 0 \in T
  OBVIOUS
<1>2. ASSUME NEW k \in 1..n, k - 1 \in T PROVE k \in T
  <2>1. CASE k \in s  BY <2>1, <1>2
  <2>2. CASE k \notin s
    <3>1. s \cap 1..k = s \cap 1..(k-1)  BY <2>2
    <3>. QED  BY <3>1, <1>2
  <2>. QED  BY <2>1, <2>2
<1>3. n \in T
  <2>1. T \in SUBSET (0..n)  OBVIOUS
  <2>. HIDE DEF T
  <2>. QED BY <1>1, <1>2, <2>1, StepInduction
<1>4. s \cap 1..n = s
  OBVIOUS
<1>5. \E x \in s : \A y \in s : x >= y
  BY <1>3, <1>4
<1>. QED  BY <1>5 DEF Max

\* A function given by recursion over sets of positions, the largest first, exists.
IsFold(h, n, b, g) ==
  \A s \in SUBSET (1..n) : h[s] = IF s = {} THEN b ELSE g[Max(s)][h[s \ {Max(s)}]]

\* Such a function exists, whatever the steps are.
LEMMA FoldExists ==
  ASSUME NEW n \in Nat, NEW S, NEW b \in S, NEW g \in [1..n -> [S -> S]]
  PROVE  \E h \in [SUBSET (1..n) -> S] : IsFold(h, n, b, g)
<1>. DEFINE Eq(h, m) == \A s \in SUBSET (1..m) :
                          h[s] = IF s = {} THEN b ELSE g[Max(s)][h[s \ {Max(s)}]]
            T == {m \in 0..n : \E h \in [SUBSET (1..m) -> S] : Eq(h, m)}
<1>1. 0 \in T
  <2>1. SUBSET (1..0) = {{}}  OBVIOUS
  <2>. DEFINE f == [s \in SUBSET (1..0) |-> b]
  <2>2. f \in [SUBSET (1..0) -> S]  OBVIOUS
  <2>3. Eq(f, 0)  BY <2>1
  <2>4. \E h \in [SUBSET (1..0) -> S] : Eq(h, 0)
    <3>. HIDE DEF f, Eq
    <3>. QED  BY <2>2, <2>3
  <2>5. 0 \in 0..n  OBVIOUS
  <2>. HIDE DEF f, Eq
  <2>. QED  BY <2>4, <2>5, Zenon
<1>2. ASSUME NEW m \in 1..n, m - 1 \in T PROVE m \in T
  <2>1. PICK h \in [SUBSET (1..(m-1)) -> S] : Eq(h, m - 1)  BY <1>2
  <2>. DEFINE f == [s \in SUBSET (1..m) |-> IF m \in s THEN g[m][h[s \ {m}]] ELSE h[s]]
  <2>2. \A s \in SUBSET (1..m) : s \ {m} \in SUBSET (1..(m-1)) /\ (m \notin s => s \in SUBSET (1..(m-1)))
    OBVIOUS
  <2>3. f \in [SUBSET (1..m) -> S]  BY <2>2
  <2>4. ASSUME NEW s \in SUBSET (1..m)
        PROVE  f[s] = IF s = {} THEN b ELSE g[Max(s)][f[s \ {Max(s)}]]
    <3>1. CASE m \in s
      <4>0. m \in Nat /\ s # {}  BY <3>1
      <4>1. Max(s) \in s /\ \A x \in s : x <= Max(s)  BY ONLY <4>0, s \in SUBSET (1..m), MaxOfPositions
      <4>2. f[s \ {m}] = h[s \ {m}]  BY <2>2
      <4>3. Max(s) = m
        <5>. HIDE DEF f, T, Eq
        <5>1. Max(s) \in 1..m /\ m <= Max(s)  BY <3>1, <4>1
        <5>. QED  BY ONLY <5>1, m \in 1..n, n \in Nat
      <4>. QED  BY <3>1, <4>2, <4>3
    <3>2. CASE m \notin s /\ s # {}
      <4>0. m \in Nat  OBVIOUS
      <4>1. Max(s) \in s  BY ONLY <3>2, <4>0, s \in SUBSET (1..m), MaxOfPositions
      <4>2. s \ {Max(s)} \in SUBSET (1..(m-1)) /\ m \notin s \ {Max(s)} /\ s \ {Max(s)} \in SUBSET (1..m)
        BY <2>2, <3>2
      <4>3. f[s \ {Max(s)}] = h[s \ {Max(s)}]  BY <4>1, <4>2
      <4>4. f[s] = h[s]  BY <3>2
      <4>. QED  BY <2>1, <2>2, <3>2, <4>3, <4>4
    <3>3. CASE s = {}
      <4>1. f[s] = h[s]  BY <3>3
      <4>. QED BY <2>1, <2>2, <3>3, <4>1
    <3>. QED  BY <3>1, <3>2, <3>3
  <2>5. Eq(f, m)  BY <2>4
  <2>6. \E x \in [SUBSET (1..m) -> S] : Eq(x, m)
    <3>. HIDE DEF f, Eq
    <3>. QED  BY <2>3, <2>5
  <2>. HIDE DEF f, Eq
  <2>. QED  BY <2>6
<1>3. T \in SUBSET (0..n)  OBVIOUS
<1>4. n \in T
  <2>. HIDE DEF T
  <2>. QED  BY ONLY <1>1, <1>2, <1>3, StepInduction, n \in Nat
<1>. QED  BY <1>4 DEF IsFold

\* The values such a function takes on the initial intervals, one step after the other.
LEMMA FoldSteps ==
  ASSUME NEW n \in Nat, NEW S, NEW b \in S, NEW g, NEW h,
         \A k \in 1..n : \A x \in S : g[k][x] \in S, IsFold(h, n, b, g)
  PROVE  \E f \in [0..n -> S] :
           /\ f[0] = b
           /\ \A k \in 1..n : f[k] = g[k][f[k - 1]]
           /\ h[1..n] = f[n]
<1>. DEFINE f == [k \in 0..n |-> h[1..k]]
            T == {k \in 0..n : f[k] \in S}
<1>. USE DEF IsFold
<1>1. f[0] = b
  <2>1. 1..0 = {} /\ {} \in SUBSET (1..n)  OBVIOUS
  <2>2. f[0] = h[1..0]  OBVIOUS
  <2>3. h[{}] = b  BY <2>1
  <2>. QED  BY ONLY <2>1, <2>2, <2>3
<1>2. ASSUME NEW k \in 1..n PROVE f[k] = g[k][f[k - 1]]
  <2>1. Max(1..k) = k
    <3>1. 1..k \in SUBSET (1..n) /\ 1..k # {} /\ k \in 1..k  OBVIOUS
    <3>2. Max(1..k) \in 1..k /\ k <= Max(1..k)  BY <3>1, MaxOfPositions
    <3>. QED  BY <3>2
  <2>2. (1..k) \ {k} = 1..(k-1)  OBVIOUS
  <2>. QED  BY <2>1, <2>2
<1>3. 0 \in T /\ \A k \in 1..n : k - 1 \in T => k \in T
  BY <1>1, <1>2
<1>4. T = 0..n
  <2>1. T \in SUBSET (0..n)  OBVIOUS
  <2>. HIDE DEF T
  <2>. QED  BY ONLY <1>3, <2>1, StepInduction, n \in Nat
<1>5. f \in [0..n -> S]  BY <1>4
<1>6. h[1..n] = f[n]  OBVIOUS
<1>. QED
  <2>. HIDE DEF f
  <2>. QED  BY <1>1, <1>2, <1>5, <1>6

\* Steps one after the other, as the lemmas cite them.
Stepping(n, S, b, q) == n \in Nat /\ b \in S /\ q \in [1..n -> [S -> S]]
Stepped(f, n, b, q) == f[0] = b /\ \A k \in 1..n : f[k] = q[k][f[k - 1]]

\* The form in which the folds of the model are used: fold and values, with
\* the result the last value.
LEMMA Steps ==
  ASSUME NEW n, NEW S, NEW b, NEW q, Stepping(n, S, b, q)
  PROVE  \E f \in [0..n -> S] : Stepped(f, n, b, q)
<1>0. n \in Nat /\ b \in S /\ q \in [1..n -> [S -> S]]
  BY DEF Stepping
<1>1. PICK h \in [SUBSET (1..n) -> S] : IsFold(h, n, b, q)
  BY ONLY <1>0, FoldExists
<1>. DEFINE H == h
            g == q
<1>2. IsFold(H, n, b, g) /\ \A k \in 1..n : \A x \in S : g[k][x] \in S
  BY <1>0, <1>1
<1>. HIDE DEF H, g
<1>3. PICK f \in [0..n -> S] :
        f[0] = b /\ (\A k \in 1..n : f[k] = g[k][f[k - 1]]) /\ H[1..n] = f[n]
  BY ONLY <1>0, <1>2, FoldSteps
<1>. QED  BY <1>3 DEF g, Stepped

\* CREATE of a path goes through its elements.
CreatePathSteps(f, n, path, env) ==
  /\ f[0] = env
  /\ \A k \in 1..n : f[k] = CreateElement(f[k - 1], path, k)
  /\ CreatePath(env, path) = f[n]

\* CreatePath is the last of the values its elements leave, the node and the
\* edge of each position in order.
LEMMA CreatePathFold ==
  ASSUME NEW path, NEW n \in Nat, DOMAIN path.nodes = 1..n,
         NEW S, NEW env \in S, \A k \in 1..n : \A e \in S : CreateElement(e, path, k) \in S
  PROVE  \E f \in [0..n -> S] : CreatePathSteps(f, n, path, env)
<1>. USE DEF CreatePathSteps
<1>. DEFINE seq == [i \in DOMAIN path.nodes |-> i]
            Eq(h) == h = [s \in SUBSET DOMAIN seq |->
                            IF s = {} THEN env ELSE CreateElement(h[s \ {Max(s)}], path, seq[Max(s)])]
            q == [k \in 1..n |-> [e \in S |-> CreateElement(e, path, k)]]
            H == CHOOSE h : Eq(h)
            g == [k \in 1..n |-> [e \in S \cup {H[s] : s \in SUBSET (1..n)} |-> CreateElement(e, path, k)]]
<1>1. \A s \in SUBSET (1..n) : s # {} => Max(s) \in 1..n /\ s \ {Max(s)} \in SUBSET (1..n)
  BY MaxOfPositions
<1>2. \E h : Eq(h)
  <2>1. q \in [1..n -> [S -> S]]  OBVIOUS
  <2>2. PICK h \in [SUBSET (1..n) -> S] : IsFold(h, n, env, q)
    <3>. HIDE DEF q
    <3>. QED  BY ONLY <2>1, FoldExists, n \in Nat, env \in S
  <2>3. Eq(h)  BY <1>1, <2>2 DEF IsFold
  <2>. HIDE DEF Eq
  <2>. QED  BY <2>3
<1>3. Eq(H)
  <2>. HIDE DEF Eq
  <2>. QED  BY <1>2
<1>4. IsFold(H, n, env, g)
  <2>. HIDE DEF H
  <2>. QED  BY <1>1, <1>3 DEF IsFold
<1>5. CreatePath(env, path) = H[1..n]
  <2>1. CreatePath(env, path) = H[DOMAIN seq]  BY Zenon DEF CreatePath, FoldLeft, MapThenFoldSet
  <2>. QED  BY <2>1
<1>6. /\ \A k \in 1..n : \A e \in S : g[k][e] \in S
      /\ \A k \in 1..n : \A e \in S : g[k][e] = CreateElement(e, path, k)
  OBVIOUS
<1>. HIDE DEF H, g
<1>7. PICK f \in [0..n -> S] :
        f[0] = env /\ (\A k \in 1..n : f[k] = g[k][f[k - 1]]) /\ H[1..n] = f[n]
  BY ONLY <1>4, <1>6, FoldSteps, n \in Nat, env \in S
<1>8. \A k \in 1..n : f[k - 1] \in S  BY <1>7
<1>9. \A k \in 1..n : f[k] = CreateElement(f[k - 1], path, k)  BY <1>6, <1>7, <1>8
<1>. QED  BY <1>5, <1>7, <1>9

\* CREATE goes through its paths.
CreatePathsSteps(f, n, paths, env) ==
  /\ f[0] = env
  /\ \A k \in 1..n : f[k] = CreatePath(f[k - 1], paths[k])
  /\ FoldLeft(CreatePath, env, paths) = f[n]

\* CreatePaths is the last of the values its paths leave.
LEMMA CreatePathsFold ==
  ASSUME NEW paths, NEW n \in Nat, DOMAIN paths = 1..n,
         NEW S, NEW env \in S, \A k \in 1..n : \A e \in S : CreatePath(e, paths[k]) \in S
  PROVE  \E f \in [0..n -> S] : CreatePathsSteps(f, n, paths, env)
<1>. USE DEF CreatePathsSteps
<1>. DEFINE seq == paths
            Eq(h) == h = [s \in SUBSET DOMAIN seq |->
                            IF s = {} THEN env ELSE CreatePath(h[s \ {Max(s)}], seq[Max(s)])]
            q == [k \in 1..n |-> [e \in S |-> CreatePath(e, paths[k])]]
            H == CHOOSE h : Eq(h)
            g == [k \in 1..n |-> [e \in S \cup {H[s] : s \in SUBSET (1..n)} |-> CreatePath(e, paths[k])]]
<1>1. \A s \in SUBSET (1..n) : s # {} => Max(s) \in 1..n /\ s \ {Max(s)} \in SUBSET (1..n)
  BY MaxOfPositions
<1>2. \E h : Eq(h)
  <2>1. q \in [1..n -> [S -> S]]  OBVIOUS
  <2>2. PICK h \in [SUBSET (1..n) -> S] : IsFold(h, n, env, q)
    <3>. HIDE DEF q
    <3>. QED  BY ONLY <2>1, FoldExists, n \in Nat, env \in S
  <2>3. Eq(h)  BY <1>1, <2>2 DEF IsFold
  <2>. HIDE DEF Eq
  <2>. QED  BY <2>3
<1>3. Eq(H)
  <2>. HIDE DEF Eq
  <2>. QED  BY <1>2
<1>4. IsFold(H, n, env, g)
  <2>. HIDE DEF H
  <2>. QED  BY <1>1, <1>3 DEF IsFold
<1>5. FoldLeft(CreatePath, env, paths) = H[1..n]
  <2>1. FoldLeft(CreatePath, env, paths) = H[DOMAIN seq]  BY Zenon DEF FoldLeft, MapThenFoldSet
  <2>. QED  BY <2>1
<1>6. /\ \A k \in 1..n : \A e \in S : g[k][e] \in S
      /\ \A k \in 1..n : \A e \in S : g[k][e] = CreatePath(e, paths[k])
  OBVIOUS
<1>. HIDE DEF H, g
<1>7. PICK f \in [0..n -> S] :
        f[0] = env /\ (\A k \in 1..n : f[k] = g[k][f[k - 1]]) /\ H[1..n] = f[n]
  BY ONLY <1>4, <1>6, FoldSteps, n \in Nat, env \in S
<1>8. \A k \in 1..n : f[k - 1] \in S  BY <1>7
<1>9. \A k \in 1..n : f[k] = CreatePath(f[k - 1], paths[k])  BY <1>6, <1>7, <1>8
<1>. QED  BY <1>5, <1>7, <1>9

\* DELETE of a variable goes through its ids.
DeleteIdsSteps(f, n, ids, detach, d) ==
  /\ f[0] = d
  /\ \A k \in 1..n : f[k] = DeleteTarget(f[k - 1], ids[k], detach)
  /\ FoldLeft(LAMBDA c, i : DeleteTarget(c, i, detach), d, ids) = f[n]

\* DeleteIds is the last of the values its ids leave.
LEMMA DeleteIdsFold ==
  ASSUME NEW ids, NEW detach, NEW n \in Nat, DOMAIN ids = 1..n,
         NEW S, NEW d \in S, \A k \in 1..n : \A e \in S : DeleteTarget(e, ids[k], detach) \in S
  PROVE  \E f \in [0..n -> S] : DeleteIdsSteps(f, n, ids, detach, d)
<1>. USE DEF DeleteIdsSteps
<1>. DEFINE seq == ids
            Eq(h) == h = [s \in SUBSET DOMAIN seq |->
                            IF s = {} THEN d ELSE DeleteTarget(h[s \ {Max(s)}], seq[Max(s)], detach)]
            q == [k \in 1..n |-> [e \in S |-> DeleteTarget(e, ids[k], detach)]]
            H == CHOOSE h : Eq(h)
            g == [k \in 1..n |-> [e \in S \cup {H[s] : s \in SUBSET (1..n)} |-> DeleteTarget(e, ids[k], detach)]]
<1>1. \A s \in SUBSET (1..n) : s # {} => Max(s) \in 1..n /\ s \ {Max(s)} \in SUBSET (1..n)
  BY MaxOfPositions
<1>2. \E h : Eq(h)
  <2>1. q \in [1..n -> [S -> S]]  OBVIOUS
  <2>2. PICK h \in [SUBSET (1..n) -> S] : IsFold(h, n, d, q)
    <3>. HIDE DEF q
    <3>. QED  BY ONLY <2>1, FoldExists, n \in Nat, d \in S
  <2>3. Eq(h)  BY <1>1, <2>2 DEF IsFold
  <2>. HIDE DEF Eq
  <2>. QED  BY <2>3
<1>3. Eq(H)
  <2>. HIDE DEF Eq
  <2>. QED  BY <1>2
<1>4. IsFold(H, n, d, g)
  <2>. HIDE DEF H
  <2>. QED  BY <1>1, <1>3 DEF IsFold
<1>5. FoldLeft(LAMBDA c, i : DeleteTarget(c, i, detach), d, ids) = H[1..n]
  <2>1. FoldLeft(LAMBDA c, i : DeleteTarget(c, i, detach), d, ids) = H[DOMAIN seq]  BY Zenon DEF FoldLeft, MapThenFoldSet
  <2>. QED  BY <2>1
<1>6. /\ \A k \in 1..n : \A e \in S : g[k][e] \in S
      /\ \A k \in 1..n : \A e \in S : g[k][e] = DeleteTarget(e, ids[k], detach)
  OBVIOUS
<1>. HIDE DEF H, g
<1>7. PICK f \in [0..n -> S] :
        f[0] = d /\ (\A k \in 1..n : f[k] = g[k][f[k - 1]]) /\ H[1..n] = f[n]
  BY ONLY <1>4, <1>6, FoldSteps, n \in Nat, d \in S
<1>8. \A k \in 1..n : f[k - 1] \in S  BY <1>7
<1>9. \A k \in 1..n : f[k] = DeleteTarget(f[k - 1], ids[k], detach)  BY <1>6, <1>7, <1>8
<1>. QED  BY <1>5, <1>7, <1>9

\* DELETE goes through its variables.
DeleteVariablesSteps(f, n, vs, detach, env) ==
  /\ f[0] = env
  /\ \A k \in 1..n : f[k] = DeleteVariable(f[k - 1], vs[k], detach)
  /\ FoldLeft(LAMBDA x, v : DeleteVariable(x, v, detach), env, vs) = f[n]

\* DeleteVariables is the last of the values its variables leave.
LEMMA DeleteVariablesFold ==
  ASSUME NEW vs, NEW detach, NEW n \in Nat, DOMAIN vs = 1..n,
         NEW S, NEW env \in S, \A k \in 1..n : \A e \in S : DeleteVariable(e, vs[k], detach) \in S
  PROVE  \E f \in [0..n -> S] : DeleteVariablesSteps(f, n, vs, detach, env)
<1>. USE DEF DeleteVariablesSteps
<1>. DEFINE seq == vs
            Eq(h) == h = [s \in SUBSET DOMAIN seq |->
                            IF s = {} THEN env ELSE DeleteVariable(h[s \ {Max(s)}], seq[Max(s)], detach)]
            q == [k \in 1..n |-> [e \in S |-> DeleteVariable(e, vs[k], detach)]]
            H == CHOOSE h : Eq(h)
            g == [k \in 1..n |-> [e \in S \cup {H[s] : s \in SUBSET (1..n)} |-> DeleteVariable(e, vs[k], detach)]]
<1>1. \A s \in SUBSET (1..n) : s # {} => Max(s) \in 1..n /\ s \ {Max(s)} \in SUBSET (1..n)
  BY MaxOfPositions
<1>2. \E h : Eq(h)
  <2>1. q \in [1..n -> [S -> S]]  OBVIOUS
  <2>2. PICK h \in [SUBSET (1..n) -> S] : IsFold(h, n, env, q)
    <3>. HIDE DEF q
    <3>. QED  BY ONLY <2>1, FoldExists, n \in Nat, env \in S
  <2>3. Eq(h)  BY <1>1, <2>2 DEF IsFold
  <2>. HIDE DEF Eq
  <2>. QED  BY <2>3
<1>3. Eq(H)
  <2>. HIDE DEF Eq
  <2>. QED  BY <1>2
<1>4. IsFold(H, n, env, g)
  <2>. HIDE DEF H
  <2>. QED  BY <1>1, <1>3 DEF IsFold
<1>5. FoldLeft(LAMBDA x, v : DeleteVariable(x, v, detach), env, vs) = H[1..n]
  <2>1. FoldLeft(LAMBDA x, v : DeleteVariable(x, v, detach), env, vs) = H[DOMAIN seq]  BY Zenon DEF FoldLeft, MapThenFoldSet
  <2>. QED  BY <2>1
<1>6. /\ \A k \in 1..n : \A e \in S : g[k][e] \in S
      /\ \A k \in 1..n : \A e \in S : g[k][e] = DeleteVariable(e, vs[k], detach)
  OBVIOUS
<1>. HIDE DEF H, g
<1>7. PICK f \in [0..n -> S] :
        f[0] = env /\ (\A k \in 1..n : f[k] = g[k][f[k - 1]]) /\ H[1..n] = f[n]
  BY ONLY <1>4, <1>6, FoldSteps, n \in Nat, env \in S
<1>8. \A k \in 1..n : f[k - 1] \in S  BY <1>7
<1>9. \A k \in 1..n : f[k] = DeleteVariable(f[k - 1], vs[k], detach)  BY <1>6, <1>7, <1>8
<1>. QED  BY <1>5, <1>7, <1>9

\* An assignment goes through the ids of its variable.
AssignIdsSteps(f, n, ids, a, pending) ==
  /\ f[0] = pending
  /\ \A k \in 1..n : f[k] = Assigned(f[k - 1], a, ids[k])
  /\ FoldLeft(LAMBDA p, i : Assigned(p, a, i), pending, ids) = f[n]

\* AssignAll is the last of the values its ids leave.
LEMMA AssignIdsFold ==
  ASSUME NEW ids, NEW a, NEW n \in Nat, DOMAIN ids = 1..n,
         NEW S, NEW pending \in S, \A k \in 1..n : \A e \in S : Assigned(e, a, ids[k]) \in S
  PROVE  \E f \in [0..n -> S] : AssignIdsSteps(f, n, ids, a, pending)
<1>. USE DEF AssignIdsSteps
<1>. DEFINE seq == ids
            Eq(h) == h = [s \in SUBSET DOMAIN seq |->
                            IF s = {} THEN pending ELSE Assigned(h[s \ {Max(s)}], a, seq[Max(s)])]
            q == [k \in 1..n |-> [e \in S |-> Assigned(e, a, ids[k])]]
            H == CHOOSE h : Eq(h)
            g == [k \in 1..n |-> [e \in S \cup {H[s] : s \in SUBSET (1..n)} |-> Assigned(e, a, ids[k])]]
<1>1. \A s \in SUBSET (1..n) : s # {} => Max(s) \in 1..n /\ s \ {Max(s)} \in SUBSET (1..n)
  BY MaxOfPositions
<1>2. \E h : Eq(h)
  <2>1. q \in [1..n -> [S -> S]]  OBVIOUS
  <2>2. PICK h \in [SUBSET (1..n) -> S] : IsFold(h, n, pending, q)
    <3>. HIDE DEF q
    <3>. QED  BY ONLY <2>1, FoldExists, n \in Nat, pending \in S
  <2>3. Eq(h)  BY <1>1, <2>2 DEF IsFold
  <2>. HIDE DEF Eq
  <2>. QED  BY <2>3
<1>3. Eq(H)
  <2>. HIDE DEF Eq
  <2>. QED  BY <1>2
<1>4. IsFold(H, n, pending, g)
  <2>. HIDE DEF H
  <2>. QED  BY <1>1, <1>3 DEF IsFold
<1>5. FoldLeft(LAMBDA p, i : Assigned(p, a, i), pending, ids) = H[1..n]
  <2>1. FoldLeft(LAMBDA p, i : Assigned(p, a, i), pending, ids) = H[DOMAIN seq]  BY Zenon DEF FoldLeft, MapThenFoldSet
  <2>. QED  BY <2>1
<1>6. /\ \A k \in 1..n : \A e \in S : g[k][e] \in S
      /\ \A k \in 1..n : \A e \in S : g[k][e] = Assigned(e, a, ids[k])
  OBVIOUS
<1>. HIDE DEF H, g
<1>7. PICK f \in [0..n -> S] :
        f[0] = pending /\ (\A k \in 1..n : f[k] = g[k][f[k - 1]]) /\ H[1..n] = f[n]
  BY ONLY <1>4, <1>6, FoldSteps, n \in Nat, pending \in S
<1>8. \A k \in 1..n : f[k - 1] \in S  BY <1>7
<1>9. \A k \in 1..n : f[k] = Assigned(f[k - 1], a, ids[k])  BY <1>6, <1>7, <1>8
<1>. QED  BY <1>5, <1>7, <1>9

\* SET goes through its assignments.
AssignmentsSteps(f, n, assignments, pending) ==
  /\ f[0] = pending
  /\ \A k \in 1..n : f[k] = AssignAll(f[k - 1], assignments[k])
  /\ FoldLeft(AssignAll, pending, assignments) = f[n]

\* Assignments is the last of the values the assignments of a SET leave.
LEMMA AssignmentsFold ==
  ASSUME NEW assignments, NEW n \in Nat, DOMAIN assignments = 1..n,
         NEW S, NEW pending \in S, \A k \in 1..n : \A e \in S : AssignAll(e, assignments[k]) \in S
  PROVE  \E f \in [0..n -> S] : AssignmentsSteps(f, n, assignments, pending)
<1>. USE DEF AssignmentsSteps
<1>. DEFINE seq == assignments
            Eq(h) == h = [s \in SUBSET DOMAIN seq |->
                            IF s = {} THEN pending ELSE AssignAll(h[s \ {Max(s)}], seq[Max(s)])]
            q == [k \in 1..n |-> [e \in S |-> AssignAll(e, assignments[k])]]
            H == CHOOSE h : Eq(h)
            g == [k \in 1..n |-> [e \in S \cup {H[s] : s \in SUBSET (1..n)} |-> AssignAll(e, assignments[k])]]
<1>1. \A s \in SUBSET (1..n) : s # {} => Max(s) \in 1..n /\ s \ {Max(s)} \in SUBSET (1..n)
  BY MaxOfPositions
<1>2. \E h : Eq(h)
  <2>1. q \in [1..n -> [S -> S]]  OBVIOUS
  <2>2. PICK h \in [SUBSET (1..n) -> S] : IsFold(h, n, pending, q)
    <3>. HIDE DEF q
    <3>. QED  BY ONLY <2>1, FoldExists, n \in Nat, pending \in S
  <2>3. Eq(h)  BY <1>1, <2>2 DEF IsFold
  <2>. HIDE DEF Eq
  <2>. QED  BY <2>3
<1>3. Eq(H)
  <2>. HIDE DEF Eq
  <2>. QED  BY <1>2
<1>4. IsFold(H, n, pending, g)
  <2>. HIDE DEF H
  <2>. QED  BY <1>1, <1>3 DEF IsFold
<1>5. FoldLeft(AssignAll, pending, assignments) = H[1..n]
  <2>1. FoldLeft(AssignAll, pending, assignments) = H[DOMAIN seq]  BY Zenon DEF FoldLeft, MapThenFoldSet
  <2>. QED  BY <2>1
<1>6. /\ \A k \in 1..n : \A e \in S : g[k][e] \in S
      /\ \A k \in 1..n : \A e \in S : g[k][e] = AssignAll(e, assignments[k])
  OBVIOUS
<1>. HIDE DEF H, g
<1>7. PICK f \in [0..n -> S] :
        f[0] = pending /\ (\A k \in 1..n : f[k] = g[k][f[k - 1]]) /\ H[1..n] = f[n]
  BY ONLY <1>4, <1>6, FoldSteps, n \in Nat, pending \in S
<1>8. \A k \in 1..n : f[k - 1] \in S  BY <1>7
<1>9. \A k \in 1..n : f[k] = AssignAll(f[k - 1], assignments[k])  BY <1>6, <1>7, <1>8
<1>. QED  BY <1>5, <1>7, <1>9

\* SET writes the pending records one after the other.
WriteSteps(f, n, ids, pending, d) ==
  /\ f[0] = d
  /\ \A k \in 1..n : f[k] = Written(f[k - 1], ids[k], pending[ids[k]])
  /\ FoldLeft(LAMBDA c, i : Written(c, i, pending[i]), d, ids) = f[n]

\* Writing the pending maps of a SET is the last of the values its ids leave.
LEMMA WriteFold ==
  ASSUME NEW ids, NEW pending, NEW n \in Nat, DOMAIN ids = 1..n,
         NEW S, NEW d \in S, \A k \in 1..n : \A e \in S : Written(e, ids[k], pending[ids[k]]) \in S
  PROVE  \E f \in [0..n -> S] : WriteSteps(f, n, ids, pending, d)
<1>. USE DEF WriteSteps
<1>. DEFINE seq == ids
            Eq(h) == h = [s \in SUBSET DOMAIN seq |->
                            IF s = {} THEN d ELSE Written(h[s \ {Max(s)}], seq[Max(s)], pending[seq[Max(s)]])]
            q == [k \in 1..n |-> [e \in S |-> Written(e, ids[k], pending[ids[k]])]]
            H == CHOOSE h : Eq(h)
            g == [k \in 1..n |-> [e \in S \cup {H[s] : s \in SUBSET (1..n)} |-> Written(e, ids[k], pending[ids[k]])]]
<1>1. \A s \in SUBSET (1..n) : s # {} => Max(s) \in 1..n /\ s \ {Max(s)} \in SUBSET (1..n)
  BY MaxOfPositions
<1>2. \E h : Eq(h)
  <2>1. q \in [1..n -> [S -> S]]  OBVIOUS
  <2>2. PICK h \in [SUBSET (1..n) -> S] : IsFold(h, n, d, q)
    <3>. HIDE DEF q
    <3>. QED  BY ONLY <2>1, FoldExists, n \in Nat, d \in S
  <2>3. Eq(h)  BY <1>1, <2>2 DEF IsFold
  <2>. HIDE DEF Eq
  <2>. QED  BY <2>3
<1>3. Eq(H)
  <2>. HIDE DEF Eq
  <2>. QED  BY <1>2
<1>4. IsFold(H, n, d, g)
  <2>. HIDE DEF H
  <2>. QED  BY <1>1, <1>3 DEF IsFold
<1>5. FoldLeft(LAMBDA c, i : Written(c, i, pending[i]), d, ids) = H[1..n]
  <2>1. FoldLeft(LAMBDA c, i : Written(c, i, pending[i]), d, ids) = H[DOMAIN seq]  BY Zenon DEF FoldLeft, MapThenFoldSet
  <2>. QED  BY <2>1
<1>6. /\ \A k \in 1..n : \A e \in S : g[k][e] \in S
      /\ \A k \in 1..n : \A e \in S : g[k][e] = Written(e, ids[k], pending[ids[k]])
  OBVIOUS
<1>. HIDE DEF H, g
<1>7. PICK f \in [0..n -> S] :
        f[0] = d /\ (\A k \in 1..n : f[k] = g[k][f[k - 1]]) /\ H[1..n] = f[n]
  BY ONLY <1>4, <1>6, FoldSteps, n \in Nat, d \in S
<1>8. \A k \in 1..n : f[k - 1] \in S  BY <1>7
<1>9. \A k \in 1..n : f[k] = Written(f[k - 1], ids[k], pending[ids[k]])  BY <1>6, <1>7, <1>8
<1>. QED  BY <1>5, <1>7, <1>9

\* MATCH of a path goes through its hops.
MatchPathSteps(f, n, path, env) ==
  /\ f[0] = env
  /\ \A k \in 1..n : f[k] = Hop(f[k - 1], path, k)
  /\ FoldLeft(LAMBDA x, i : Hop(x, path, i), env, [i \in DOMAIN path.rels |-> i]) = f[n]

\* MatchPath is the last of the values its elements leave.
LEMMA MatchPathFold ==
  ASSUME NEW path, NEW n \in Nat, DOMAIN path.rels = 1..n,
         NEW S, NEW env \in S, \A k \in 1..n : \A e \in S : Hop(e, path, k) \in S
  PROVE  \E f \in [0..n -> S] : MatchPathSteps(f, n, path, env)
<1>. USE DEF MatchPathSteps
<1>. DEFINE seq == [i \in DOMAIN path.rels |-> i]
            Eq(h) == h = [s \in SUBSET DOMAIN seq |->
                            IF s = {} THEN env ELSE Hop(h[s \ {Max(s)}], path, seq[Max(s)])]
            q == [k \in 1..n |-> [e \in S |-> Hop(e, path, k)]]
            H == CHOOSE h : Eq(h)
            g == [k \in 1..n |-> [e \in S \cup {H[s] : s \in SUBSET (1..n)} |-> Hop(e, path, k)]]
<1>1. \A s \in SUBSET (1..n) : s # {} => Max(s) \in 1..n /\ s \ {Max(s)} \in SUBSET (1..n)
  BY MaxOfPositions
<1>2. \E h : Eq(h)
  <2>1. q \in [1..n -> [S -> S]]  OBVIOUS
  <2>2. PICK h \in [SUBSET (1..n) -> S] : IsFold(h, n, env, q)
    <3>. HIDE DEF q
    <3>. QED  BY ONLY <2>1, FoldExists, n \in Nat, env \in S
  <2>3. Eq(h)  BY <1>1, <2>2 DEF IsFold
  <2>. HIDE DEF Eq
  <2>. QED  BY <2>3
<1>3. Eq(H)
  <2>. HIDE DEF Eq
  <2>. QED  BY <1>2
<1>4. IsFold(H, n, env, g)
  <2>. HIDE DEF H
  <2>. QED  BY <1>1, <1>3 DEF IsFold
<1>5. FoldLeft(LAMBDA x, i : Hop(x, path, i), env, [i \in DOMAIN path.rels |-> i]) = H[1..n]
  <2>1. FoldLeft(LAMBDA x, i : Hop(x, path, i), env, [i \in DOMAIN path.rels |-> i]) = H[DOMAIN seq]  BY Zenon DEF FoldLeft, MapThenFoldSet
  <2>. QED  BY <2>1
<1>6. /\ \A k \in 1..n : \A e \in S : g[k][e] \in S
      /\ \A k \in 1..n : \A e \in S : g[k][e] = Hop(e, path, k)
  OBVIOUS
<1>. HIDE DEF H, g
<1>7. PICK f \in [0..n -> S] :
        f[0] = env /\ (\A k \in 1..n : f[k] = g[k][f[k - 1]]) /\ H[1..n] = f[n]
  BY ONLY <1>4, <1>6, FoldSteps, n \in Nat, env \in S
<1>8. \A k \in 1..n : f[k - 1] \in S  BY <1>7
<1>9. \A k \in 1..n : f[k] = Hop(f[k - 1], path, k)  BY <1>6, <1>7, <1>8
<1>. QED  BY <1>5, <1>7, <1>9

\* MATCH goes through its paths.
MatchPathsSteps(f, n, paths, env) ==
  /\ f[0] = env
  /\ \A k \in 1..n : f[k] = MatchPath(f[k - 1], paths[k])
  /\ FoldLeft(MatchPath, env, paths) = f[n]

\* MatchPaths is the last of the values its paths leave.
LEMMA MatchPathsFold ==
  ASSUME NEW paths, NEW n \in Nat, DOMAIN paths = 1..n,
         NEW S, NEW env \in S, \A k \in 1..n : \A e \in S : MatchPath(e, paths[k]) \in S
  PROVE  \E f \in [0..n -> S] : MatchPathsSteps(f, n, paths, env)
<1>. USE DEF MatchPathsSteps
<1>. DEFINE seq == paths
            Eq(h) == h = [s \in SUBSET DOMAIN seq |->
                            IF s = {} THEN env ELSE MatchPath(h[s \ {Max(s)}], seq[Max(s)])]
            q == [k \in 1..n |-> [e \in S |-> MatchPath(e, paths[k])]]
            H == CHOOSE h : Eq(h)
            g == [k \in 1..n |-> [e \in S \cup {H[s] : s \in SUBSET (1..n)} |-> MatchPath(e, paths[k])]]
<1>1. \A s \in SUBSET (1..n) : s # {} => Max(s) \in 1..n /\ s \ {Max(s)} \in SUBSET (1..n)
  BY MaxOfPositions
<1>2. \E h : Eq(h)
  <2>1. q \in [1..n -> [S -> S]]  OBVIOUS
  <2>2. PICK h \in [SUBSET (1..n) -> S] : IsFold(h, n, env, q)
    <3>. HIDE DEF q
    <3>. QED  BY ONLY <2>1, FoldExists, n \in Nat, env \in S
  <2>3. Eq(h)  BY <1>1, <2>2 DEF IsFold
  <2>. HIDE DEF Eq
  <2>. QED  BY <2>3
<1>3. Eq(H)
  <2>. HIDE DEF Eq
  <2>. QED  BY <1>2
<1>4. IsFold(H, n, env, g)
  <2>. HIDE DEF H
  <2>. QED  BY <1>1, <1>3 DEF IsFold
<1>5. FoldLeft(MatchPath, env, paths) = H[1..n]
  <2>1. FoldLeft(MatchPath, env, paths) = H[DOMAIN seq]  BY Zenon DEF FoldLeft, MapThenFoldSet
  <2>. QED  BY <2>1
<1>6. /\ \A k \in 1..n : \A e \in S : g[k][e] \in S
      /\ \A k \in 1..n : \A e \in S : g[k][e] = MatchPath(e, paths[k])
  OBVIOUS
<1>. HIDE DEF H, g
<1>7. PICK f \in [0..n -> S] :
        f[0] = env /\ (\A k \in 1..n : f[k] = g[k][f[k - 1]]) /\ H[1..n] = f[n]
  BY ONLY <1>4, <1>6, FoldSteps, n \in Nat, env \in S
<1>8. \A k \in 1..n : f[k - 1] \in S  BY <1>7
<1>9. \A k \in 1..n : f[k] = MatchPath(f[k - 1], paths[k])  BY <1>6, <1>7, <1>8
<1>. QED  BY <1>5, <1>7, <1>9

-----------------------------------------------------------------------------
(***************************************************************************)
(* Lists of ids.                                                           *)
(***************************************************************************)

\* FlattenSeq appends one sequence after the other.
Appended(f, n, seqs) ==
  /\ f[0] = <<>>
  /\ \A k \in 1..n : f[k] = f[k - 1] \o seqs[k]
  /\ FlattenSeq(seqs) = f[n]

\* FlattenSeq appends the lists one after the other.
LEMMA FlattenFold ==
  ASSUME NEW X, NEW n \in Nat, NEW seqs \in [1..n -> Seq(X)]
  PROVE  \E f \in [0..n -> Seq(X)] : Appended(f, n, seqs)
<1>. USE DEF Appended
<1>. DEFINE Lists == Seq(X)
            none == <<>>
            q == [k \in 1..n |-> [e \in Lists |-> e \o seqs[k]]]
            Eq(h) == h = [i \in 1..Len(seqs) |-> IF i = 1 THEN seqs[i] ELSE h[i - 1] \o seqs[i]]
            H == CHOOSE h : Eq(h)
<1>1. none \in Lists /\ seqs \in Seq(Lists) /\ Len(seqs) = n  OBVIOUS
<1>2. q \in [1..n -> [Lists -> Lists]]  OBVIOUS
<1>5. PICK f \in [0..n -> Lists] : f[0] = none /\ \A k \in 1..n : f[k] = q[k][f[k - 1]]
  <2>1. Stepping(n, Lists, none, q)  BY <1>1, <1>2 DEF Stepping
  <2>2. \E f \in [0..n -> Lists] : Stepped(f, n, none, q)
    <3>. HIDE DEF Lists, none, q
    <3>. QED  BY ONLY <2>1, Steps
  <2>. HIDE DEF Lists, none, q
  <2>. QED  BY <2>2 DEF Stepped
<1>6. \A k \in 1..n : f[k - 1] \in Lists  BY <1>5
<1>7. \A k \in 1..n : f[k] = f[k - 1] \o seqs[k]
  BY <1>5, <1>6
<1>8. CASE n = 0
  <2>1. FlattenSeq(seqs) = seqs /\ seqs = <<>>  BY <1>1, <1>8 DEF FlattenSeq
  <2>. QED  BY <1>5, <1>7, <1>8, <2>1
<1>9. CASE n # 0
  <2>0. f[1] = seqs[1]
    <3>1. 1 \in 1..n /\ seqs[1] \in Seq(X) /\ 1 - 1 = 0  BY <1>9
    <3>2. f[1] = f[1 - 1] \o seqs[1]  BY <1>7, <3>1
    <3>3. f[1] = <<>> \o seqs[1]  BY ONLY <1>5, <3>1, <3>2
    <3>. QED  BY <3>1, <3>3
  <2>1. \E x : Eq(x)
    <3>. DEFINE r == [i \in 1..n |-> f[i]]
    <3>1. r = [i \in 1..n |-> IF i = 1 THEN seqs[i] ELSE r[i - 1] \o seqs[i]]
      <4>1. ASSUME NEW i \in 1..n PROVE r[i] = IF i = 1 THEN seqs[i] ELSE r[i - 1] \o seqs[i]
        <5>1. CASE i = 1  BY <2>0, <5>1
        <5>2. CASE i # 1
          <6>1. i - 1 \in 1..n  BY <5>2
          <6>. QED  BY <1>7, <5>2, <6>1
        <5>. QED  BY <5>1, <5>2
      <4>. QED  BY <4>1
    <3>2. Eq(r)  BY <1>1, <3>1
    <3>. HIDE DEF Eq, r
    <3>. QED  BY <3>2
  <2>2. Eq(H)
    <3>. HIDE DEF Eq
    <3>. QED  BY <2>1
  <2>3. FlattenSeq(seqs) = H[n]
    <3>1. FlattenSeq(seqs) = H[Len(seqs)]  BY <1>1, <1>9, Zenon DEF FlattenSeq
    <3>. QED  BY <1>1, <3>1
  <2>. DEFINE T == {k \in 0..n : k = 0 \/ H[k] = f[k]}
  <2>. HIDE DEF H
  <2>4. ASSUME NEW k \in 1..n, k - 1 \in T PROVE k \in T
    <3>1. CASE k = 1
      <4>1. H[1] = seqs[1]  BY <1>1, <1>9, <2>2
      <4>2. H[k] = f[k]  BY <2>0, <3>1, <4>1
      <4>. QED  BY <4>2
    <3>2. CASE k # 1
      <4>1. H[k] = H[k - 1] \o seqs[k]  BY <1>1, <2>2, <3>2
      <4>2. H[k - 1] = f[k - 1]  BY <2>4, <3>2
      <4>3. H[k] = f[k]  BY <1>7, <4>1, <4>2
      <4>. QED  BY <4>3
    <3>3. k \in 0..n  OBVIOUS
    <3>. QED  BY <3>1, <3>2, <3>3
  <2>5. n \in T
    <3>1. T \in SUBSET (0..n)  OBVIOUS
    <3>2. 0 \in T  OBVIOUS
    <3>. HIDE DEF T
    <3>3. T = 0..n  BY ONLY <2>4, <3>1, <3>2, StepInduction, n \in Nat
    <3>. QED  BY <3>3
  <2>. QED  BY <1>5, <1>7, <1>9, <2>3, <2>5
<1>. QED  BY <1>8, <1>9

\* The elements of a concatenation.
LEMMA ConcatRange ==
  ASSUME NEW X, NEW s \in Seq(X), NEW t \in Seq(X)
  PROVE  ToSet(s) \subseteq ToSet(s \o t) /\ ToSet(t) \subseteq ToSet(s \o t)
<1>1. s \o t \in Seq(X) /\ Len(s \o t) = Len(s) + Len(t)  OBVIOUS
<1>2. ASSUME NEW k \in 1..Len(s) PROVE (s \o t)[k] = s[k] /\ k \in 1..Len(s \o t)
  BY <1>1
<1>3. ASSUME NEW k \in 1..Len(t) PROVE (s \o t)[Len(s) + k] = t[k] /\ Len(s) + k \in 1..Len(s \o t)
  BY <1>1
<1>4. DOMAIN s = 1..Len(s) /\ DOMAIN t = 1..Len(t) /\ DOMAIN (s \o t) = 1..Len(s \o t)
  BY <1>1
<1>5. ToSet(s) \subseteq ToSet(s \o t)
  BY <1>2, <1>4 DEF ToSet
<1>6. ToSet(t) \subseteq ToSet(s \o t)
  BY <1>3, <1>4 DEF ToSet
<1>. QED  BY <1>5, <1>6

\* The sequences of the parts are in the whole, and nothing else is.
LEMMA FlattenRange ==
  ASSUME NEW X, NEW n \in Nat, NEW seqs \in [1..n -> Seq(X)]
  PROVE  /\ FlattenSeq(seqs) \in Seq(X)
         /\ \A k \in 1..n : ToSet(seqs[k]) \subseteq ToSet(FlattenSeq(seqs))
<1>0. PICK f \in [0..n -> Seq(X)] : Appended(f, n, seqs)
  BY FlattenFold
<1>1. f[0] = <<>> /\ (\A k \in 1..n : f[k] = f[k - 1] \o seqs[k]) /\ FlattenSeq(seqs) = f[n]
  BY <1>0 DEF Appended
<1>2. f[n] \in Seq(X)  OBVIOUS
<1>3. ASSUME NEW k \in 1..n PROVE ToSet(seqs[k]) \subseteq ToSet(f[n])
  <2>. DEFINE T == {m \in 0..n : m >= k => ToSet(seqs[k]) \subseteq ToSet(f[m])}
  <2>1. ASSUME NEW m \in 1..n, m - 1 \in T PROVE m \in T
    <3>0. f[m] = f[m - 1] \o seqs[m]  BY <1>1
    <3>1. f[m - 1] \in Seq(X) /\ seqs[m] \in Seq(X)  OBVIOUS
    <3>2. ToSet(f[m - 1]) \subseteq ToSet(f[m]) /\ ToSet(seqs[m]) \subseteq ToSet(f[m])
      BY <3>0, <3>1, ConcatRange
    <3>3. m >= k => m = k \/ m - 1 >= k  OBVIOUS
    <3>. QED  BY <2>1, <3>2, <3>3
  <2>2. T \in SUBSET (0..n) /\ 0 \in T  OBVIOUS
  <2>3. n >= k /\ n \in 0..n  OBVIOUS
  <2>4. T = 0..n
    <3>. HIDE DEF T
    <3>. QED  BY ONLY <2>1, <2>2, StepInduction, n \in Nat
  <2>. QED  BY <2>3, <2>4
<1>. QED  BY <1>1, <1>2, <1>3

\* The ids of a multiset, in order, are those that are in it.
LEMMA SortedRange ==
  ASSUME NEW bag \in [Ids -> Nat]
  PROVE  /\ Sorted(bag) \in Seq({i \in Ids : bag[i] > 0})
         /\ ToSet(Sorted(bag)) = {i \in Ids : bag[i] > 0}
<1>. DEFINE X == {i \in Ids : bag[i] > 0}
            seqs == [i \in Ids |-> [k \in 1..bag[i] |-> i]]
<1>1. MaxId \in Nat /\ Ids = 1..MaxId  BY ConstantsAssumption DEF Ids
<1>2. ASSUME NEW i \in Ids PROVE [k \in 1..bag[i] |-> i] \in Seq(X)
  <2>1. bag[i] \in Nat /\ \A k \in 1..bag[i] : i \in X  OBVIOUS
  <2>. HIDE DEF X
  <2>. QED  BY <2>1
<1>3. seqs \in [1..MaxId -> Seq(X)]
  <2>. HIDE DEF X
  <2>. QED  BY <1>1, <1>2
<1>4. FlattenSeq(seqs) \in Seq(X) /\ \A i \in 1..MaxId : ToSet(seqs[i]) \subseteq ToSet(FlattenSeq(seqs))
  <2>. HIDE DEF X, seqs
  <2>. QED  BY <1>1, <1>3, FlattenRange
<1>5. Sorted(bag) = FlattenSeq(seqs)  BY DEF Sorted
<1>. HIDE DEF seqs
<1>6. ToSet(Sorted(bag)) \subseteq X
  <2>. HIDE DEF X
  <2>. QED  BY <1>4, <1>5 DEF ToSet
<1>7. ASSUME NEW i \in X PROVE i \in ToSet(Sorted(bag))
  <2>1. i \in Ids /\ bag[i] \in Nat /\ 1 \in 1..bag[i]  OBVIOUS
  <2>2. i \in ToSet(seqs[i])  BY <2>1 DEF ToSet, seqs
  <2>. QED  BY <1>1, <1>4, <1>5, <2>1, <2>2
<1>. QED  BY <1>4, <1>5, <1>6, <1>7

\* The ids of a set, in order.
LEMMA SequenceRange ==
  ASSUME NEW S \in SUBSET Ids
  PROVE  ToSequence(S) \in Seq(S) /\ ToSet(ToSequence(S)) = S
<1>. DEFINE bag == [i \in Ids |-> IF i \in S THEN 1 ELSE 0]
<1>1. bag \in [Ids -> Nat]  OBVIOUS
<1>2. {i \in Ids : bag[i] > 0} = S  OBVIOUS
<1>. QED  BY <1>1, <1>2, SortedRange DEF ToSequence

\* What the order of a list may be has no influence on what is in it.
LEMMA OrdersRange ==
  ASSUME NEW bag \in [Ids -> Nat], NEW ids \in Orders(bag)
  PROVE  /\ ids \in Seq({i \in Ids : bag[i] > 0})
         /\ ToSet(ids) = {i \in Ids : bag[i] > 0}
<1>. DEFINE X == {i \in Ids : bag[i] > 0}
<1>1. CASE \A i \in Ids : bag[i] = 0
  <2>1. ids = <<>> /\ X = {}  BY <1>1 DEF Orders
  <2>. QED  BY <2>1 DEF ToSet
<1>2. CASE ~ \A i \in Ids : bag[i] = 0
  <2>1. PICK i \in X : ids = <<i>> \o Sorted([bag EXCEPT ![i] = @ - 1])  BY <1>2 DEF Orders
  <2>. DEFINE less == [bag EXCEPT ![i] = @ - 1]
              Y == {j \in Ids : less[j] > 0}
  <2>2. less \in [Ids -> Nat]  OBVIOUS
  <2>3. Sorted(less) \in Seq(Y) /\ ToSet(Sorted(less)) = Y
    <3>. HIDE DEF less
    <3>. QED  BY <2>2, SortedRange
  <2>4. Y \subseteq X /\ X = Y \cup {i}  OBVIOUS
  <2>5. Sorted(less) \in Seq(X) /\ <<i>> \in Seq(X)
    <3>. HIDE DEF X, Y, less
    <3>. QED  BY <2>3, <2>4
  <2>6. ToSet(<<i>>) = {i}
    <3>1. DOMAIN <<i>> = {1}  OBVIOUS
    <3>. QED  BY <3>1 DEF ToSet
  <2>7. ids \in Seq(X)
    <3>1. ids = <<i>> \o Sorted(less)  BY <2>1
    <3>. HIDE DEF X, less
    <3>. QED  BY <2>5, <3>1
  <2>8. ToSet(ids) \subseteq X
    <3>. HIDE DEF X
    <3>. QED  BY <2>7 DEF ToSet
  <2>9. Y \cup {i} \subseteq ToSet(ids)
    <3>. HIDE DEF X, Y, less
    <3>1. ToSet(<<i>>) \subseteq ToSet(ids) /\ ToSet(Sorted(less)) \subseteq ToSet(ids)
      BY <2>1, <2>5, ConcatRange DEF less
    <3>. QED  BY <2>3, <2>6, <3>1
  <2>. QED  BY <2>4, <2>7, <2>8, <2>9
<1>. QED  BY <1>1, <1>2

\* Counting, and the intersection of two multisets.
LEMMA CountType ==
  ASSUME NEW X \in SUBSET Ids, NEW list \in Seq(X)
  PROVE  Count(list) \in [Ids -> Nat] /\ \A i \in Ids : Count(list)[i] > 0 => i \in X
<1>1. ASSUME NEW i \in Ids
      PROVE  /\ Cardinality({k \in DOMAIN list : list[k] = i}) \in Nat
             /\ i \notin X => Cardinality({k \in DOMAIN list : list[k] = i}) = 0
  <2>. DEFINE places == {k \in DOMAIN list : list[k] = i}
  <2>1. places \subseteq 1..Len(list)  OBVIOUS
  <2>2. IsFiniteSet(places)  BY <2>1, FS_Interval, FS_Subset
  <2>3. i \notin X => places = {}  OBVIOUS
  <2>4. Cardinality({}) = 0  BY FS_EmptySet
  <2>5. Cardinality(places) \in Nat
    <3>. HIDE DEF places
    <3>. QED  BY <2>2, FS_CardinalityType
  <2>. QED  BY <2>3, <2>4, <2>5
<1>. DEFINE card(i) == Cardinality({k \in DOMAIN list : list[k] = i})
<1>2. Count(list) = [i \in Ids |-> card(i)]  BY DEF Count
<1>3. \A i \in Ids : card(i) \in Nat /\ (i \notin X => card(i) = 0)  BY <1>1
<1>. HIDE DEF card
<1>. QED  BY <1>2, <1>3

\* What an equality look-up is asked to intersect is a list of ids.
LEMMA CommonType ==
  ASSUME NEW b1 \in [Ids -> Nat], NEW b2 \in [Ids -> Nat]
  PROVE  /\ Common(b1, b2) \in [Ids -> Nat]
         /\ \A i \in Ids : Common(b1, b2)[i] > 0 <=> b1[i] > 0 /\ b2[i] > 0
  BY DEF Common

-----------------------------------------------------------------------------
(***************************************************************************)
(* Multiplicities are numbers.                                             *)
(***************************************************************************)

\* A non-empty set of natural numbers has a least element.
LEMMA MinOfNumbers ==
  ASSUME NEW s \in SUBSET Nat, s # {}
  PROVE  Min(s) \in s /\ \A x \in s : Min(s) <= x
<1>. DEFINE R == OpToRel(<, Nat)
<1>1. \E x \in s : \A y \in s : ~(<<y, x>> \in R)
  <2>1. IsWellFoundedOn(R, Nat)  BY NatLessThanWellFounded
  <2>. HIDE DEF R
  <2>. QED  BY <2>1, WFMin, ZenonT(30)
<1>2. PICK x \in s : \A y \in s : ~(<<y, x>> \in R)
  BY <1>1
<1>3. ASSUME NEW y \in s PROVE x <= y
  <2>1. ~(y < x)
    <3>1. y < x => <<y, x>> \in R  BY DEF OpToRel
    <3>. HIDE DEF R
    <3>. QED  BY <1>2, <3>1
  <2>. HIDE DEF R
  <2>. QED  BY <2>1
<1>4. \E z \in s : \A y \in s : z <= y
  <2>. HIDE DEF R
  <2>. QED  BY <1>3
<1>. QED
  <2>. HIDE DEF R
  <2>. QED  BY <1>4 DEF Min

\* The look-ups by property and by range.
LEMMA LookupType ==
  ASSUME NEW d \in Tables, NEW l \in Labels, NEW k \in Keys, NEW v \in Values
  PROVE  FindNodesByProperty(d, l, k, v) \in [Ids -> Nat]
<1>1. d.property_index \in PropertyIndexes /\ Encode[v] \in Codes
  BY ConstantsAssumption DEF Tables
<1>. QED  BY <1>1, OccurrencesType DEF FindNodesByProperty

\* A range scan returns ids that the index has under the keys it takes, each as
\* often as a number says.
LEMMA RangeType ==
  ASSUME NEW d \in Tables, NEW l \in Labels, NEW k \in Keys, NEW op, NEW v
  PROVE  /\ FindNodesByPropertyRange(d, l, k, op, v) \in [Ids -> Nat]
         /\ \A i \in Ids :
              FindNodesByPropertyRange(d, l, k, op, v)[i] > 0 <=>
                \E code \in Codes : InScan(code, op, v) /\ Occurrences(d.property_index, l, k, code, i) > 0
<1>. DEFINE codes == {code \in Codes : InScan(code, op, v)}
            entries(i) == {{code} \X (1..Occurrences(d.property_index, l, k, code, i)) : code \in codes}
            taken(i) == \E code \in Codes : InScan(code, op, v) /\ Occurrences(d.property_index, l, k, code, i) > 0
<1>1. d.property_index \in PropertyIndexes  BY DEF Tables
<1>2. IsFiniteSet(codes)
  <2>1. IsFiniteSet(Codes) /\ codes \subseteq Codes  BY RangeAssumption
  <2>. HIDE DEF codes
  <2>. QED  BY <2>1, FS_Subset
<1>3. ASSUME NEW i \in Ids
      PROVE  Cardinality(UNION entries(i)) \in Nat /\ (Cardinality(UNION entries(i)) > 0 <=> taken(i))
  <2>1. ASSUME NEW code \in codes
        PROVE  IsFiniteSet({code} \X (1..Occurrences(d.property_index, l, k, code, i)))
    <3>1. Occurrences(d.property_index, l, k, code, i) \in Nat  BY <1>1, OccurrencesType
    <3>2. IsFiniteSet(1..Occurrences(d.property_index, l, k, code, i))  BY <3>1, FS_Interval
    <3>3. IsFiniteSet({code})  BY FS_Singleton
    <3>. QED  BY <3>2, <3>3, FS_Product
  <2>2. IsFiniteSet(entries(i))
    <3>. DEFINE entry(code) == {code} \X (1..Occurrences(d.property_index, l, k, code, i))
                e == [code \in codes |-> entry(code)]
    <3>1. e \in Surjection(codes, entries(i))  BY DEF Surjection
    <3>. HIDE DEF e, entries, codes
    <3>. QED  BY <1>2, <3>1, FS_Surjection
  <2>3. \A x \in entries(i) : IsFiniteSet(x)  BY <2>1
  <2>4. IsFiniteSet(UNION entries(i))
    <3>. HIDE DEF entries
    <3>. QED  BY <2>2, <2>3, FS_UNION
  <2>5. UNION entries(i) # {} <=> taken(i)
    <3>1. ASSUME NEW x \in UNION entries(i) PROVE taken(i)
      <4>1. PICK code \in codes : x \in {code} \X (1..Occurrences(d.property_index, l, k, code, i))  OBVIOUS
      <4>2. Occurrences(d.property_index, l, k, code, i) > 0  BY <1>1, <4>1, OccurrencesType
      <4>. QED  BY <4>2
    <3>2. ASSUME taken(i) PROVE UNION entries(i) # {}
      <4>1. PICK code \in codes : Occurrences(d.property_index, l, k, code, i) > 0  BY <3>2
      <4>2. 1 \in 1..Occurrences(d.property_index, l, k, code, i)  BY <1>1, <4>1, OccurrencesType
      <4>3. <<code, 1>> \in {code} \X (1..Occurrences(d.property_index, l, k, code, i))  BY <4>2
      <4>. QED  BY <4>3
    <3>. HIDE DEF entries, taken
    <3>. QED  BY <3>1, <3>2
  <2>. HIDE DEF entries, taken
  <2>6. Cardinality(UNION entries(i)) \in Nat  BY <2>4, FS_CardinalityType
  <2>7. Cardinality(UNION entries(i)) = 0 <=> UNION entries(i) = {}  BY <2>4, FS_EmptySet
  <2>. QED  BY <2>5, <2>6, <2>7
<1>4. FindNodesByPropertyRange(d, l, k, op, v) = [i \in Ids |-> Cardinality(UNION entries(i))]
  BY DEF FindNodesByPropertyRange
<1>. HIDE DEF entries
<1>. QED  BY <1>3, <1>4

-----------------------------------------------------------------------------
(***************************************************************************)
(* What holds of the tables when n is the next id.                         *)
(***************************************************************************)

\* The end points of a live edge are ids that were handed out.
EndsBelow(d, n) ==
  \A e \in Ids : LiveEdge(d, e) => d.edges[e].from < n /\ d.edges[e].to < n

\* No index has a node without a row.
Listed(d) ==
  \A i \in Ids, l \in Labels : d.nodes[i] = Absent =>
    /\ i \notin d.label_index[l]
    /\ \A k \in Keys, c \in Codes : Occurrences(d.property_index, l, k, c, i) = 0

\* Rows below the next id, adjacency lists of those edges, end points that
\* existed, indexes that list existing nodes.
Sound(d, n) == d \in Tables /\ Rows(d, n) /\ Adjacent(d) /\ EndsBelow(d, n) /\ Listed(d)

\* Nothing holds of the empty tables that would not be so.
LEMMA EmptySound == Sound(EmptyTables, 1)
<1>1. Rows(EmptyTables, 1)
  BY ConstantsAssumption DEF Rows, Disjoint, LiveNode, EmptyTables
<1>2. Adjacent(EmptyTables) /\ EndsBelow(EmptyTables, 1)
  BY ConstantsAssumption
  DEF Adjacent, EndsBelow, LiveEdge, GetOutgoingEdges, GetIncomingEdges, EmptyTables
<1>3. Listed(EmptyTables)
  BY DEF Listed, Occurrences, EmptyTables
<1>. QED  BY <1>1, <1>2, <1>3, EmptyTablesType DEF Sound

\* More ids handed out.
LEMMA SoundMonotone ==
  ASSUME NEW d, NEW n \in Nat, NEW m \in Nat, Sound(d, n), n <= m
  PROVE  Sound(d, m)
<1>1. \A i \in Ids : i \in Nat /\ (i >= m => i >= n)  BY ConstantsAssumption DEF Ids
<1>2. Rows(d, m)  BY <1>1 DEF Sound, Rows
<1>3. ASSUME NEW e \in Ids, LiveEdge(d, e) PROVE d.edges[e].from < m /\ d.edges[e].to < m
  <2>1. d.edges[e].from \in Nat /\ d.edges[e].to \in Nat
    BY <1>1, <1>3 DEF LiveEdge, EdgeRecs
  <2>2. d.edges[e].from < n /\ d.edges[e].to < n  BY <1>3 DEF Sound, EndsBelow
  <2>. QED  BY <2>1, <2>2
<1>4. EndsBelow(d, m)  BY <1>3 DEF EndsBelow
<1>. QED  BY <1>2, <1>4 DEF Sound

\* The end points are still below a bound when no edge was added.
LEMMA EndsFrame ==
  ASSUME NEW c, NEW d, NEW n, EndsBelow(d, n),
         \A e \in Ids : LiveEdge(c, e) => c.edges[e] = d.edges[e]
  PROVE  EndsBelow(c, n)
  BY DEF EndsBelow, LiveEdge

\* create_node with the id that was handed out.
LEMMA CreateNodeSound ==
  ASSUME NEW d, NEW n \in Ids, Sound(d, n), NEW l \in Labels \cup {NoLabel}, NEW p \in PropMaps
  PROVE  Sound(CreateNodeRow(d, n, l, p), n + 1)
<1>. DEFINE c == CreateNodeRow(d, n, l, p)
<1>0. /\ d \in Tables /\ Rows(d, n) /\ Adjacent(d) /\ EndsBelow(d, n) /\ Listed(d)
      /\ n \in Nat /\ NoLabel \notin Labels
  BY ConstantsAssumption DEF Sound, Ids
<1>1. c \in Tables  BY <1>0, CreateNodeType
<1>2. c.nodes = [d.nodes EXCEPT ![n] = p] /\ c.edges = d.edges
  BY <1>0 DEF CreateNodeRow, Tables
<1>3. Rows(c, n + 1)
  <2>. HIDE DEF c
  <2>. QED  BY <1>0, <1>2, CreateRows
<1>4. Adjacent(c)  BY <1>0, NodeOperationsAdjacent
<1>5. EndsBelow(c, n + 1)
  <2>1. Sound(d, n + 1)  BY <1>0, SoundMonotone
  <2>. HIDE DEF c
  <2>. QED  BY <1>2, <2>1, EndsFrame DEF Sound
<1>6. Listed(c)
  <2>0. d.nodes \in [Ids -> PropMaps \cup {Absent, Tombstone}] /\ d.property_index \in PropertyIndexes
        /\ d.label_index \in [Labels -> SUBSET Ids] /\ p # Absent
    BY <1>0, ConstantsAssumption DEF Tables
  <2>1. ASSUME NEW i \in Ids, c.nodes[i] = Absent PROVE i # n /\ d.nodes[i] = Absent
    <3>. HIDE DEF c
    <3>. QED  BY <1>2, <2>0, <2>1
  <2>2. \A i \in Ids, m \in Labels : i # n => (i \in c.label_index[m] <=> i \in d.label_index[m])
    BY <1>0, <2>0 DEF CreateNodeRow, Tables
  <2>3. ASSUME NEW i \in Ids, i # n, NEW m \in Labels, NEW k \in Keys, NEW e \in Codes
        PROVE  Occurrences(c.property_index, m, k, e, i) = Occurrences(d.property_index, m, k, e, i)
    <3>1. CASE l = NoLabel
      <4>1. c.property_index = d.property_index  BY <3>1 DEF CreateNodeRow, Tables
      <4>. QED  BY <4>1
    <3>2. CASE l # NoLabel
      <4>1. c.property_index = IndexNodeProperties(d.property_index, n, l, p)
        BY <3>2 DEF CreateNodeRow, Tables
      <4>2. l \in Labels  BY <3>2
      <4>. HIDE DEF c
      <4>. QED  BY <2>0, <2>3, <4>1, <4>2, IndexOccurrences
    <3>. QED  BY <3>1, <3>2
  <2>. HIDE DEF c
  <2>. QED  BY <1>0, <2>1, <2>2, <2>3 DEF Listed
<1>. HIDE DEF c
<1>7. Sound(c, n + 1)  BY <1>1, <1>3, <1>4, <1>5, <1>6 DEF Sound
<1>. QED  BY <1>7 DEF c

\* create_edge with the id that was handed out, between ids handed out earlier.
LEMMA CreateEdgeSound ==
  ASSUME NEW d, NEW n \in Ids, Sound(d, n), NEW f \in 1..(n - 1), NEW t \in 1..(n - 1), NEW y \in Types
  PROVE  Sound(CreateEdgeRow(d, n, f, t, y), n + 1)
<1>. DEFINE c == CreateEdgeRow(d, n, f, t, y)
            r == [from |-> f, to |-> t, type |-> y]
<1>0. /\ d \in Tables /\ Rows(d, n) /\ Adjacent(d) /\ EndsBelow(d, n) /\ Listed(d)
      /\ n \in Nat /\ f \in Ids /\ t \in Ids /\ d.edges[n] = Absent
  <2>1. f \in Ids /\ t \in Ids /\ n \in Nat /\ n >= n  BY ConstantsAssumption DEF Ids
  <2>. QED  BY <2>1 DEF Sound, Rows
<1>1. c \in Tables  BY <1>0, CreateEdgeType
<1>2. /\ c.edges = [d.edges EXCEPT ![n] = r]
      /\ c.nodes = d.nodes /\ c.label_index = d.label_index /\ c.property_index = d.property_index
  BY <1>0 DEF CreateEdgeRow, Tables
<1>3. Rows(c, n + 1)
  <2>. HIDE DEF c, r
  <2>. QED  BY <1>0, <1>2, CreateRows
<1>4. Adjacent(c)  BY <1>0, CreateEdgeAdjacent
<1>5. EndsBelow(c, n + 1)
  <2>1. Sound(d, n + 1)  BY <1>0, SoundMonotone
  <2>2. r.from < n + 1 /\ r.to < n + 1  BY <1>0
  <2>3. d.edges \in [Ids -> EdgeRecs \cup {Absent, Tombstone}]  BY <1>0 DEF Tables
  <2>. HIDE DEF c, r
  <2>4. ASSUME NEW e \in Ids, LiveEdge(c, e) PROVE c.edges[e].from < n + 1 /\ c.edges[e].to < n + 1
    <3>1. CASE e = n  BY <1>2, <2>2, <2>3, <3>1
    <3>2. CASE e # n
      <4>1. c.edges[e] = d.edges[e]  BY <1>2, <2>3, <3>2
      <4>. QED  BY <2>1, <2>4, <4>1 DEF Sound, EndsBelow, LiveEdge
    <3>. QED  BY <3>1, <3>2
  <2>. QED  BY <2>4 DEF EndsBelow
<1>6. Listed(c)
  <2>. HIDE DEF c, r
  <2>. QED  BY <1>0, <1>2 DEF Listed
<1>. HIDE DEF c
<1>7. Sound(c, n + 1)  BY <1>1, <1>3, <1>4, <1>5, <1>6 DEF Sound
<1>. QED  BY <1>7 DEF c

\* What execute_delete writes for one id: an existing row becomes empty, the
\* label and the property index stay, and nothing else changes.
LEMMA DeleteTargetWrites ==
  ASSUME NEW d \in Tables, NEW i \in Ids, NEW detach \in BOOLEAN, NEW c, c = DeleteTarget(d, i, detach)
  PROVE  /\ c.label_index = d.label_index /\ c.property_index = d.property_index
         /\ \A j \in Ids : c.nodes[j] = d.nodes[j] \/ (LiveNode(d, j) /\ c.nodes[j] = Tombstone)
         /\ \A j \in Ids : c.edges[j] = d.edges[j] \/ (LiveEdge(d, j) /\ c.edges[j] = Tombstone)
<1>1. GetOutgoingEdges(d, i) \cup GetIncomingEdges(d, i) \in SUBSET Ids
  BY DEF GetOutgoingEdges, GetIncomingEdges, Tables
<1>2. ASSUME NEW S \in SUBSET Ids, NEW b, b = DeleteEdgeRows(d, S)
      PROVE  /\ b \in Tables
             /\ b.nodes = d.nodes /\ b.label_index = d.label_index /\ b.property_index = d.property_index
             /\ \A j \in Ids : b.edges[j] = d.edges[j] \/ (LiveEdge(d, j) /\ b.edges[j] = Tombstone)
  <2>1. b \in Tables  BY <1>2, DeleteEdgesType
  <2>2. /\ b.nodes = d.nodes /\ b.label_index = d.label_index /\ b.property_index = d.property_index
        /\ b.edges = [e \in Ids |-> IF e \in S /\ LiveEdge(d, e) THEN Tombstone ELSE d.edges[e]]
    BY <1>2 DEF DeleteEdgeRows, Tables
  <2>. QED  BY <2>1, <2>2
<1>3. ASSUME NEW b \in Tables, NEW a, a = DeleteNodeRow(b, i, NoLabel)
      PROVE  /\ a.label_index = b.label_index /\ a.property_index = b.property_index /\ a.edges = b.edges
             /\ a.nodes = [b.nodes EXCEPT ![i] = Tombstone] /\ b.nodes \in [Ids -> PropMaps \cup {Absent, Tombstone}]
  BY <1>3 DEF DeleteNodeRow, Tables
<1>4. CASE LiveNode(d, i) /\ detach
  <2>. DEFINE b == DeleteEdgeRows(d, GetOutgoingEdges(d, i) \cup GetIncomingEdges(d, i))
  <2>1. c = DeleteNodeRow(b, i, NoLabel)  BY <1>4 DEF DeleteTarget, DetachDeleteNode
  <2>2. /\ b \in Tables
        /\ b.nodes = d.nodes /\ b.label_index = d.label_index /\ b.property_index = d.property_index
        /\ \A j \in Ids : b.edges[j] = d.edges[j] \/ (LiveEdge(d, j) /\ b.edges[j] = Tombstone)
    BY <1>1, <1>2
  <2>. HIDE DEF b
  <2>3. /\ c.label_index = b.label_index /\ c.property_index = b.property_index /\ c.edges = b.edges
        /\ c.nodes = [b.nodes EXCEPT ![i] = Tombstone] /\ b.nodes \in [Ids -> PropMaps \cup {Absent, Tombstone}]
    BY <1>3, <2>1, <2>2
  <2>. QED  BY <1>4, <2>2, <2>3
<1>5. CASE LiveNode(d, i) /\ ~detach
  <2>1. c = DeleteNodeRow(d, i, NoLabel)  BY <1>5 DEF DeleteTarget
  <2>2. /\ c.label_index = d.label_index /\ c.property_index = d.property_index /\ c.edges = d.edges
        /\ c.nodes = [d.nodes EXCEPT ![i] = Tombstone] /\ d.nodes \in [Ids -> PropMaps \cup {Absent, Tombstone}]
    BY <1>3, <2>1
  <2>. QED  BY <1>5, <2>2
<1>6. CASE ~LiveNode(d, i)
  <2>1. c = DeleteEdgeRows(d, {i}) /\ {i} \in SUBSET Ids  BY <1>6 DEF DeleteTarget
  <2>2. /\ c.nodes = d.nodes /\ c.label_index = d.label_index /\ c.property_index = d.property_index
        /\ \A j \in Ids : c.edges[j] = d.edges[j] \/ (LiveEdge(d, j) /\ c.edges[j] = Tombstone)
    BY <1>2, <2>1
  <2>. QED  BY <2>2
<1>. QED  BY <1>4, <1>5, <1>6

\* Deleting keeps the tables sound.
LEMMA DeleteTargetSound ==
  ASSUME NEW d, NEW n \in Nat, Sound(d, n), NEW i \in Ids, NEW detach \in BOOLEAN
  PROVE  Sound(DeleteTarget(d, i, detach), n)
<1>. DEFINE c == DeleteTarget(d, i, detach)
<1>0. d \in Tables /\ Rows(d, n) /\ Adjacent(d) /\ EndsBelow(d, n) /\ Listed(d)
  BY DEF Sound
<1>1. c \in Tables /\ Rows(c, n) /\ Adjacent(c)
  BY <1>0, DeleteTargetType, DeleteTargetRows, DeleteTargetAdjacent
<1>2. /\ c.label_index = d.label_index /\ c.property_index = d.property_index
      /\ \A j \in Ids : c.nodes[j] = d.nodes[j] \/ (LiveNode(d, j) /\ c.nodes[j] = Tombstone)
      /\ \A j \in Ids : c.edges[j] = d.edges[j] \/ (LiveEdge(d, j) /\ c.edges[j] = Tombstone)
  BY <1>0, DeleteTargetWrites
<1>. HIDE DEF c
<1>3. EndsBelow(c, n)  BY <1>0, <1>2, EndsFrame, ConstantsAssumption DEF LiveEdge
<1>4. Listed(c)  BY <1>0, <1>2, ConstantsAssumption DEF Listed
<1>5. Sound(c, n)  BY <1>1, <1>3, <1>4 DEF Sound
<1>. QED  BY <1>5 DEF c

\* A record as execute_set has it in its pending map.
Pendings == [label : Labels \cup {NoLabel}, value : PropMaps \cup {Tombstone}]

\* What SET writes for one id: its row, and entries of the property index for it.
LEMMA WrittenWrites ==
  ASSUME NEW d \in Tables, NEW i \in Ids, NEW p \in Pendings, NEW c, c = Written(d, i, p)
  PROVE  /\ c \in Tables
         /\ c.nodes = [d.nodes EXCEPT ![i] = p.value]
         /\ c.edges = d.edges /\ c.out_index = d.out_index /\ c.in_index = d.in_index
         /\ c.label_index = d.label_index
         /\ \A j \in Ids, l \in Labels, k \in Keys, e \in Codes : j # i =>
              Occurrences(c.property_index, l, k, e, j) = Occurrences(d.property_index, l, k, e, j)
<1>0. p.value \in PropMaps \cup {Tombstone} /\ p.label \in Labels \cup {NoLabel}  BY DEF Pendings
<1>1. CASE p.label = NoLabel
  <2>1. c = UpdateNodeRow(d, i, p.value)  BY <1>1 DEF Written
  <2>2. c \in Tables  BY <1>0, <2>1, UpdateNodeType
  <2>3. /\ c.nodes = [d.nodes EXCEPT ![i] = p.value]
        /\ c.edges = d.edges /\ c.out_index = d.out_index /\ c.in_index = d.in_index
        /\ c.label_index = d.label_index /\ c.property_index = d.property_index
    BY <2>1 DEF UpdateNodeRow, Tables
  <2>. QED  BY <2>2, <2>3
<1>2. CASE p.label # NoLabel
  <2>0. p.label \in Labels  BY <1>0, <1>2
  <2>1. c = UpdateNodeWithLabelRow(d, i, p.label, p.value)  BY <1>2 DEF Written
  <2>2. c \in Tables  BY <1>0, <2>0, <2>1, UpdateNodeWithLabelType
  <2>. DEFINE old == ParsedProps(d.nodes[i])
              new == ParsedProps(p.value)
  <2>3. /\ c.nodes = [d.nodes EXCEPT ![i] = p.value]
        /\ c.edges = d.edges /\ c.out_index = d.out_index /\ c.in_index = d.in_index
        /\ c.label_index = d.label_index
        /\ c.property_index = DeltaIndex(d.property_index, i, p.label, old, new)
    BY <2>1 DEF UpdateNodeWithLabelRow, Tables
  <2>4. d.property_index \in PropertyIndexes  BY DEF Tables
  <2>5. old \in PropMaps /\ new \in PropMaps  BY PropsType
  <2>. HIDE DEF old, new
  <2>6. ASSUME NEW j \in Ids, NEW l \in Labels, NEW k \in Keys, NEW e \in Codes, j # i
        PROVE  Occurrences(c.property_index, l, k, e, j) = Occurrences(d.property_index, l, k, e, j)
    <3>1. Occurrences(DeltaIndex(d.property_index, i, p.label, old, new), l, k, e, j)
            = Occurrences(d.property_index, l, k, e, j)
      BY <2>0, <2>4, <2>5, <2>6, DeltaOccurrences
    <3>. QED  BY <2>3, <3>1
  <2>. QED  BY <2>2, <2>3, <2>6
<1>. QED  BY <1>1, <1>2

\* Writing the map a SET computed keeps the tables sound.
LEMMA WrittenSound ==
  ASSUME NEW d, NEW n \in Nat, Sound(d, n), NEW i \in Ids, ~(i >= n), NEW p \in Pendings,
         p.value \in PropMaps => LiveNode(d, i)
  PROVE  Sound(Written(d, i, p), n)
<1>. DEFINE c == Written(d, i, p)
<1>0. /\ d \in Tables /\ Rows(d, n) /\ Adjacent(d) /\ EndsBelow(d, n) /\ Listed(d)
      /\ d.nodes \in [Ids -> PropMaps \cup {Absent, Tombstone}]
      /\ p.value \in PropMaps \cup {Tombstone}
      /\ p.value # Absent
  BY ConstantsAssumption DEF Sound, Tables, Pendings
<1>1. /\ c \in Tables
      /\ c.nodes = [d.nodes EXCEPT ![i] = p.value]
      /\ c.edges = d.edges /\ c.out_index = d.out_index /\ c.in_index = d.in_index
      /\ c.label_index = d.label_index
      /\ \A j \in Ids, l \in Labels, k \in Keys, e \in Codes : j # i =>
           Occurrences(c.property_index, l, k, e, j) = Occurrences(d.property_index, l, k, e, j)
  BY <1>0, WrittenWrites
<1>. HIDE DEF c
<1>2. Rows(c, n)  BY <1>0, <1>1, NodeRowRows
<1>3. Adjacent(c)  BY <1>0, <1>1, AdjacentFrame
<1>4. EndsBelow(c, n)  BY <1>0, <1>1, EndsFrame
<1>5. Listed(c)
  <2>1. ASSUME NEW j \in Ids, NEW l \in Labels, c.nodes[j] = Absent
        PROVE  /\ j \notin c.label_index[l]
               /\ \A k \in Keys, e \in Codes : Occurrences(c.property_index, l, k, e, j) = 0
    <3>1. j # i /\ d.nodes[j] = Absent  BY <1>0, <1>1, <2>1
    <3>. QED  BY <1>0, <1>1, <3>1 DEF Listed
  <2>. QED  BY <2>1 DEF Listed
<1>6. Sound(c, n)  BY <1>1, <1>2, <1>3, <1>4, <1>5 DEF Sound
<1>. QED  BY <1>6 DEF c

\* What the indexes list, a row has that was handed out below n.
LEMMA ListedBelow ==
  ASSUME NEW d, NEW n \in Nat, Sound(d, n), NEW i \in Ids
  PROVE  /\ d.nodes[i] # Absent => i \in 1..(n - 1)
         /\ \A l \in Labels : i \in FindNodesByLabel(d, l) => i \in 1..(n - 1)
         /\ \A l \in Labels, k \in Keys, v \in Values :
              FindNodesByProperty(d, l, k, v)[i] > 0 => i \in 1..(n - 1)
         /\ \A m \in Ids : i \in GetOutgoingEdges(d, m) \/ i \in GetIncomingEdges(d, m)
              => i \in 1..(n - 1)
<1>1. i \in Nat /\ i >= 1  BY ConstantsAssumption DEF Ids
<1>2. d.nodes[i] # Absent \/ d.edges[i] # Absent => i \in 1..(n - 1)
  BY <1>1 DEF Sound, Rows
<1>3. \A l \in Labels : i \in FindNodesByLabel(d, l) => d.nodes[i] # Absent
  BY DEF Sound, Listed, FindNodesByLabel
<1>4. ASSUME NEW l \in Labels, NEW k \in Keys, NEW v \in Values, FindNodesByProperty(d, l, k, v)[i] > 0
      PROVE  d.nodes[i] # Absent
  <2>1. Encode[v] \in Codes  BY ConstantsAssumption
  <2>2. Occurrences(d.property_index, l, k, Encode[v], i) # 0  BY <1>4 DEF FindNodesByProperty
  <2>. QED  BY <2>1, <2>2 DEF Sound, Listed
<1>5. ASSUME NEW m \in Ids, i \in GetOutgoingEdges(d, m) \/ i \in GetIncomingEdges(d, m)
      PROVE  d.edges[i] # Absent
  BY <1>5 DEF Sound, Adjacent
<1>. QED  BY <1>2, <1>3, <1>4, <1>5

-----------------------------------------------------------------------------
(***************************************************************************)
(* The context.                                                            *)
(***************************************************************************)

\* What context_ can be when n is the next id.
Contexts(n) == [Vars -> Seq(1..(n - 1)) \cup {Unbound}]

\* Lists of ids below n are lists of ids below a later next id.
LEMMA SeqMonotone ==
  ASSUME NEW A, NEW B, A \subseteq B, NEW s \in Seq(A)
  PROVE  s \in Seq(B)
  OBVIOUS

\* So are contexts.
LEMMA ContextMonotone ==
  ASSUME NEW n \in Nat, NEW m \in Nat, n <= m, NEW ctx \in Contexts(n)
  PROVE  ctx \in Contexts(m)
<1>1. 1..(n - 1) \subseteq 1..(m - 1)  OBVIOUS
<1>. DEFINE A == 1..(n - 1)
            B == 1..(m - 1)
<1>2. A \subseteq B  BY <1>1
<1>3. ctx \in [Vars -> Seq(A) \cup {Unbound}]  BY DEF Contexts
<1>. HIDE DEF A, B
<1>4. ASSUME NEW v \in Vars PROVE ctx[v] \in Seq(B) \cup {Unbound}
  <2>1. ctx[v] \in Seq(A) \cup {Unbound}  BY <1>3
  <2>. QED  BY <1>2, <2>1
<1>5. ctx \in [Vars -> Seq(B) \cup {Unbound}]  BY <1>3, <1>4
<1>. QED  BY <1>5 DEF Contexts, B

\* A variable gets ids.
LEMMA BindType ==
  ASSUME NEW n \in Nat, NEW ctx \in Contexts(n), NEW v \in Vars \cup {NoVar}, NEW ids \in Seq(1..(n - 1))
  PROVE  Bind(ctx, v, ids) \in Contexts(n)
<1>. DEFINE A == Seq(1..(n - 1))
<1>1. ids \in A /\ ctx \in [Vars -> A \cup {Unbound}]  BY DEF Contexts
<1>. HIDE DEF A
<1>2. CASE v = NoVar  BY <1>2 DEF Bind
<1>3. CASE v # NoVar
  <2>1. [ctx EXCEPT ![v] = ids] \in [Vars -> A \cup {Unbound}]  BY <1>1, <1>3
  <2>. QED  BY <1>3, <2>1 DEF Bind, Contexts, A
<1>. QED  BY <1>2, <1>3

\* An id that a variable holds was handed out.
LEMMA HeldBelow ==
  ASSUME NEW n \in Nat, NEW ctx \in Contexts(n), NEW v \in Vars \cup {NoVar}, Holds(ctx, v)
  PROVE  ctx[v][1] \in 1..(n - 1)
<1>. DEFINE A == 1..(n - 1)
<1>1. v \in Vars /\ ctx[v] \in Seq(A) /\ ctx[v] # <<>>  BY DEF Holds, Contexts
<1>. HIDE DEF A
<1>2. ctx[v][1] \in A  BY <1>1
<1>. QED  BY <1>2 DEF A

-----------------------------------------------------------------------------
(***************************************************************************)
(* CREATE.                                                                 *)
(***************************************************************************)

\* Two states of the tables with the same rows below n.
Same(c, d, n) ==
  \A i \in Ids : ~(i >= n) => c.nodes[i] = d.nodes[i] /\ c.edges[i] = d.edges[i]

\* What CREATE works on, from the tables d with next id n on.
Creating(d, n) ==
  {e \in [tables : Tables, id : Nat, context : [Vars -> Seq(Nat) \cup {Unbound}], node : Nat] :
     n <= e.id /\ Sound(e.tables, e.id) /\ e.context \in Contexts(e.id) /\ Same(e.tables, d, n)}

\* The property maps of a pattern that can be evaluated: in the body of UNWIND an
\* item is left.
Evaluable(props) ==
  /\ props \in [Keys -> Expressions]
  /\ loop.start # 0 => loop.items \in Seq(PropMaps) /\ loop.items # <<>>

\* Evaluating the properties of a pattern gives a property map.
LEMMA EvaluatedType ==
  ASSUME NEW props, Evaluable(props)
  PROVE  Evaluated(props) \in PropMaps
<1>1. ASSUME NEW e \in Expressions PROVE Evaluate(e) \in Values \cup {NoValue}
  <2>1. CASE e \in Values \cup {NoValue}  BY <2>1 DEF Evaluate
  <2>2. CASE e \in Accesses /\ loop.start # 0 /\ Head(loop.items)[e.alias] # NoValue
    <3>1. Head(loop.items) \in PropMaps /\ e.alias \in Keys  BY <2>2 DEF Evaluable, Accesses
    <3>2. Head(loop.items)[e.alias] \in Values \cup {NoValue}  BY <3>1 DEF PropMaps
    <3>. QED  BY <2>2, <3>2 DEF Evaluate
  <2>3. Blank \in Values  BY ExecutorAssumption
  <2>. QED  BY <2>1, <2>2, <2>3 DEF Evaluate
<1>2. \A k \in Keys : props[k] \in Expressions  BY DEF Evaluable
<1>. QED  BY <1>1, <1>2 DEF Evaluated, PropMaps

\* An environment from its parts.
LEMMA CreatingFrom ==
  ASSUME NEW d, NEW n \in Nat, NEW t, NEW i \in Nat, n <= i, Sound(t, i), Same(t, d, n),
         NEW ctx \in Contexts(i), NEW x \in Nat
  PROVE  [tables |-> t, id |-> i, context |-> ctx, node |-> x] \in Creating(d, n)
<1>1. ctx \in [Vars -> Seq(Nat) \cup {Unbound}]
  <2>. DEFINE A == 1..(i - 1)
  <2>1. A \subseteq Nat  OBVIOUS
  <2>2. ctx \in [Vars -> Seq(A) \cup {Unbound}]  BY DEF Contexts
  <2>. HIDE DEF A
  <2>3. ASSUME NEW v \in Vars PROVE ctx[v] \in Seq(Nat) \cup {Unbound}
    <3>1. ctx[v] \in Seq(A) \cup {Unbound}  BY <2>2
    <3>2. ctx[v] \in Seq(A) => ctx[v] \in Seq(Nat)  BY <2>1, SeqMonotone
    <3>. QED  BY <3>1, <3>2
  <2>. QED  BY <2>2, <2>3
<1>2. t \in Tables  BY DEF Sound
<1>. QED  BY <1>1, <1>2 DEF Creating

\* Rows written at or above n are not seen below n.
LEMMA SameFrame ==
  ASSUME NEW c, NEW b, NEW d, NEW n \in Nat, NEW i \in Ids, i >= n, Same(b, d, n), NEW x, b \in Tables,
         \/ c.nodes = [b.nodes EXCEPT ![i] = x] /\ c.edges = b.edges
         \/ c.nodes = b.nodes /\ c.edges = [b.edges EXCEPT ![i] = x]
  PROVE  Same(c, d, n)
<1>1. b.nodes \in [Ids -> PropMaps \cup {Absent, Tombstone}] /\ b.edges \in [Ids -> EdgeRecs \cup {Absent, Tombstone}]
  BY DEF Tables
<1>2. ASSUME NEW j \in Ids, ~(j >= n)
      PROVE  c.nodes[j] = b.nodes[j] /\ c.edges[j] = b.edges[j]
  <2>1. j # i  BY <1>2
  <2>. QED  BY <1>1, <2>1
<1>. QED  BY <1>2 DEF Same

\* A node pattern: the id of its node was handed out.
LEMMA NodeForType ==
  ASSUME NEW d, NEW n \in Nat, n >= 1, NEW env \in Creating(d, n), NEW p \in NodePatterns, Evaluable(p.props)
  PROVE  /\ NodeFor(env, p) \in Creating(d, n)
         /\ NodeFor(env, p).node \in 1..(NodeFor(env, p).id - 1)
         /\ env.id <= NodeFor(env, p).id
<1>0. /\ env.id \in Nat /\ n <= env.id /\ Sound(env.tables, env.id) /\ env.context \in Contexts(env.id)
      /\ Same(env.tables, d, n) /\ env.tables \in Tables
      /\ p.var \in Vars \cup {NoVar} /\ p.label \in Labels \cup {NoLabel}
      /\ env = [tables |-> env.tables, id |-> env.id, context |-> env.context, node |-> env.node]
  BY DEF Creating, NodePatterns
<1>1. CASE Holds(env.context, p.var)
  <2>. DEFINE x == env.context[p.var][1]
  <2>1. NodeFor(env, p) = [tables |-> env.tables, id |-> env.id, context |-> env.context, node |-> x]
    BY <1>0, <1>1 DEF NodeFor
  <2>2. x \in 1..(env.id - 1)  BY <1>0, <1>1, HeldBelow
  <2>. HIDE DEF x
  <2>3. x \in Nat  BY <2>2
  <2>4. NodeFor(env, p) \in Creating(d, n)  BY <1>0, <2>1, <2>3, CreatingFrom
  <2>. QED  BY <1>0, <2>1, <2>2, <2>4
<1>2. CASE ~Holds(env.context, p.var)
  <2>. DEFINE t == IF env.id \in Ids THEN CreateNodeRow(env.tables, env.id, p.label, Evaluated(p.props))
                   ELSE env.tables
              ctx == Bind(env.context, p.var, <<env.id>>)
  <2>1. NodeFor(env, p) = [tables |-> t, id |-> env.id + 1, context |-> ctx, node |-> env.id]
    BY <1>2 DEF NodeFor
  <2>2. Sound(t, env.id + 1) /\ Same(t, d, n)
    <3>1. CASE env.id \in Ids
      <4>1. Evaluated(p.props) \in PropMaps  BY EvaluatedType
      <4>2. t = CreateNodeRow(env.tables, env.id, p.label, Evaluated(p.props))  BY <3>1
      <4>. HIDE DEF t
      <4>3. t.nodes = [env.tables.nodes EXCEPT ![env.id] = Evaluated(p.props)] /\ t.edges = env.tables.edges
        BY <1>0, <4>2 DEF CreateNodeRow, Tables
      <4>4. Sound(t, env.id + 1)  BY <1>0, <3>1, <4>1, <4>2, CreateNodeSound
      <4>5. Same(t, d, n)  BY <1>0, <3>1, <4>3, SameFrame
      <4>. QED  BY <4>4, <4>5
    <3>2. CASE env.id \notin Ids
      <4>1. Sound(env.tables, env.id + 1)  BY <1>0, SoundMonotone
      <4>. QED  BY <1>0, <3>2, <4>1
    <3>. QED  BY <3>1, <3>2
  <2>3. ctx \in Contexts(env.id + 1)
    <3>0. PICK m \in Nat : m = env.id + 1  BY <1>0
    <3>1. env.context \in Contexts(m)  BY <1>0, <3>0, ContextMonotone
    <3>2. <<env.id>> \in Seq(1..(m - 1))
      <4>1. env.id \in 1..(m - 1)  BY <1>0, <3>0
      <4>. QED  BY <4>1
    <3>3. ctx \in Contexts(m)  BY <1>0, <3>1, <3>2, BindType
    <3>. QED  BY <3>0, <3>3
  <2>. HIDE DEF t, ctx
  <2>4. NodeFor(env, p) \in Creating(d, n)  BY <1>0, <2>1, <2>2, <2>3, CreatingFrom
  <2>5. NodeFor(env, p).node = env.id /\ NodeFor(env, p).id = env.id + 1  BY <2>1
  <2>. QED  BY <1>0, <2>4, <2>5
<1>. QED  BY <1>1, <1>2

\* A relationship pattern between two ids that were handed out.
LEMMA EdgeForType ==
  ASSUME NEW d, NEW n \in Nat, n >= 1, NEW env \in Creating(d, n), NEW r \in RelPatterns(Types),
         NEW a \in 1..(env.id - 1), NEW b \in 1..(env.id - 1)
  PROVE  EdgeFor(env, r, a, b) \in Creating(d, n) /\ EdgeFor(env, r, a, b).id = env.id + 1
<1>0. /\ env.id \in Nat /\ n <= env.id /\ Sound(env.tables, env.id) /\ env.context \in Contexts(env.id)
      /\ Same(env.tables, d, n) /\ env.tables \in Tables /\ env.node \in Nat
      /\ r.var \in Vars \cup {NoVar} /\ r.type \in Types
      /\ env = [tables |-> env.tables, id |-> env.id, context |-> env.context, node |-> env.node]
  BY DEF Creating, RelPatterns
<1>. DEFINE from == IF r.dir = "<-" THEN b ELSE a
            to == IF r.dir = "<-" THEN a ELSE b
            t == IF env.id \in Ids THEN CreateEdgeRow(env.tables, env.id, from, to, r.type) ELSE env.tables
            ctx == Bind(env.context, r.var, <<env.id>>)
<1>1. EdgeFor(env, r, a, b) = [tables |-> t, id |-> env.id + 1, context |-> ctx, node |-> env.node]
  <2>1. EdgeFor(env, r, a, b) = [env EXCEPT !.tables = t, !.id = env.id + 1, !.context = ctx]
    BY DEF EdgeFor
  <2>. HIDE DEF t, ctx
  <2>. QED  BY <1>0, <2>1
<1>2. from \in 1..(env.id - 1) /\ to \in 1..(env.id - 1)  OBVIOUS
<1>. HIDE DEF from, to
<1>3. Sound(t, env.id + 1) /\ Same(t, d, n)
  <2>1. CASE env.id \in Ids
    <3>1. t = CreateEdgeRow(env.tables, env.id, from, to, r.type)  BY <2>1
    <3>. HIDE DEF t
    <3>2. /\ t.nodes = env.tables.nodes
          /\ t.edges = [env.tables.edges EXCEPT ![env.id] = [from |-> from, to |-> to, type |-> r.type]]
      BY <1>0, <3>1 DEF CreateEdgeRow, Tables
    <3>3. Sound(t, env.id + 1)  BY <1>0, <1>2, <2>1, <3>1, CreateEdgeSound
    <3>4. Same(t, d, n)  BY <1>0, <2>1, <3>2, SameFrame
    <3>. QED  BY <3>3, <3>4
  <2>2. CASE env.id \notin Ids
    <3>1. Sound(env.tables, env.id + 1)  BY <1>0, SoundMonotone
    <3>. QED  BY <1>0, <2>2, <3>1
  <2>. QED  BY <2>1, <2>2
<1>4. ctx \in Contexts(env.id + 1)
  <2>0. PICK m \in Nat : m = env.id + 1  BY <1>0
  <2>1. env.context \in Contexts(m)  BY <1>0, <2>0, ContextMonotone
  <2>2. <<env.id>> \in Seq(1..(m - 1))
    <3>1. env.id \in 1..(m - 1)  BY <1>0, <2>0
    <3>. QED  BY <3>1
  <2>3. ctx \in Contexts(m)  BY <1>0, <2>1, <2>2, BindType
  <2>. QED  BY <2>0, <2>3
<1>. HIDE DEF t, ctx
<1>5. EdgeFor(env, r, a, b) \in Creating(d, n)  BY <1>0, <1>1, <1>3, <1>4, CreatingFrom
<1>. QED  BY <1>1, <1>5

\* A path whose property maps can be evaluated.
Creatable(path) == path \in Paths(Types) /\ \A i \in DOMAIN path.nodes : Evaluable(path.nodes[i].props)

\* A position of a path of CREATE keeps the types.
LEMMA CreateElementType ==
  ASSUME NEW d, NEW n \in Nat, n >= 1, NEW env \in Creating(d, n), NEW path, Creatable(path),
         NEW i \in 1..Len(path.nodes)
  PROVE  CreateElement(env, path, i) \in Creating(d, n) /\ env.id < CreateElement(env, path, i).id + 1
<1>. DEFINE a == NodeFor(env, path.nodes[i])
            b == NodeFor(a, path.nodes[i + 1])
<1>0. /\ path.nodes \in Seq(NodePatterns) /\ path.rels \in Seq(RelPatterns(Types))
      /\ Len(path.nodes) = Len(path.rels) + 1
      /\ Len(path.rels) \in Nat
      /\ \A x \in 1..Len(path.nodes) : path.nodes[x] \in NodePatterns /\ Evaluable(path.nodes[x].props)
      /\ env.id \in Nat
  BY DEF Creatable, Paths, Creating
<1>1. a \in Creating(d, n) /\ a.node \in 1..(a.id - 1) /\ env.id <= a.id
  BY <1>0, NodeForType
<1>2. CASE i > Len(path.rels)
  <2>1. CreateElement(env, path, i) = a  BY <1>2 DEF CreateElement
  <2>2. a.id \in Nat  BY <1>1 DEF Creating
  <2>. HIDE DEF a
  <2>. QED  BY <1>0, <1>1, <2>1, <2>2
<1>3. CASE ~(i > Len(path.rels))
  <2>0. i + 1 \in 1..Len(path.nodes) /\ i \in 1..Len(path.rels)  BY <1>0, <1>3
  <2>1. b \in Creating(d, n) /\ b.node \in 1..(b.id - 1) /\ a.id <= b.id
    <3>. HIDE DEF a
    <3>. QED  BY <1>0, <1>1, <2>0, NodeForType
  <2>2. CreateElement(env, path, i) = EdgeFor(b, path.rels[i], a.node, b.node)
    BY <1>3 DEF CreateElement
  <2>3. path.rels[i] \in RelPatterns(Types)  BY <1>0, <2>0
  <2>4. a.id \in Nat /\ b.id \in Nat  BY <1>1, <2>1 DEF Creating
  <2>. HIDE DEF a, b
  <2>5. a.node \in 1..(b.id - 1)  BY <1>1, <2>1, <2>4
  <2>6. EdgeFor(b, path.rels[i], a.node, b.node) \in Creating(d, n)
        /\ EdgeFor(b, path.rels[i], a.node, b.node).id = b.id + 1
    BY <2>1, <2>3, <2>5, EdgeForType
  <2>. QED  BY <1>0, <1>1, <2>1, <2>2, <2>4, <2>6
<1>. QED  BY <1>2, <1>3

\* CREATE of a path, and of all paths.
LEMMA CreatePathType ==
  ASSUME NEW d, NEW n \in Nat, n >= 1, NEW env \in Creating(d, n), NEW path, Creatable(path)
  PROVE  CreatePath(env, path) \in Creating(d, n)
<1>. DEFINE S == Creating(d, n)
            m == Len(path.nodes)
<1>1. m \in Nat /\ DOMAIN path.nodes = 1..m  BY DEF Creatable, Paths
<1>2. \A k \in 1..m : \A e \in S : CreateElement(e, path, k) \in S  BY CreateElementType
<1>3. env \in S  OBVIOUS
<1>. HIDE DEF S, m
<1>4. \E f \in [0..m -> S] : CreatePathSteps(f, m, path, env)
  BY ONLY <1>1, <1>2, <1>3, CreatePathFold
<1>. QED  BY <1>1, <1>4 DEF S, CreatePathSteps

\* So do the paths of a clause.
LEMMA CreatePathsType ==
  ASSUME NEW d, NEW n \in Nat, n >= 1, NEW env \in Creating(d, n),
         NEW paths \in Seq(Paths(Types)), \A k \in DOMAIN paths : Creatable(paths[k])
  PROVE  FoldLeft(CreatePath, env, paths) \in Creating(d, n)
<1>. DEFINE S == Creating(d, n)
            m == Len(paths)
<1>1. m \in Nat /\ DOMAIN paths = 1..m  OBVIOUS
<1>2. \A k \in 1..m : \A e \in S : CreatePath(e, paths[k]) \in S  BY CreatePathType
<1>3. env \in S  OBVIOUS
<1>. HIDE DEF S, m
<1>4. \E f \in [0..m -> S] : CreatePathsSteps(f, m, paths, env)
  BY ONLY <1>1, <1>2, <1>3, CreatePathsFold
<1>. QED  BY <1>1, <1>4 DEF S, CreatePathsSteps

-----------------------------------------------------------------------------
(***************************************************************************)
(* MATCH and WHERE.                                                        *)
(***************************************************************************)

\* The ids N are what the look-ups of the tables of the transaction find as nodes.
Finds(n, N) ==
  /\ N \subseteq 1..(n - 1)
  /\ \A l \in Labels : FindNodesByLabel(view, l) \subseteq N
  /\ \A l \in Labels, k \in Keys, v \in Values, i \in Ids : FindNodesByProperty(view, l, k, v)[i] > 0 => i \in N
  /\ \A e \in Ids : LiveEdge(view, e) => view.edges[e].from \in N /\ view.edges[e].to \in N

\* The contexts in which only the variables of R hold anything but nodes, and what
\* MATCH works on.
Held(n, N, R) == {ctx \in Contexts(n) : \A v \in Vars : v \in R \/ ctx[v] = Unbound \/ ctx[v] \in Seq(N)}
Matching(n, N, R) == [context : Held(n, N, R), labels : [Vars -> Labels \cup {NoLabel}]]

\* Everything that is found was handed out.
LEMMA AllFound ==
  ASSUME NEW n \in Nat, n <= MaxId + 1, Sound(view, n)
  PROVE  Finds(n, 1..(n - 1))
<1>1. \A l \in Labels : FindNodesByLabel(view, l) \subseteq Ids  BY DEF Sound, Tables, FindNodesByLabel
<1>2. ASSUME NEW e \in Ids, LiveEdge(view, e)
      PROVE  view.edges[e].from \in 1..(n - 1) /\ view.edges[e].to \in 1..(n - 1)
  <2>1. /\ view.edges[e].from < n /\ view.edges[e].to < n
        /\ view.edges[e].from \in Ids /\ view.edges[e].to \in Ids
    BY <1>2 DEF Sound, EndsBelow, LiveEdge, EdgeRecs
  <2>. QED  BY <2>1, ConstantsAssumption DEF Ids
<1>. DEFINE A == 1..(n - 1)
<1>3. /\ \A i \in Ids, l \in Labels : i \in FindNodesByLabel(view, l) => i \in A
      /\ \A i \in Ids, l \in Labels, k \in Keys, v \in Values : FindNodesByProperty(view, l, k, v)[i] > 0 => i \in A
  BY ListedBelow
<1>4. A \subseteq A /\ A = 1..(n - 1)  OBVIOUS
<1>5. \A e \in Ids : LiveEdge(view, e) => view.edges[e].from \in A /\ view.edges[e].to \in A  BY <1>2
<1>. HIDE DEF A
<1>6. \A l \in Labels : FindNodesByLabel(view, l) \subseteq A  BY <1>1, <1>3
<1>. QED  BY <1>3, <1>4, <1>5, <1>6 DEF Finds

\* The lists that the look-ups of a first node pattern return.
LEMMA FoundIn ==
  ASSUME NEW N, NEW bag \in [Ids -> Nat], \A i \in Ids : bag[i] > 0 => i \in N
  PROVE  /\ Sorted(bag) \in Seq(N)
         /\ \A ids \in Orders(bag) : ids \in Seq(N)
<1>. DEFINE X == {i \in Ids : bag[i] > 0}
<1>1. X \subseteq N  OBVIOUS
<1>2. Sorted(bag) \in Seq(X) /\ \A ids \in Orders(bag) : ids \in Seq(X)  BY SortedRange, OrdersRange
<1>. HIDE DEF X
<1>. QED  BY <1>1, <1>2, SeqMonotone

\* The look-ups of a MATCH with inline properties.
LEMMA IndexedIn ==
  ASSUME NEW n \in Nat, NEW N, Finds(n, N), view \in Tables, NEW p \in NodePatterns, p.label \in Labels,
         Given(p) # {}, \A k \in Given(p) : p.props[k] \in Values
  PROVE  Sorted(Indexed(p)) \in Seq(N)
<1>. DEFINE found(i) == {FindNodesByProperty(view, p.label, k, p.props[k])[i] : k \in Given(p)}
<1>1. \A k \in Given(p) : k \in Keys /\ p.props[k] \in Values
  BY DEF Given
<1>3. ASSUME NEW i \in Ids PROVE /\ Min(found(i)) \in Nat
                                 /\ Min(found(i)) > 0 => i \in N
  <2>1. \A k \in Given(p) : FindNodesByProperty(view, p.label, k, p.props[k])[i] \in Nat
    BY <1>1, LookupType
  <2>2. found(i) \in SUBSET Nat /\ found(i) # {}  BY <2>1
  <2>3. Min(found(i)) \in found(i)
    <3>. HIDE DEF found
    <3>. QED  BY <2>2, MinOfNumbers
  <2>4. PICK k \in Given(p) : Min(found(i)) = FindNodesByProperty(view, p.label, k, p.props[k])[i]
    BY <2>3
  <2>. HIDE DEF found
  <2>. QED  BY <1>1, <2>1, <2>4 DEF Finds
<1>4. Indexed(p) = [i \in Ids |-> Min(found(i))]  BY DEF Indexed
<1>. HIDE DEF found
<1>5. Indexed(p) \in [Ids -> Nat] /\ \A i \in Ids : Indexed(p)[i] > 0 => i \in N
  BY <1>3, <1>4
<1>. QED  BY <1>5, FoundIn

\* The label scan.
LEMMA ScannedIn ==
  ASSUME NEW n \in Nat, NEW N, Finds(n, N), view \in Tables, NEW p, p.label \in Labels
  PROVE  ToSequence(Scanned(p)) \in Seq(N)
<1>1. view.label_index[p.label] \in SUBSET Ids  BY DEF Tables
<1>2. Scanned(p) \in SUBSET Ids /\ Scanned(p) \subseteq FindNodesByLabel(view, p.label)
  BY <1>1 DEF Scanned, FindNodesByLabel
<1>3. Scanned(p) \subseteq N  BY <1>2 DEF Finds
<1>4. ToSequence(Scanned(p)) \in Seq(Scanned(p))  BY <1>2, SequenceRange
<1>. QED  BY <1>3, <1>4, SeqMonotone

\* A binding in the environment of MATCH: nodes, or ids of a variable of R.
LEMMA HeldBind ==
  ASSUME NEW n \in Nat, NEW N, N \subseteq 1..(n - 1), NEW R, NEW ctx \in Held(n, N, R), NEW v \in Vars,
         NEW ids, ids \in Seq(N) \/ (v \in R /\ ids \in Seq(1..(n - 1)))
  PROVE  [ctx EXCEPT ![v] = ids] \in Held(n, N, R)
<1>. DEFINE A == 1..(n - 1)
            S == Seq(A)
            T == Seq(N)
            c == [ctx EXCEPT ![v] = ids]
<1>1. ids \in S
  <2>1. N \subseteq A  OBVIOUS
  <2>2. ids \in Seq(N) \/ ids \in Seq(A)  OBVIOUS
  <2>. HIDE DEF A
  <2>. QED  BY <2>1, <2>2, SeqMonotone
<1>2. ctx \in [Vars -> S \cup {Unbound}] /\ \A x \in Vars : x \in R \/ ctx[x] = Unbound \/ ctx[x] \in T
  BY DEF Held, Contexts
<1>3. ids \in T \/ v \in R  OBVIOUS
<1>. HIDE DEF A, S, T
<1>4. c \in [Vars -> S \cup {Unbound}]  BY <1>1, <1>2
<1>5. \A x \in Vars : x \in R \/ c[x] = Unbound \/ c[x] \in T  BY <1>2, <1>3
<1>. QED  BY <1>4, <1>5 DEF Held, Contexts, A, S, T

\* The first node of a path binds its variable to ids of nodes.
LEMMA MatchFirstType ==
  ASSUME NEW n \in Nat, NEW N, Finds(n, N), view \in Tables, NEW R, NEW env \in Matching(n, N, R),
         NEW p \in NodePatterns
  PROVE  MatchFirst(env, p) \in Matching(n, N, R)
<1>. DEFINE literal == Given(p) # {} /\ \A k \in Given(p) : p.props[k] \in Values
            ids == IF literal THEN Sorted(Indexed(p)) ELSE ToSequence(Scanned(p))
<1>1. CASE p.label = NoLabel \/ p.var = NoVar \/ (~literal /\ ids = <<>>)
  <2>1. MatchFirst(env, p) = env  BY <1>1 DEF MatchFirst
  <2>. QED  BY <2>1
<1>2. CASE ~(p.label = NoLabel \/ p.var = NoVar \/ (~literal /\ ids = <<>>))
  <2>1. MatchFirst(env, p) = [context |-> [env.context EXCEPT ![p.var] = ids],
                              labels  |-> [env.labels EXCEPT ![p.var] = p.label]]
    BY <1>2 DEF MatchFirst
  <2>2. p.label \in Labels /\ p.var \in Vars  BY <1>2 DEF NodePatterns
  <2>3. ids \in Seq(N)
    <3>1. CASE literal  BY <2>2, <3>1, IndexedIn
    <3>2. CASE ~literal  BY <2>2, <3>2, ScannedIn
    <3>. QED  BY <3>1, <3>2
  <2>4. env.context \in Held(n, N, R) /\ env.labels \in [Vars -> Labels \cup {NoLabel}]
    BY DEF Matching
  <2>. HIDE DEF ids, literal
  <2>5. [env.context EXCEPT ![p.var] = ids] \in Held(n, N, R)  BY <2>2, <2>3, <2>4, HeldBind DEF Finds
  <2>6. [env.labels EXCEPT ![p.var] = p.label] \in [Vars -> Labels \cup {NoLabel}]  BY <2>2, <2>4
  <2>. QED  BY <2>1, <2>5, <2>6 DEF Matching
<1>. QED  BY <1>1, <1>2

\* The edges at an id, with their other ends.
Hits(n, N) == [edge : 1..(n - 1), node : N]

\* The edges at a node are below the next id.
LEMMA EdgesAtType ==
  ASSUME NEW n \in Nat, NEW N, Finds(n, N), Sound(view, n), NEW i \in Ids, NEW rel, NEW next
  PROVE  EdgesAt(i, rel, next) \in Seq(Hits(n, N))
<1>. DEFINE End(e) == IF rel.dir = "<-" THEN view.edges[e].from ELSE view.edges[e].to
            list == IF rel.dir = "<-" THEN GetIncomingEdges(view, i) ELSE GetOutgoingEdges(view, i)
            found == {e \in list :
                        /\ LiveEdge(view, e)
                        /\ rel.type = NoType \/ view.edges[e].type = rel.type
                        /\ next.label = NoLabel \/ End(e) \in FindNodesByLabel(view, next.label)}
            edges == ToSequence(found)
<1>1. list \in SUBSET Ids  BY DEF Sound, Tables, GetIncomingEdges, GetOutgoingEdges
<1>2. ASSUME NEW e \in found PROVE e \in 1..(n - 1) /\ End(e) \in N
  <2>1. e \in Ids /\ LiveEdge(view, e)  BY <1>1
  <2>2. e \in 1..(n - 1)  BY <2>1, ListedBelow
  <2>3. End(e) \in N  BY <2>1 DEF Finds
  <2>. HIDE DEF End, found
  <2>. QED  BY <2>2, <2>3
<1>3. edges \in Seq(found)
  <2>1. found \in SUBSET Ids  BY <1>1
  <2>. HIDE DEF found
  <2>. QED  BY <2>1, SequenceRange
<1>4. EdgesAt(i, rel, next) = [k \in DOMAIN edges |-> [edge |-> edges[k], node |-> End(edges[k])]]
  BY DEF EdgesAt
<1>. HIDE DEF edges, found, End
<1>5. DOMAIN edges = 1..Len(edges) /\ Len(edges) \in Nat /\ \A k \in DOMAIN edges : edges[k] \in found
  BY <1>3
<1>6. \A k \in 1..Len(edges) : [edge |-> edges[k], node |-> End(edges[k])] \in Hits(n, N)
  BY <1>2, <1>5 DEF Hits
<1>. HIDE DEF Hits
<1>. QED  BY <1>4, <1>5, <1>6

\* The components of what the edges are.
LEMMA ColumnType ==
  ASSUME NEW n \in Nat, NEW N, NEW hits \in Seq(Hits(n, N))
  PROVE  /\ [k \in DOMAIN hits |-> hits[k].edge] \in Seq(1..(n - 1))
         /\ [k \in DOMAIN hits |-> hits[k].node] \in Seq(N)
<1>. DEFINE A == 1..(n - 1)
            H == Hits(n, N)
<1>1. \A h \in H : h.edge \in A /\ h.node \in N  BY DEF Hits
<1>2. hits \in Seq(H)  OBVIOUS
<1>. HIDE DEF A, H
<1>3. DOMAIN hits = 1..Len(hits) /\ Len(hits) \in Nat /\ \A k \in 1..Len(hits) : hits[k] \in H
  BY <1>2
<1>4. \A k \in 1..Len(hits) : hits[k].edge \in A /\ hits[k].node \in N  BY <1>1, <1>3
<1>5. /\ [k \in DOMAIN hits |-> hits[k].edge] \in Seq(A)
      /\ [k \in DOMAIN hits |-> hits[k].node] \in Seq(N)
  BY <1>3, <1>4
<1>. QED  BY <1>5 DEF A

\* What a hop finds is a list of an edge and a node each.
LEMMA HitsType ==
  ASSUME NEW n \in Nat, n <= MaxId + 1, NEW N, Finds(n, N), Sound(view, n),
         NEW from \in Seq(1..(n - 1)), NEW rel, NEW next
  PROVE  FlattenSeq([k \in DOMAIN from |-> EdgesAt(from[k], rel, next)]) \in Seq(Hits(n, N))
<1>. DEFINE m == Len(from)
            seqs == [k \in DOMAIN from |-> EdgesAt(from[k], rel, next)]
<1>1. m \in Nat /\ DOMAIN from = 1..m /\ \A k \in 1..m : from[k] \in 1..(n - 1)  OBVIOUS
<1>2. 1..(n - 1) \subseteq Ids  BY ConstantsAssumption DEF Ids
<1>3. \A k \in 1..m : EdgesAt(from[k], rel, next) \in Seq(Hits(n, N))
  BY <1>1, <1>2, EdgesAtType
<1>4. seqs \in [1..m -> Seq(Hits(n, N))]
  <2>. HIDE DEF m
  <2>. QED  BY <1>1, <1>3
<1>. HIDE DEF m, seqs
<1>5. FlattenSeq(seqs) \in Seq(Hits(n, N))  BY <1>1, <1>4, FlattenRange
<1>. QED  BY <1>5 DEF seqs

\* A hop binds its node variable to ids of nodes and its relationship variable
\* to ids below the next one.
LEMMA HopType ==
  ASSUME NEW n \in Nat, n <= MaxId + 1, NEW N, Finds(n, N), Sound(view, n), NEW R,
         NEW env \in Matching(n, N, R),
         NEW path \in Paths(Types \cup {NoType}), NEW i \in 1..Len(path.rels),
         path.rels[i].var \in R \cup {NoVar}
  PROVE  Hop(env, path, i) \in Matching(n, N, R)
<1>. DEFINE prev == path.nodes[i].var
            rel == path.rels[i]
            next == path.nodes[i + 1]
            from == env.context[prev]
            hits == FlattenSeq([k \in DOMAIN from |-> EdgesAt(from[k], rel, next)])
            held == env.context[rel.var]
            withRel == IF rel.var = NoVar \/ hits = <<>> THEN env.context
                       ELSE [env.context EXCEPT ![rel.var] =
                               (IF held = Unbound THEN <<>> ELSE held)
                               \o [k \in DOMAIN hits |-> hits[k].edge]]
            ls == IF next.var = NoVar \/ next.label = NoLabel THEN env.labels
                  ELSE [env.labels EXCEPT ![next.var] = next.label]
            ctx == Bind(withRel, next.var, [k \in DOMAIN hits |-> hits[k].node])
<1>1. CASE prev = NoVar \/ env.context[prev] = Unbound
  <2>1. Hop(env, path, i) = env  BY <1>1 DEF Hop
  <2>. QED  BY <2>1
<1>2. CASE ~(prev = NoVar \/ env.context[prev] = Unbound)
  <2>1. Hop(env, path, i) = [context |-> ctx, labels |-> ls]
    BY <1>2 DEF Hop
  <2>2. /\ path.nodes[i] \in NodePatterns /\ next \in NodePatterns
        /\ rel \in RelPatterns(Types \cup {NoType})
    <3>1. path.nodes \in Seq(NodePatterns) /\ path.rels \in Seq(RelPatterns(Types \cup {NoType}))
          /\ Len(path.nodes) = Len(path.rels) + 1
      BY DEF Paths
    <3>2. i \in 1..Len(path.nodes) /\ i + 1 \in 1..Len(path.nodes)  BY <3>1
    <3>. QED  BY <3>1, <3>2
  <2>3. /\ prev \in Vars /\ next.var \in Vars \cup {NoVar} /\ rel.var \in Vars \cup {NoVar}
        /\ next.label \in Labels \cup {NoLabel}
    BY <1>2, <2>2 DEF NodePatterns, RelPatterns
  <2>3a. rel.var \in R \cup {NoVar} /\ N \subseteq 1..(n - 1)  BY DEF Finds
  <2>4. env.context \in Held(n, N, R) /\ env.context \in Contexts(n) /\ env.labels \in [Vars -> Labels \cup {NoLabel}]
    BY DEF Matching, Held
  <2>. HIDE DEF prev, rel, next
  <2>5. from \in Seq(1..(n - 1))  BY <1>2, <2>3, <2>4 DEF Contexts
  <2>. HIDE DEF from
  <2>6. hits \in Seq(Hits(n, N))  BY <2>5, HitsType
  <2>. HIDE DEF hits
  <2>7. /\ [k \in DOMAIN hits |-> hits[k].edge] \in Seq(1..(n - 1))
        /\ [k \in DOMAIN hits |-> hits[k].node] \in Seq(N)
    BY <2>6, ColumnType
  <2>8. withRel \in Held(n, N, R)
    <3>1. CASE rel.var = NoVar \/ hits = <<>>  BY <2>4, <3>1
    <3>2. CASE ~(rel.var = NoVar \/ hits = <<>>)
      <4>1. rel.var \in Vars /\ rel.var \in R  BY <2>3, <2>3a, <3>2
      <4>2. held \in Seq(1..(n - 1)) \cup {Unbound}  BY <2>4, <4>1 DEF Contexts
      <4>. DEFINE ids == (IF held = Unbound THEN <<>> ELSE held) \o [k \in DOMAIN hits |-> hits[k].edge]
                  edges == [k \in DOMAIN hits |-> hits[k].edge]
      <4>3. ids \in Seq(1..(n - 1))
        <5>1. ids = (IF held = Unbound THEN <<>> ELSE held) \o edges  OBVIOUS
        <5>. DEFINE A == 1..(n - 1)
        <5>2. edges \in Seq(A) /\ held \in Seq(A) \cup {Unbound}  BY <2>7, <4>2
        <5>. HIDE DEF edges, held, ids, A
        <5>3. ids \in Seq(A)  BY <5>1, <5>2
        <5>. QED  BY <5>3 DEF A
      <4>4. withRel = [env.context EXCEPT ![rel.var] = ids]  BY <3>2
      <4>. HIDE DEF ids, withRel
      <4>. QED  BY <2>3a, <2>4, <4>1, <4>3, <4>4, HeldBind
    <3>. QED  BY <3>1, <3>2
  <2>9. ls \in [Vars -> Labels \cup {NoLabel}]  BY <2>3, <2>4
  <2>. HIDE DEF withRel, ls
  <2>10. ctx \in Held(n, N, R)
    <3>. DEFINE nodes == [k \in DOMAIN hits |-> hits[k].node]
    <3>1. nodes \in Seq(N)  BY <2>7
    <3>2. CASE next.var = NoVar  BY <2>8, <3>2 DEF Bind
    <3>3. CASE next.var # NoVar
      <4>1. ctx = [withRel EXCEPT ![next.var] = nodes]  BY <3>3 DEF Bind
      <4>2. next.var \in Vars  BY <2>3, <3>3
      <4>. HIDE DEF nodes, ctx
      <4>. QED  BY <2>3a, <2>8, <3>1, <4>1, <4>2, HeldBind
    <3>. QED  BY <3>2, <3>3
  <2>. QED  BY <2>1, <2>9, <2>10 DEF Matching
<1>. QED  BY <1>1, <1>2

\* A path of MATCH keeps the types.
LEMMA MatchPathType ==
  ASSUME NEW n \in Nat, n <= MaxId + 1, NEW N, Finds(n, N), Sound(view, n), NEW R,
         NEW env \in Matching(n, N, R), NEW path \in Paths(Types \cup {NoType}),
         \A i \in DOMAIN path.rels : path.rels[i].var \in R \cup {NoVar}
  PROVE  MatchPath(env, path) \in Matching(n, N, R)
<1>. DEFINE S == Matching(n, N, R)
            m == Len(path.rels)
            first == MatchFirst(env, path.nodes[1])
<1>1. m \in Nat /\ DOMAIN path.rels = 1..m /\ path.nodes[1] \in NodePatterns
  <2>1. path.nodes \in Seq(NodePatterns) /\ path.rels \in Seq(RelPatterns(Types \cup {NoType}))
        /\ Len(path.nodes) = Len(path.rels) + 1
    BY DEF Paths
  <2>. QED  BY <2>1
<1>2. \A k \in 1..m : \A e \in S : Hop(e, path, k) \in S  BY <1>1, HopType
<1>3. first \in S  BY <1>1, MatchFirstType DEF Sound
<1>. HIDE DEF S, m, first
<1>4. \E f \in [0..m -> S] : MatchPathSteps(f, m, path, first)
  BY ONLY <1>1, <1>2, <1>3, MatchPathFold
<1>5. PICK f \in [0..m -> S] : MatchPathSteps(f, m, path, first)  BY <1>4
<1>6. MatchPath(env, path) = f[m]  BY <1>5, Zenon DEF MatchPathSteps, MatchPath, first
<1>. QED  BY <1>1, <1>6 DEF S

\* So do the paths of a clause.
LEMMA MatchPathsType ==
  ASSUME NEW n \in Nat, n <= MaxId + 1, NEW N, Finds(n, N), Sound(view, n), NEW R,
         NEW env \in Matching(n, N, R), NEW paths \in Seq(Paths(Types \cup {NoType})),
         \A k \in DOMAIN paths : \A i \in DOMAIN paths[k].rels : paths[k].rels[i].var \in R \cup {NoVar}
  PROVE  FoldLeft(MatchPath, env, paths) \in Matching(n, N, R)
<1>. DEFINE S == Matching(n, N, R)
            m == Len(paths)
<1>1. m \in Nat /\ DOMAIN paths = 1..m /\ \A k \in 1..m : paths[k] \in Paths(Types \cup {NoType})
  OBVIOUS
<1>2. \A k \in 1..m : \A e \in S : MatchPath(e, paths[k]) \in S  BY <1>1, MatchPathType
<1>3. env \in S  OBVIOUS
<1>. HIDE DEF S, m
<1>4. \E f \in [0..m -> S] : MatchPathsSteps(f, m, paths, env)
  BY ONLY <1>1, <1>2, <1>3, MatchPathsFold
<1>. QED  BY <1>1, <1>4 DEF S, MatchPathsSteps

\* A WHERE only drops ids.
LEMMA FilteredType ==
  ASSUME view \in Tables, NEW A \in SUBSET Ids, NEW w, w.var \in Vars, w.key \in Keys, w.value \in Values,
         labels \in [Vars -> Labels \cup {NoLabel}], NEW ids \in Seq(A)
  PROVE  Filtered(w, ids) \in Seq(A)
<1>. DEFINE l == labels[w.var]
            pass == [k \in DOMAIN ids |-> IF Passes(w, ids[k]) THEN <<ids[k]>> ELSE <<>>]
<1>1. Count(ids) \in [Ids -> Nat] /\ \A i \in Ids : Count(ids)[i] > 0 => i \in A
  BY CountType
<1>2. ASSUME NEW bag \in [Ids -> Nat] PROVE Sorted(Common(Count(ids), bag)) \in Seq(A)
  <2>1. Common(Count(ids), bag) \in [Ids -> Nat] /\ \A i \in Ids : Common(Count(ids), bag)[i] > 0 => i \in A
    BY <1>1, CommonType
  <2>. QED  BY <2>1, FoundIn
<1>3. CASE w.op = "=" /\ l # NoLabel
  <2>1. FindNodesByProperty(view, l, w.key, w.value) \in [Ids -> Nat]  BY <1>3, LookupType
  <2>2. Filtered(w, ids) = Sorted(Common(Count(ids), FindNodesByProperty(view, l, w.key, w.value)))
    BY <1>3 DEF Filtered
  <2>. HIDE DEF l
  <2>. QED  BY <1>2, <2>1, <2>2
<1>4. CASE w.op \in Ranges /\ l # NoLabel
  <2>1. FindNodesByPropertyRange(view, l, w.key, w.op, w.value) \in [Ids -> Nat]  BY <1>4, RangeType
  <2>2. w.op # "="  BY <1>4 DEF Ranges
  <2>3. Filtered(w, ids) = Sorted(Common(Count(ids), FindNodesByPropertyRange(view, l, w.key, w.op, w.value)))
    BY <1>4, <2>2 DEF Filtered
  <2>. HIDE DEF l
  <2>. QED  BY <1>2, <2>1, <2>3
<1>5. CASE ~(w.op = "=" /\ l # NoLabel) /\ ~(w.op \in Ranges /\ l # NoLabel)
  <2>1. Filtered(w, ids) = FlattenSeq(pass)  BY <1>5 DEF Filtered
  <2>. DEFINE m == Len(ids)
  <2>2. m \in Nat /\ DOMAIN ids = 1..m /\ \A k \in 1..m : ids[k] \in A  OBVIOUS
  <2>3. pass \in [1..m -> Seq(A)]
    <3>. HIDE DEF m
    <3>1. \A k \in 1..m : (IF Passes(w, ids[k]) THEN <<ids[k]>> ELSE <<>>) \in Seq(A)  BY <2>2
    <3>. QED  BY <2>2, <3>1
  <2>. HIDE DEF m, pass
  <2>4. FlattenSeq(pass) \in Seq(A)  BY <2>2, <2>3, FlattenRange
  <2>. QED  BY <2>1, <2>4
<1>. QED  BY <1>3, <1>4, <1>5

-----------------------------------------------------------------------------
(***************************************************************************)
(* DELETE.                                                                 *)
(***************************************************************************)

\* The tables c are the tables d with some live rows emptied.
Emptied(c, d) ==
  /\ \A j \in Ids : c.nodes[j] = d.nodes[j] \/ (LiveNode(d, j) /\ c.nodes[j] = Tombstone)
  /\ \A j \in Ids : c.edges[j] = d.edges[j] \/ (LiveEdge(d, j) /\ c.edges[j] = Tombstone)

\* What DELETE works on, from the tables d and the context ctx on.
Deletings(d, ctx, n) ==
  {e \in [tables : Tables, context : Contexts(n)] :
     /\ Sound(e.tables, n) /\ Emptied(e.tables, d)
     /\ \A v \in Vars : e.context[v] = ctx[v] \/ e.context[v] = Unbound}

\* Rows that stay empty do so over two steps.
LEMMA EmptiedTransitive ==
  ASSUME NEW b, NEW c, NEW d, Emptied(c, d), Emptied(b, c) PROVE Emptied(b, d)
  BY ConstantsAssumption DEF Emptied, LiveNode, LiveEdge

\* Deleting the ids of one variable keeps the tables sound and makes no row.
LEMMA DeleteIdsType ==
  ASSUME NEW d, NEW n \in Nat, n <= MaxId + 1, NEW c, Sound(c, n), Emptied(c, d),
         NEW ids \in Seq(1..(n - 1)), NEW detach \in BOOLEAN
  PROVE  LET b == FoldLeft(LAMBDA t, i : DeleteTarget(t, i, detach), c, ids)
         IN  Sound(b, n) /\ Emptied(b, d)
<1>. DEFINE S == {b \in Tables : Sound(b, n) /\ Emptied(b, d)}
            m == Len(ids)
<1>1. m \in Nat /\ DOMAIN ids = 1..m /\ \A k \in 1..m : ids[k] \in Ids
  BY ConstantsAssumption DEF Ids
<1>2. ASSUME NEW k \in 1..m, NEW e \in S PROVE DeleteTarget(e, ids[k], detach) \in S
  <2>. DEFINE b == DeleteTarget(e, ids[k], detach)
  <2>0. Sound(e, n) /\ Emptied(e, d) /\ e \in Tables  OBVIOUS
  <2>1. Sound(b, n)  BY <1>1, <2>0, DeleteTargetSound
  <2>2. Emptied(b, e)
    <3>1. /\ \A j \in Ids : b.nodes[j] = e.nodes[j] \/ (LiveNode(e, j) /\ b.nodes[j] = Tombstone)
          /\ \A j \in Ids : b.edges[j] = e.edges[j] \/ (LiveEdge(e, j) /\ b.edges[j] = Tombstone)
      BY <1>1, <2>0, DeleteTargetWrites
    <3>. HIDE DEF b
    <3>. QED  BY <3>1 DEF Emptied
  <2>. HIDE DEF b
  <2>3. Emptied(b, d)  BY <2>0, <2>2, EmptiedTransitive
  <2>4. b \in Tables  BY <2>1 DEF Sound
  <2>5. b \in S  BY <2>1, <2>3, <2>4
  <2>. QED  BY <2>5 DEF b
<1>3. \A k \in 1..m : \A e \in S : DeleteTarget(e, ids[k], detach) \in S  BY <1>2
<1>4. c \in S  BY DEF Sound
<1>. HIDE DEF S, m
<1>5. \E f \in [0..m -> S] : DeleteIdsSteps(f, m, ids, detach, c)
  BY ONLY <1>1, <1>3, <1>4, DeleteIdsFold
<1>6. PICK f \in [0..m -> S] : DeleteIdsSteps(f, m, ids, detach, c)  BY <1>5
<1>7. FoldLeft(LAMBDA t, i : DeleteTarget(t, i, detach), c, ids) = f[m]  BY <1>6, Zenon DEF DeleteIdsSteps
<1>8. f[m] \in S  BY <1>1
<1>9. Sound(f[m], n) /\ Emptied(f[m], d)  BY <1>8 DEF S
<1>. QED  BY <1>7, <1>9, Zenon

\* So does one variable of DELETE.
LEMMA DeleteVariableType ==
  ASSUME NEW d, NEW ctx, NEW n \in Nat, n <= MaxId + 1, NEW env \in Deletings(d, ctx, n),
         NEW v \in Vars, NEW detach \in BOOLEAN
  PROVE  DeleteVariable(env, v, detach) \in Deletings(d, ctx, n)
<1>0. /\ Sound(env.tables, n) /\ Emptied(env.tables, d) /\ env.context \in Contexts(n)
      /\ \A x \in Vars : env.context[x] = ctx[x] \/ env.context[x] = Unbound
  BY DEF Deletings
<1>1. CASE env.context[v] = Unbound
  <2>1. DeleteVariable(env, v, detach) = env  BY <1>1 DEF DeleteVariable
  <2>. QED  BY <2>1
<1>2. CASE env.context[v] # Unbound
  <2>. DEFINE b == FoldLeft(LAMBDA t, i : DeleteTarget(t, i, detach), env.tables, env.context[v])
              x == [env.context EXCEPT ![v] = Unbound]
  <2>1. DeleteVariable(env, v, detach) = [tables |-> b, context |-> x]
    BY <1>2, Zenon DEF DeleteVariable
  <2>2. env.context[v] \in Seq(1..(n - 1))  BY <1>0, <1>2 DEF Contexts
  <2>3. Sound(b, n) /\ Emptied(b, d)  BY <1>0, <2>2, DeleteIdsType, Zenon
  <2>4. x \in Contexts(n) /\ \A y \in Vars : x[y] = ctx[y] \/ x[y] = Unbound
    <3>. DEFINE A == Seq(1..(n - 1))
    <3>1. env.context \in [Vars -> A \cup {Unbound}]  BY <1>0 DEF Contexts
    <3>. HIDE DEF A
    <3>2. x \in [Vars -> A \cup {Unbound}]  BY <3>1
    <3>3. \A y \in Vars : x[y] = ctx[y] \/ x[y] = Unbound  BY <1>0, <3>1
    <3>. QED  BY <3>2, <3>3 DEF Contexts, A
  <2>. HIDE DEF b, x
  <2>5. b \in Tables  BY <2>3 DEF Sound
  <2>. QED  BY <2>1, <2>3, <2>4, <2>5 DEF Deletings
<1>. QED  BY <1>1, <1>2

\* So does the clause.
LEMMA DeleteVariablesType ==
  ASSUME NEW n \in Nat, n <= MaxId + 1, NEW d, Sound(d, n), NEW ctx \in Contexts(n),
         NEW vs \in Seq(Vars), NEW detach \in BOOLEAN
  PROVE  FoldLeft(LAMBDA e, v : DeleteVariable(e, v, detach), [tables |-> d, context |-> ctx], vs)
           \in Deletings(d, ctx, n)
<1>. DEFINE S == Deletings(d, ctx, n)
            m == Len(vs)
            env == [tables |-> d, context |-> ctx]
<1>1. m \in Nat /\ DOMAIN vs = 1..m /\ \A k \in 1..m : vs[k] \in Vars  OBVIOUS
<1>2. \A k \in 1..m : \A e \in S : DeleteVariable(e, vs[k], detach) \in S  BY <1>1, DeleteVariableType
<1>3. env \in S
  <2>1. Emptied(d, d)  BY DEF Emptied
  <2>2. d \in Tables  BY DEF Sound
  <2>. QED  BY <2>1, <2>2 DEF Deletings
<1>. HIDE DEF S, m, env
<1>4. \E f \in [0..m -> S] : DeleteVariablesSteps(f, m, vs, detach, env)
  BY ONLY <1>1, <1>2, <1>3, DeleteVariablesFold
<1>5. PICK f \in [0..m -> S] : DeleteVariablesSteps(f, m, vs, detach, env)  BY <1>4
<1>6. FoldLeft(LAMBDA e, v : DeleteVariable(e, v, detach), env, vs) = f[m]
  BY <1>5, Zenon DEF DeleteVariablesSteps
<1>7. f[m] \in S  BY <1>1
<1>. QED  BY <1>6, <1>7, Zenon DEF S, env

-----------------------------------------------------------------------------
(***************************************************************************)
(* SET.                                                                    *)
(***************************************************************************)

\* The pending map: a record that is not empty is that of a live node.
PendingMaps ==
  {p \in [Ids -> Pendings] : \A i \in Ids : p[i].value \in PropMaps => LiveNode(view, i)}

\* One assignment to one id keeps the pending maps well formed.
LEMMA AssignedType ==
  ASSUME view \in Tables, labels \in [Vars -> Labels \cup {NoLabel}],
         NEW p \in PendingMaps, NEW a \in Assignments, NEW i \in Ids
  PROVE  Assigned(p, a, i) \in PendingMaps
<1>. DEFINE r == IF p[i].value # Tombstone THEN p[i]
                 ELSE [label |-> labels[a.var], value |-> IF LiveNode(view, i) THEN view.nodes[i] ELSE Tombstone]
            v == IF r.value = Tombstone THEN r.value ELSE [r.value EXCEPT ![a.key] = a.value]
            s == [r EXCEPT !.value = v]
<1>1. a.var \in Vars /\ a.key \in Keys /\ a.value \in Values  BY DEF Assignments
<1>2. p[i] \in Pendings /\ (p[i].value \in PropMaps => LiveNode(view, i)) /\ p \in [Ids -> Pendings]
  BY DEF PendingMaps
<1>3. r \in Pendings /\ (r.value \in PropMaps => LiveNode(view, i))
  <2>1. CASE p[i].value # Tombstone  BY <1>2, <2>1
  <2>2. CASE p[i].value = Tombstone
    <3>1. r.value \in PropMaps \cup {Tombstone} /\ r.label \in Labels \cup {NoLabel}
          /\ r = [label |-> r.label, value |-> r.value]
      BY <1>1, <2>2 DEF LiveNode
    <3>2. r.value \in PropMaps => LiveNode(view, i)  BY <2>2, ConstantsAssumption
    <3>. HIDE DEF r
    <3>. QED  BY <3>1, <3>2 DEF Pendings
  <2>. QED  BY <2>1, <2>2
<1>4. Assigned(p, a, i) = [p EXCEPT ![i] = s]  BY DEF Assigned
<1>. HIDE DEF r
<1>5. v \in PropMaps \cup {Tombstone} /\ (v \in PropMaps => r.value \in PropMaps)
  <2>1. r.value \in PropMaps \cup {Tombstone}  BY <1>3 DEF Pendings
  <2>2. CASE r.value = Tombstone  BY <2>2
  <2>3. CASE r.value \in PropMaps
    <3>1. v = [r.value EXCEPT ![a.key] = a.value]  BY <2>3, ConstantsAssumption
    <3>2. v \in PropMaps  BY <1>1, <2>3, <3>1 DEF PropMaps
    <3>. QED  BY <2>3, <3>2
  <2>. QED  BY <2>1, <2>2, <2>3
<1>. HIDE DEF v
<1>6. s \in Pendings /\ (s.value \in PropMaps => LiveNode(view, i))  BY <1>3, <1>5 DEF Pendings
<1>. HIDE DEF s
<1>. QED  BY <1>2, <1>4, <1>6 DEF PendingMaps

\* So does an assignment to all ids of its variable.
LEMMA AssignAllType ==
  ASSUME NEW n \in Nat, n <= MaxId + 1, view \in Tables, labels \in [Vars -> Labels \cup {NoLabel}],
         context \in Contexts(n), NEW p \in PendingMaps, NEW a \in Assignments
  PROVE  AssignAll(p, a) \in PendingMaps
<1>1. CASE context[a.var] = Unbound  BY <1>1 DEF AssignAll
<1>2. CASE context[a.var] # Unbound
  <2>. DEFINE ids == context[a.var]
              m == Len(ids)
  <2>1. ids \in Seq(1..(n - 1))  BY <1>2 DEF Contexts, Assignments
  <2>2. m \in Nat /\ DOMAIN ids = 1..m /\ \A k \in 1..m : ids[k] \in Ids
    BY <2>1, ConstantsAssumption DEF Ids
  <2>. HIDE DEF ids, m
  <2>3. \A k \in 1..m : \A e \in PendingMaps : Assigned(e, a, ids[k]) \in PendingMaps
    BY <2>2, AssignedType
  <2>4. \E f \in [0..m -> PendingMaps] : AssignIdsSteps(f, m, ids, a, p)
    BY <2>2, <2>3, AssignIdsFold
  <2>5. PICK f \in [0..m -> PendingMaps] : AssignIdsSteps(f, m, ids, a, p)  BY <2>4
  <2>6. AssignAll(p, a) = f[m]  BY <1>2, <2>5, Zenon DEF AssignIdsSteps, AssignAll, ids
  <2>. QED  BY <2>2, <2>6
<1>. QED  BY <1>1, <1>2

\* Before the first assignment.
NonePending == [i \in Ids |-> [label |-> NoLabel, value |-> Tombstone]]

\* So do the assignments of a clause, one after the other.
LEMMA AssignmentsType ==
  ASSUME NEW n \in Nat, n <= MaxId + 1, view \in Tables, labels \in [Vars -> Labels \cup {NoLabel}],
         context \in Contexts(n), NEW list \in Seq(Assignments)
  PROVE  FoldLeft(AssignAll, NonePending, list) \in PendingMaps
<1>. DEFINE m == Len(list)
<1>6. m \in Nat  BY ONLY list \in Seq(Assignments)
<1>7. DOMAIN list = 1..m  BY ONLY list \in Seq(Assignments)
<1>8. ASSUME NEW k \in 1..m PROVE list[k] \in Assignments  BY ONLY list \in Seq(Assignments), k \in 1..m
<1>1. m \in Nat /\ DOMAIN list = 1..m /\ \A k \in 1..m : list[k] \in Assignments  BY <1>6, <1>7, <1>8
<1>2. \A k \in 1..m : \A e \in PendingMaps : AssignAll(e, list[k]) \in PendingMaps
  BY <1>1, AssignAllType
<1>3. NonePending \in PendingMaps
  BY ConstantsAssumption DEF NonePending, PendingMaps, Pendings
<1>. HIDE DEF m
<1>4. \E f \in [0..m -> PendingMaps] : AssignmentsSteps(f, m, list, NonePending)
  BY <1>1, <1>2, <1>3, AssignmentsFold
<1>. QED  BY <1>1, <1>4 DEF AssignmentsSteps

\* What the second phase writes: rows of the pending map.
Settings(d, n, pending) ==
  {c \in Tables : /\ Sound(c, n) /\ c.edges = d.edges
                  /\ \A i \in Ids : c.nodes[i] = d.nodes[i]
                                    \/ (~(i >= n) /\ c.nodes[i] = pending[i].value)}

\* Writing the pending maps keeps the tables sound.
LEMMA WritesType ==
  ASSUME NEW n \in Nat, n <= MaxId + 1, Sound(view, n), NEW pending \in PendingMaps,
         NEW ids \in Seq(1..(n - 1))
  PROVE  FoldLeft(LAMBDA d, i : Written(d, i, pending[i]), view, ids) \in Settings(view, n, pending)
<1>. DEFINE m == Len(ids)
            S == Settings(view, n, pending)
<1>1. m \in Nat /\ DOMAIN ids = 1..m /\ \A k \in 1..m : ids[k] \in Ids /\ ~(ids[k] >= n)
  BY ConstantsAssumption DEF Ids
<1>. HIDE DEF m
<1>2. ASSUME NEW k \in 1..m, NEW e \in S PROVE Written(e, ids[k], pending[ids[k]]) \in S
  <2>. DEFINE i == ids[k]
              c == Written(e, i, pending[i])
  <2>0. i \in Ids /\ ~(i >= n)  BY <1>1
  <2>. HIDE DEF i
  <2>1. /\ e \in Tables /\ Sound(e, n) /\ e.edges = view.edges
        /\ \A j \in Ids : e.nodes[j] = view.nodes[j] \/ (~(j >= n) /\ e.nodes[j] = pending[j].value)
        /\ e.nodes \in [Ids -> PropMaps \cup {Absent, Tombstone}]
    BY DEF Settings, Tables
  <2>2. pending[i] \in Pendings /\ (pending[i].value \in PropMaps => LiveNode(view, i))
    BY <2>0 DEF PendingMaps
  <2>3. pending[i].value \in PropMaps => LiveNode(e, i)
    BY <2>0, <2>1, <2>2 DEF LiveNode
  <2>4. Sound(c, n)  BY <2>0, <2>1, <2>2, <2>3, WrittenSound
  <2>5. /\ c \in Tables /\ c.nodes = [e.nodes EXCEPT ![i] = pending[i].value] /\ c.edges = e.edges
    BY <2>0, <2>1, <2>2, WrittenWrites
  <2>. HIDE DEF c
  <2>6. c \in S  BY <2>0, <2>1, <2>4, <2>5 DEF Settings
  <2>. QED  BY <2>6 DEF c, i
<1>3. \A k \in 1..m : \A e \in S : Written(e, ids[k], pending[ids[k]]) \in S  BY <1>2
<1>4. view \in S  BY DEF Settings, Sound
<1>. HIDE DEF S
<1>5. \E f \in [0..m -> S] : WriteSteps(f, m, ids, pending, view)
  BY ONLY <1>1, <1>3, <1>4, WriteFold
<1>6. PICK f \in [0..m -> S] : WriteSteps(f, m, ids, pending, view)  BY <1>5
<1>7. FoldLeft(LAMBDA d, i : Written(d, i, pending[i]), view, ids) = f[m]  BY <1>6, Zenon DEF WriteSteps
<1>8. f[m] \in S  BY <1>1
<1>. QED  BY <1>7, <1>8, Zenon DEF S

-----------------------------------------------------------------------------
(***************************************************************************)
(* Types.                                                                  *)
(***************************************************************************)

\* In the body of UNWIND an item is left.
LoopInv == loop.start # 0 => loop.items # <<>> /\ stmt # <<>>

\* The inductive invariant.  TypeOK alone is not inductive: that an id read
\* from an index, an adjacency list or the context is below the next id rests
\* on the tables being sound, before and within the transaction, and that the
\* next item of an UNWIND exists on where it is.
IInv == TypeOK /\ Sound(db, next_id) /\ Sound(view, next_id) /\ LoopInv

\* The clauses of a statement.
LEMMA StatementType ==
  ASSUME NEW s \in Statements \cup {<<>>}
  PROVE  s \in Seq(Clauses) /\ Len(s) \in Nat /\ DOMAIN s = 1..Len(s)
<1>1. Statements \subseteq Seq(Clauses) \ {<<>>}  BY Zenon, ExecutorAssumption DEF ExecutorAssumption
<1>2. s \in Seq(Clauses)
  <2>. DEFINE C == Clauses
  <2>1. Statements \subseteq Seq(C) \ {<<>>}  BY <1>1
  <2>. HIDE DEF C
  <2>2. <<>> \in Seq(C)  OBVIOUS
  <2>3. ASSUME s \in Statements PROVE s \in Seq(C)  BY ONLY <2>1, <2>3, Zenon
  <2>4. s \in Seq(C)  BY <2>2, <2>3
  <2>. QED  BY <2>4 DEF C
<1>. QED  BY <1>2

\* The parts of a clause are what the assumptions on statements say.
LEMMA ClauseType ==
  ASSUME stmt \in Statements \cup {<<>>}, NEW i \in DOMAIN stmt
  PROVE  /\ stmt[i] \in Clauses
         /\ stmt[i].type = "create" => stmt[i].paths \in Seq(Paths(Types))
         /\ stmt[i].type = "match" => stmt[i].paths \in Seq(Paths(Types \cup {NoType}))
         /\ stmt[i].type = "where" => stmt[i].var \in Vars /\ stmt[i].key \in Keys /\ stmt[i].value \in Values
         /\ stmt[i].type = "return" => stmt[i].vars \in SUBSET Vars
         /\ stmt[i].type = "delete" => stmt[i].vars \in Seq(Vars) /\ stmt[i].detach \in BOOLEAN
         /\ stmt[i].type = "set" => stmt[i].assignments \in Seq(Assignments)
         /\ stmt[i].type = "unwind" => stmt[i].items \in Seq(PropMaps)
<1>1. stmt[i] \in Clauses  BY StatementType
<1>2. stmt[i].type = "create" => stmt[i].paths \in Seq(Paths(Types))  BY <1>1 DEF Clauses
<1>3. stmt[i].type = "match" => stmt[i].paths \in Seq(Paths(Types \cup {NoType}))  BY <1>1 DEF Clauses
<1>4. stmt[i].type = "where" => stmt[i].var \in Vars /\ stmt[i].key \in Keys /\ stmt[i].value \in Values
  BY <1>1 DEF Clauses
<1>5. stmt[i].type = "return" => stmt[i].vars \in SUBSET Vars  BY <1>1 DEF Clauses
<1>6. stmt[i].type = "delete" => stmt[i].vars \in Seq(Vars) /\ stmt[i].detach \in BOOLEAN
  BY <1>1 DEF Clauses
<1>7. stmt[i].type = "set" => stmt[i].assignments \in Seq(Assignments)  BY <1>1 DEF Clauses
<1>8. stmt[i].type = "unwind" => stmt[i].items \in Seq(PropMaps)  BY <1>1 DEF Clauses
<1>. QED  BY <1>1, <1>2, <1>3, <1>4, <1>5, <1>6, <1>7, <1>8

\* What a CREATE of the body of UNWIND reads of its item is there.
LEMMA CreateReads ==
  ASSUME IInv, At("create")
  PROVE  Clause.paths \in Seq(Paths(Types)) /\ \A k \in DOMAIN Clause.paths : Creatable(Clause.paths[k])
<1>1. ci \in DOMAIN stmt /\ Clause.type = "create"  BY DEF At, Clause
<1>2. Clause.paths \in Seq(Paths(Types))  BY <1>1, ClauseType DEF IInv, TypeOK, Clause
<1>3. ASSUME NEW k \in DOMAIN Clause.paths, NEW i \in DOMAIN Clause.paths[k].nodes
      PROVE  Evaluable(Clause.paths[k].nodes[i].props)
  <2>. DEFINE p == Clause.paths[k]
              x == p.nodes[i]
  <2>1. p \in Paths(Types) /\ p \in ToSet(Clause.paths)  BY <1>2 DEF ToSet
  <2>2. p.nodes \in Seq(NodePatterns)  BY <2>1 DEF Paths
  <2>3. x \in NodePatterns /\ x \in ToSet(p.nodes)
    <3>. HIDE DEF p
    <3>. QED  BY <2>2, <1>3 DEF ToSet, p
  <2>4. x.props \in [Keys -> Expressions]  BY <2>3 DEF NodePatterns
  <2>5. loop.start # 0 => loop.items \in Seq(PropMaps) /\ loop.items # <<>>
    BY DEF IInv, LoopInv, TypeOK
  <2>. HIDE DEF x
  <2>6. Evaluable(x.props)  BY <2>4, <2>5 DEF Evaluable
  <2>. QED  BY <2>6 DEF x
<1>4. \A k \in DOMAIN Clause.paths : Clause.paths[k] \in Paths(Types)  BY <1>2
<1>. QED  BY <1>2, <1>3, <1>4 DEF Creatable

\* What execute_create leaves behind.
LEMMA CreatedType ==
  ASSUME IInv, At("create")
  PROVE  Created \in Creating(view, next_id)
<1>1. Clause.paths \in Seq(Paths(Types)) /\ \A k \in DOMAIN Clause.paths : Creatable(Clause.paths[k])
  BY CreateReads
<1>2. next_id \in Nat /\ next_id >= 1  BY ConstantsAssumption DEF IInv, TypeOK
<1>3. Sound(view, next_id) /\ context \in Contexts(next_id)  BY DEF IInv, TypeOK, Contexts
<1>4. Same(view, view, next_id)  BY DEF Same
<1>. DEFINE env == [tables |-> view, id |-> next_id, context |-> context, node |-> 0]
<1>5. env \in Creating(view, next_id)  BY <1>2, <1>3, <1>4, CreatingFrom
<1>6. Created = FoldLeft(CreatePath, env, Clause.paths)  BY DEF Created
<1>. HIDE DEF env
<1>. QED  BY <1>1, <1>2, <1>5, <1>6, CreatePathsType

\* The inductive invariant holds of the empty database.
LEMMA InitType == Init => IInv
<1>. SUFFICES ASSUME Init PROVE IInv
  OBVIOUS
<1>1. TypeOK
  BY EmptyTablesType, ConstantsAssumption, ExecutorAssumption
  DEF Init, TypeOK, NoContext, NoLabels, NoLoop
<1>2. Sound(db, next_id) /\ Sound(view, next_id)  BY EmptySound DEF Init
<1>3. LoopInv  BY DEF Init, NoLoop, LoopInv
<1>. QED  BY <1>1, <1>2, <1>3 DEF IInv

-----------------------------------------------------------------------------
(***************************************************************************)
(* The steps keep the inductive invariant.                                 *)
(***************************************************************************)

\* The steps past one or two clauses that leave the loop: everything but what the
\* clauses themselves write.
Advanced ==
  /\ db' \in Tables /\ stmt' \in Statements \cup {<<>>} /\ ci' \in 1..(Len(stmt') + 1)
  /\ loop' \in [start : 0..(Len(stmt') + 1), items : Seq(PropMaps)]
  /\ queries' \in 0..MaxQueries
  /\ LoopInv'

\* Going to the next clause, or the next item, keeps types and loop.
LEMMA AdvanceType ==
  ASSUME IInv, NEW k \in {1, 2}, ci \in DOMAIN stmt, ci + k - 1 \in DOMAIN stmt, Advance(k), loop' = loop
  PROVE  Advanced
<1>1. ci' = ci + k /\ stmt' = stmt /\ db' = db /\ queries' = queries  BY DEF Advance
<1>2. LoopInv'  BY <1>1 DEF IInv, LoopInv
<1>3. stmt \in Statements \cup {<<>>} /\ ci \in 1..(Len(stmt) + 1)  BY DEF IInv, TypeOK
<1>4. Len(stmt) \in Nat /\ DOMAIN stmt = 1..Len(stmt)  BY <1>3, StatementType
<1>5. ci' \in 1..(Len(stmt') + 1)  BY <1>1, <1>3, <1>4
<1>6. db \in Tables /\ loop \in [start : 0..(Len(stmt) + 1), items : Seq(PropMaps)] /\ queries \in 0..MaxQueries
  BY DEF IInv, TypeOK
<1>. QED  BY <1>1, <1>2, <1>3, <1>5, <1>6 DEF Advanced

\* What a clause writes, when it allocates nothing: the view and the context.
LEMMA WritesKeep ==
  ASSUME IInv, Advanced, db' = db, next_id' = next_id, Sound(view, next_id)',
         context' \in Contexts(next_id), labels' \in [Vars -> Labels \cup {NoLabel}],
         result' \in [Vars -> Seq(PropMaps \cup EdgeRecs \cup {Absent})]
  PROVE  IInv'
<1>1. Sound(db, next_id)'  BY DEF IInv
<1>2. view' \in Tables /\ next_id' \in 1..(MaxId + 1)  BY DEF Sound, IInv, TypeOK
<1>3. TypeOK'  BY <1>2 DEF Advanced, TypeOK, Contexts
<1>. QED  BY <1>1, <1>3 DEF IInv, Advanced

\* The types a step starts from.
LEMMA TypesBefore ==
  ASSUME IInv
  PROVE  /\ next_id \in Nat /\ next_id >= 1 /\ next_id <= MaxId + 1
         /\ context \in Contexts(next_id) /\ labels \in [Vars -> Labels \cup {NoLabel}]
         /\ result \in [Vars -> Seq(PropMaps \cup EdgeRecs \cup {Absent})]
         /\ Sound(db, next_id) /\ Sound(view, next_id) /\ db \in Tables /\ view \in Tables
  BY ConstantsAssumption DEF IInv, TypeOK, Contexts

\* A step past a clause that leaves the loop alone.
LEMMA AdvanceOne ==
  ASSUME IInv, NEW type, At(type), Advance(1), loop' = loop
  PROVE  Advanced
<1>1. ci \in DOMAIN stmt /\ ci + 1 - 1 \in DOMAIN stmt  BY DEF At, IInv, TypeOK
<1>. QED  BY <1>1, AdvanceType

\* Beginning a statement.
LEMMA SubmitStep ==
  ASSUME IInv, NEW s \in Statements, Submit(s) PROVE IInv'
<1>1. s \in Seq(Clauses) /\ Len(s) \in Nat /\ DOMAIN s = 1..Len(s)  BY StatementType
<1>2. /\ stmt' = s /\ ci' = 1 /\ context' = NoContext /\ labels' = NoLabels /\ stmt = <<>>
      /\ UNCHANGED <<db, view, next_id, loop, result>> /\ queries < MaxQueries /\ queries' = queries + 1
  BY DEF Submit
<1>3. loop.start = 0  BY <1>2 DEF IInv, LoopInv
<1>4. ci' \in 1..(Len(stmt') + 1)  BY <1>1, <1>2
<1>5. loop' \in [start : 0..(Len(stmt') + 1), items : Seq(PropMaps)]  BY <1>1, <1>2, <1>3 DEF IInv, TypeOK
<1>6. queries' \in 0..MaxQueries  BY <1>2, ExecutorAssumption DEF IInv, TypeOK
<1>7. context' \in Contexts(next_id)' /\ labels' \in [Vars -> Labels \cup {NoLabel}]
  BY <1>2 DEF NoContext, NoLabels, Contexts
<1>8. TypeOK'  BY <1>2, <1>4, <1>5, <1>6, <1>7 DEF IInv, TypeOK, Contexts
<1>9. LoopInv'  BY <1>2, <1>3 DEF LoopInv
<1>. QED  BY <1>2, <1>8, <1>9 DEF IInv

\* CREATE.
LEMMA CreateStep ==
  ASSUME IInv, Create PROVE IInv'
<1>1. /\ At("create") /\ Created.id <= MaxId + 1 /\ view' = Created.tables /\ next_id' = Created.id
      /\ context' = Created.context /\ Advance(1) /\ labels' = labels /\ loop' = loop /\ result' = result
  BY DEF Create
<1>2. Created \in Creating(view, next_id)  BY <1>1, CreatedType
<1>. DEFINE n == Created.id
<1>3. /\ n \in Nat /\ next_id <= n /\ Sound(Created.tables, n) /\ Created.context \in Contexts(n)
  BY <1>2 DEF Creating
<1>4. Advanced  BY <1>1, AdvanceOne
<1>5. n \in 1..(MaxId + 1)  BY <1>1, <1>3, TypesBefore
<1>6. Sound(db, n)  BY <1>3, TypesBefore, SoundMonotone
<1>7. view' \in Tables  BY <1>1, <1>3 DEF Sound
<1>8. TypeOK'
  BY <1>1, <1>3, <1>4, <1>5, <1>7, TypesBefore DEF TypeOK, Advanced, Contexts
<1>9. db' = db  BY <1>1 DEF Advance
<1>10. Sound(db, next_id)' /\ Sound(view, next_id)'  BY <1>1, <1>3, <1>6, <1>9
<1>. QED  BY <1>4, <1>8, <1>10 DEF IInv, Advanced

\* CREATE over an alias that has no value in scope.
LEMMA CreateFailsStep ==
  ASSUME IInv, CreateFails PROVE IInv'
<1>1. /\ At("create") /\ Created.id <= MaxId + 1 /\ next_id' \in (next_id + 1)..Created.id
      /\ stmt' = <<>> /\ ci' = 1 /\ view' = db /\ loop' = NoLoop
      /\ db' = db /\ context' = context /\ labels' = labels /\ result' = result /\ queries' = queries
  BY DEF CreateFails, memory
<1>2. Created.id \in Nat  BY <1>1, CreatedType DEF Creating
<1>3. next_id' \in 1..(MaxId + 1) /\ next_id <= next_id' /\ next_id' \in Nat
  BY <1>1, <1>2, TypesBefore, ConstantsAssumption
<1>4. Sound(db, next_id')  BY <1>3, TypesBefore, SoundMonotone
<1>5. context \in Contexts(next_id')  BY <1>3, TypesBefore, ContextMonotone
<1>6. TypeOK'
  BY <1>1, <1>3, <1>5, TypesBefore DEF TypeOK, IInv, Contexts, NoLoop
<1>7. LoopInv'  BY <1>1 DEF LoopInv, NoLoop
<1>. QED  BY <1>1, <1>4, <1>6, <1>7 DEF IInv

\* The paths of a MATCH use only variables of R for relationships.
RelsIn(clause, R) ==
  \A k \in DOMAIN clause.paths : \A i \in DOMAIN clause.paths[k].rels : clause.paths[k].rels[i].var \in R \cup {NoVar}

\* Every variable may hold ids of either kind.
LEMMA AnyHeld ==
  ASSUME IInv
  PROVE  /\ \A ctx \in Contexts(next_id) : ctx \in Held(next_id, 1..(next_id - 1), Vars)
         /\ Finds(next_id, 1..(next_id - 1))
         /\ \A ctx \in Held(next_id, 1..(next_id - 1), Vars) : ctx \in Contexts(next_id)
<1>1. Finds(next_id, 1..(next_id - 1))  BY TypesBefore, AllFound
<1>. QED  BY <1>1 DEF Held

\* What MATCH binds.
LEMMA MatchBinds ==
  ASSUME IInv, Match, NEW N, Finds(next_id, N), NEW R, context \in Held(next_id, N, R), RelsIn(Clause, R)
  PROVE  context' \in Held(next_id, N, R) /\ labels' \in [Vars -> Labels \cup {NoLabel}]
<1>. DEFINE start == [context |-> context, labels |-> labels]
            env == FoldLeft(MatchPath, start, Clause.paths)
<1>1. At("match") /\ context' = env.context /\ labels' = env.labels
  BY DEF Match
<1>2. Clause.paths \in Seq(Paths(Types \cup {NoType}))
  BY <1>1, ClauseType DEF At, Clause, IInv, TypeOK
<1>3. start \in Matching(next_id, N, R)  BY TypesBefore DEF Matching
<1>. HIDE DEF start
<1>4. env \in Matching(next_id, N, R)  BY <1>2, <1>3, TypesBefore, MatchPathsType DEF RelsIn
<1>. HIDE DEF env
<1>. QED  BY <1>1, <1>4 DEF Matching

\* MATCH.
LEMMA MatchStep ==
  ASSUME IInv, Match PROVE IInv'
<1>1. /\ At("match") /\ Advance(1) /\ view' = view /\ next_id' = next_id /\ loop' = loop /\ result' = result
  BY DEF Match
<1>2. Clause.paths \in Seq(Paths(Types \cup {NoType}))
  BY <1>1, ClauseType DEF At, Clause, IInv, TypeOK
<1>3. RelsIn(Clause, Vars)
  <2>1. ASSUME NEW k \in DOMAIN Clause.paths, NEW i \in DOMAIN Clause.paths[k].rels
        PROVE  Clause.paths[k].rels[i].var \in Vars \cup {NoVar}
    <3>. DEFINE p == Clause.paths[k]
    <3>1. p \in Paths(Types \cup {NoType})  BY <1>2
    <3>. HIDE DEF p
    <3>2. p.rels \in Seq(RelPatterns(Types \cup {NoType}))  BY <3>1 DEF Paths
    <3>3. p.rels[i] \in RelPatterns(Types \cup {NoType})  BY <3>2 DEF p
    <3>4. p.rels[i].var \in Vars \cup {NoVar}  BY <3>3 DEF RelPatterns
    <3>. QED  BY <3>4 DEF p
  <2>. QED  BY <2>1 DEF RelsIn
<1>4. context \in Held(next_id, 1..(next_id - 1), Vars) /\ Finds(next_id, 1..(next_id - 1))
  BY TypesBefore, AnyHeld
<1>5. context' \in Held(next_id, 1..(next_id - 1), Vars) /\ labels' \in [Vars -> Labels \cup {NoLabel}]
  BY <1>3, <1>4, MatchBinds
<1>6. context' \in Contexts(next_id)  BY <1>5, AnyHeld
<1>7. Advanced  BY <1>1, AdvanceOne
<1>8. db' = db /\ Sound(view, next_id)'  BY <1>1, TypesBefore DEF Advance
<1>. QED  BY <1>1, <1>5, <1>6, <1>7, <1>8, TypesBefore, WritesKeep

\* The look-up that stands for MATCH and WHERE.
LEMMA FusedType ==
  ASSUME IInv, At("match"), Fused
  PROVE  LET n == Clause.paths[1].nodes[1]
             w == stmt[ci + 1]
         IN  /\ ci \in DOMAIN stmt /\ ci + 1 \in DOMAIN stmt /\ stmt[ci].type = "match" /\ w.type = "where"
             /\ n \in NodePatterns /\ n.label \in Labels /\ n.var \in Vars
             /\ w.key \in Keys /\ w.value \in Values
<1>. DEFINE n == Clause.paths[1].nodes[1]
            w == stmt[ci + 1]
<1>1. /\ ci \in DOMAIN stmt /\ ci + 1 \in DOMAIN stmt /\ stmt \in Statements \cup {<<>>} /\ w.type = "where"
      /\ Len(Clause.paths) = 1 /\ Len(Clause.paths[1].nodes) = 1 /\ n.label # NoLabel /\ n.var # NoVar
      /\ stmt[ci].type = "match"
  BY DEF At, Fused, Fusable, IInv, TypeOK
<1>2. Clause.paths \in Seq(Paths(Types \cup {NoType}))  BY <1>1, ClauseType DEF Clause
<1>3. n \in NodePatterns
  <2>1. Clause.paths[1] \in Paths(Types \cup {NoType})  BY <1>1, <1>2
  <2>2. Clause.paths[1].nodes \in Seq(NodePatterns)  BY <2>1 DEF Paths
  <2>. QED  BY <1>1, <2>2
<1>. HIDE DEF n
<1>4. n.label \in Labels /\ n.var \in Vars  BY <1>1, <1>3 DEF NodePatterns
<1>5. w.key \in Keys /\ w.value \in Values  BY <1>1, ClauseType
<1>. QED  BY <1>1, <1>3, <1>4, <1>5 DEF n

\* What it binds.
LEMMA MatchWhereBinds ==
  ASSUME IInv, MatchWhere, NEW N, Finds(next_id, N), NEW R, context \in Held(next_id, N, R)
  PROVE  context' \in Held(next_id, N, R) /\ labels' \in [Vars -> Labels \cup {NoLabel}]
<1>. DEFINE n == Clause.paths[1].nodes[1]
            w == stmt[ci + 1]
            bag == FindNodesByProperty(view, n.label, w.key, w.value)
<1>1. At("match") /\ Fused /\ labels' = [labels EXCEPT ![n.var] = n.label]
  BY DEF MatchWhere
<1>2. PICK ids \in Orders(bag) : context' = [context EXCEPT ![n.var] = ids]
  BY DEF MatchWhere
<1>3. n.label \in Labels /\ n.var \in Vars /\ w.key \in Keys /\ w.value \in Values
  BY <1>1, FusedType
<1>. HIDE DEF n, w
<1>4. bag \in [Ids -> Nat]  BY <1>3, TypesBefore, LookupType
<1>5. \A i \in Ids : bag[i] > 0 => i \in N  BY <1>3 DEF Finds
<1>. HIDE DEF bag
<1>6. ids \in Seq(N)  BY <1>2, <1>4, <1>5, FoundIn
<1>7. N \subseteq 1..(next_id - 1)  BY DEF Finds
<1>8. context' \in Held(next_id, N, R)  BY <1>2, <1>3, <1>6, <1>7, TypesBefore, HeldBind
<1>9. labels' \in [Vars -> Labels \cup {NoLabel}]  BY <1>1, <1>3, TypesBefore
<1>. QED  BY <1>8, <1>9

\* MATCH and WHERE through the property index.
LEMMA MatchWhereStep ==
  ASSUME IInv, MatchWhere PROVE IInv'
<1>1. /\ At("match") /\ Fused /\ Advance(2)
      /\ view' = view /\ next_id' = next_id /\ loop' = loop /\ result' = result
  BY DEF MatchWhere
<1>2. context \in Held(next_id, 1..(next_id - 1), Vars) /\ Finds(next_id, 1..(next_id - 1))
  BY TypesBefore, AnyHeld
<1>3. context' \in Held(next_id, 1..(next_id - 1), Vars) /\ labels' \in [Vars -> Labels \cup {NoLabel}]
  BY <1>2, MatchWhereBinds
<1>4. context' \in Contexts(next_id)  BY <1>3, AnyHeld
<1>5. /\ ci \in DOMAIN stmt /\ ci + 1 \in DOMAIN stmt /\ stmt[ci].type = "match" /\ stmt[ci + 1].type = "where"
  BY <1>1, FusedType
<1>6. Advanced
  <2>1. ci \in Nat  BY DEF IInv, TypeOK
  <2>2. ci + 2 - 1 \in DOMAIN stmt  BY <1>5, <2>1
  <2>. QED  BY <1>1, <1>5, <2>2, AdvanceType
<1>7. db' = db /\ Sound(view, next_id)'  BY <1>1, TypesBefore DEF Advance
<1>. QED  BY <1>1, <1>3, <1>4, <1>6, <1>7, TypesBefore, WritesKeep

\* What WHERE leaves bound.
LEMMA WhereBinds ==
  ASSUME IInv, Where, NEW N, Finds(next_id, N), NEW R, context \in Held(next_id, N, R)
  PROVE  context' \in Held(next_id, N, R)
<1>. DEFINE v == Clause.var
            ids == Filtered(Clause, context[v])
<1>1. /\ At("where")
      /\ context' = IF context[v] = Unbound THEN context ELSE [context EXCEPT ![v] = ids]
  BY DEF Where
<1>2. v \in Vars /\ Clause.key \in Keys /\ Clause.value \in Values
  BY <1>1, ClauseType DEF At, Clause, IInv, TypeOK
<1>3. 1..(next_id - 1) \subseteq Ids /\ N \subseteq 1..(next_id - 1)
  BY TypesBefore, ConstantsAssumption DEF Ids, Finds
<1>4. CASE context[v] = Unbound  BY <1>1, <1>4
<1>5. CASE context[v] # Unbound
  <2>1. context[v] \in Seq(1..(next_id - 1)) /\ (v \in R \/ context[v] \in Seq(N))
    BY <1>2, <1>5 DEF Held, Contexts
  <2>2. \A X \in SUBSET Ids : context[v] \in Seq(X) => ids \in Seq(X)
    <3>1. ASSUME NEW X \in SUBSET Ids, context[v] \in Seq(X) PROVE ids \in Seq(X)
      BY <1>2, <3>1, TypesBefore, FilteredType
    <3>. QED  BY <3>1
  <2>. DEFINE A == 1..(next_id - 1)
  <2>3. A \in SUBSET Ids /\ N \in SUBSET Ids  BY <1>3
  <2>4. context[v] \in Seq(A)  BY <2>1
  <2>. HIDE DEF ids, v, A
  <2>5. ids \in Seq(A) /\ (v \in R \/ ids \in Seq(N))  BY <2>1, <2>2, <2>3, <2>4
  <2>6. ids \in Seq(N) \/ (v \in R /\ ids \in Seq(1..(next_id - 1)))  BY <2>5 DEF A
  <2>. QED  BY <1>1, <1>2, <1>3, <1>5, <2>6, TypesBefore, HeldBind
<1>. QED  BY <1>4, <1>5

\* WHERE as a filter.
LEMMA WhereStep ==
  ASSUME IInv, Where PROVE IInv'
<1>1. /\ At("where") /\ Advance(1) /\ view' = view /\ next_id' = next_id /\ loop' = loop /\ result' = result
      /\ labels' = labels
  BY DEF Where
<1>2. context \in Held(next_id, 1..(next_id - 1), Vars) /\ Finds(next_id, 1..(next_id - 1))
  BY TypesBefore, AnyHeld
<1>3. context' \in Held(next_id, 1..(next_id - 1), Vars)  BY <1>2, WhereBinds
<1>4. context' \in Contexts(next_id)  BY <1>3, AnyHeld
<1>5. Advanced  BY <1>1, AdvanceOne
<1>6. db' = db /\ Sound(view, next_id)'  BY <1>1, TypesBefore DEF Advance
<1>. QED  BY <1>1, <1>4, <1>5, <1>6, TypesBefore, WritesKeep

\* RETURN.
LEMMA ReturnStep ==
  ASSUME IInv, Return PROVE IInv'
<1>. DEFINE Row == PropMaps \cup EdgeRecs \cup {Absent}
            shown(v) == [k \in DOMAIN context[v] |-> Shown(context[v][k])]
<1>1. /\ At("return") /\ Advance(1) /\ view' = view /\ next_id' = next_id /\ loop' = loop
      /\ labels' = labels /\ context' = context
      /\ result' = [v \in Vars |-> IF v \in Clause.vars /\ context[v] # Unbound THEN shown(v) ELSE <<>>]
  BY DEF Return, memory
<1>2. ASSUME NEW v \in Vars, context[v] # Unbound PROVE shown(v) \in Seq(Row)
  <2>1. context[v] \in Seq(1..(next_id - 1))  BY <1>2, TypesBefore DEF Contexts
  <2>. DEFINE ids == context[v]
              m == Len(ids)
  <2>. HIDE DEF ids
  <2>2. m \in Nat /\ DOMAIN ids = 1..m  BY <2>1 DEF ids
  <2>3. \A i : Shown(i) \in Row  BY DEF Shown, LiveNode, LiveEdge
  <2>. HIDE DEF m, Row
  <2>4. [k \in 1..m |-> Shown(ids[k])] \in Seq(Row)  BY <2>2, <2>3
  <2>. QED  BY <2>2, <2>4 DEF ids
<1>. HIDE DEF shown
<1>3. result' \in [Vars -> Seq(Row)]
  <2>1. <<>> \in Seq(Row)  OBVIOUS
  <2>. HIDE DEF Row
  <2>. QED  BY <1>1, <1>2, <2>1
<1>4. Advanced  BY <1>1, AdvanceOne
<1>5. db' = db /\ Sound(view, next_id)'  BY <1>1, TypesBefore DEF Advance
<1>. QED  BY <1>1, <1>3, <1>4, <1>5, TypesBefore, WritesKeep

\* What execute_delete leaves behind.
LEMMA DeletedType ==
  ASSUME IInv, Delete
  PROVE  /\ [tables |-> view', context |-> context'] \in Deletings(view, context, next_id)
         /\ At("delete") /\ Advance(1) /\ UNCHANGED <<next_id, labels, loop, result>>
<1>. DEFINE env == FoldLeft(LAMBDA e, v : DeleteVariable(e, v, Clause.detach),
                            [tables |-> view, context |-> context], Clause.vars)
<1>1. /\ At("delete") /\ view' = env.tables /\ context' = env.context /\ Advance(1)
      /\ UNCHANGED <<next_id, labels, loop, result>>
  BY DEF Delete
<1>2. Clause.vars \in Seq(Vars) /\ Clause.detach \in BOOLEAN
  BY <1>1, ClauseType DEF At, Clause, IInv, TypeOK
<1>3. env \in Deletings(view, context, next_id)  BY <1>2, TypesBefore, DeleteVariablesType
<1>. HIDE DEF env
<1>4. env = [tables |-> env.tables, context |-> env.context]  BY <1>3 DEF Deletings
<1>. QED  BY <1>1, <1>3, <1>4

\* DELETE.
LEMMA DeleteStep ==
  ASSUME IInv, Delete PROVE IInv'
<1>1. /\ [tables |-> view', context |-> context'] \in Deletings(view, context, next_id)
      /\ At("delete") /\ Advance(1) /\ UNCHANGED <<next_id, labels, loop, result>>
  BY DeletedType
<1>2. Sound(view', next_id) /\ context' \in Contexts(next_id)  BY <1>1 DEF Deletings
<1>3. Advanced  BY <1>1, AdvanceOne
<1>4. db' = db /\ Sound(view, next_id)'  BY <1>1, <1>2 DEF Advance
<1>. QED  BY <1>1, <1>2, <1>3, <1>4, TypesBefore, WritesKeep

\* The ids an assignment reaches were handed out.
LEMMA AssigneesBelow ==
  ASSUME IInv, Clause.assignments \in Seq(Assignments)
  PROVE  Assignees \in SUBSET (1..(next_id - 1)) /\ Assignees \in SUBSET Ids
<1>1. ASSUME NEW a \in ToSet(Clause.assignments), context[a.var] # Unbound
      PROVE  ToSet(context[a.var]) \subseteq 1..(next_id - 1)
  <2>1. a \in Assignments  BY DEF ToSet
  <2>2. context[a.var] \in Seq(1..(next_id - 1))  BY <1>1, <2>1, TypesBefore DEF Assignments, Contexts
  <2>. DEFINE ids == context[a.var]
              A == 1..(next_id - 1)
  <2>3. ids \in Seq(A)  BY <2>2
  <2>. HIDE DEF ids, A
  <2>4. ToSet(ids) \subseteq A  BY <2>3 DEF ToSet
  <2>. QED  BY <2>4 DEF ids, A
<1>2. Assignees \subseteq 1..(next_id - 1)  BY <1>1 DEF Assignees
<1>3. 1..(next_id - 1) \subseteq Ids  BY TypesBefore, ConstantsAssumption DEF Ids
<1>. QED  BY <1>2, <1>3

\* What execute_set leaves behind.
LEMMA SetType ==
  ASSUME IInv, Set
  PROVE  /\ \E pending \in PendingMaps : view' \in Settings(view, next_id, pending)
         /\ At("set") /\ Advance(1) /\ UNCHANGED <<next_id, context, labels, loop, result>>
<1>. DEFINE pending == FoldLeft(AssignAll, NonePending, Clause.assignments)
<1>1. /\ At("set") /\ Advance(1) /\ UNCHANGED <<next_id, context, labels, loop, result>>
      /\ view' = FoldLeft(LAMBDA d, i : Written(d, i, pending[i]), view, ToSequence(Assignees))
  BY DEF Set, memory, NonePending
<1>2. Clause.assignments \in Seq(Assignments)
  BY <1>1, ClauseType DEF At, Clause, IInv, TypeOK
<1>3. pending \in PendingMaps  BY <1>2, TypesBefore, AssignmentsType
<1>. HIDE DEF pending
<1>4. ToSequence(Assignees) \in Seq(1..(next_id - 1))
  <2>1. ToSequence(Assignees) \in Seq(Assignees)  BY <1>2, AssigneesBelow, SequenceRange
  <2>2. Assignees \subseteq 1..(next_id - 1)  BY <1>2, AssigneesBelow
  <2>. QED  BY <2>1, <2>2, SeqMonotone
<1>5. view' \in Settings(view, next_id, pending)  BY <1>1, <1>3, <1>4, TypesBefore, WritesType
<1>. QED  BY <1>1, <1>3, <1>5

\* SET.
LEMMA SetStep ==
  ASSUME IInv, Set PROVE IInv'
<1>1. PICK pending \in PendingMaps : view' \in Settings(view, next_id, pending)  BY SetType
<1>2. At("set") /\ Advance(1) /\ UNCHANGED <<next_id, context, labels, loop, result>>  BY SetType
<1>3. Sound(view', next_id)  BY <1>1 DEF Settings
<1>4. Advanced  BY <1>2, AdvanceOne
<1>5. db' = db /\ Sound(view, next_id)'  BY <1>2, <1>3 DEF Advance
<1>. QED  BY <1>2, <1>4, <1>5, TypesBefore, WritesKeep

\* UNWIND.
LEMMA UnwindStep ==
  ASSUME IInv, Unwind PROVE IInv'
<1>1. /\ ci \in DOMAIN stmt /\ Clause.type = "unwind" /\ ci' = ci + 1
      /\ UNCHANGED <<db, stmt, queries, view, next_id, context, labels, result>>
      /\ loop' = IF loop.start = 0 /\ Clause.items # <<>>
                 THEN [start |-> ci + 1, items |-> Clause.items] ELSE loop
  BY DEF Unwind, At, Clause, Advance, memory
<1>2. stmt \in Statements \cup {<<>>} /\ ci \in 1..(Len(stmt) + 1)  BY DEF IInv, TypeOK
<1>3. Len(stmt) \in Nat /\ DOMAIN stmt = 1..Len(stmt)  BY <1>2, StatementType
<1>4. Clause.items \in Seq(PropMaps)  BY <1>1, <1>2, ClauseType DEF Clause
<1>5. ci' \in 1..(Len(stmt') + 1)  BY <1>1, <1>2, <1>3
<1>6. CASE loop.start = 0 /\ Clause.items # <<>>
  <2>1. loop' = [start |-> ci + 1, items |-> Clause.items] /\ ci + 1 # 0 /\ ci + 1 \in 0..(Len(stmt) + 1)
    BY <1>1, <1>2, <1>3, <1>6
  <2>2. loop' \in [start : 0..(Len(stmt') + 1), items : Seq(PropMaps)]  BY <1>1, <1>4, <2>1
  <2>3. LoopInv'
    <3>1. stmt # <<>>  BY <1>1
    <3>2. loop'.start # 0 /\ loop'.items # <<>>  BY <1>6, <2>1
    <3>. QED  BY <1>1, <3>1, <3>2 DEF LoopInv
  <2>3a. TypeOK'  BY <1>1, <1>5, <2>2 DEF IInv, TypeOK
  <2>. QED  BY <1>1, <2>3, <2>3a DEF IInv
<1>7. CASE ~(loop.start = 0 /\ Clause.items # <<>>)
  <2>1. loop' = loop  BY <1>1, <1>7
  <2>2. TypeOK'  BY <1>1, <1>5, <2>1 DEF IInv, TypeOK
  <2>3. LoopInv'  BY <1>1, <2>1 DEF IInv, LoopInv
  <2>. QED  BY <1>1, <2>2, <2>3 DEF IInv
<1>. QED  BY <1>6, <1>7

\* The next item of an UNWIND.
LEMMA NextItemStep ==
  ASSUME IInv, NextItem PROVE IInv'
<1>1. /\ stmt # <<>> /\ ci = Len(stmt) + 1 /\ loop.start # 0
      /\ context' = NoContext /\ labels' = NoLabels
      /\ UNCHANGED <<db, view, next_id, stmt, result, queries>>
  BY DEF NextItem
<1>2. stmt \in Statements \cup {<<>>} /\ ci \in 1..(Len(stmt) + 1) /\ Len(stmt) \in Nat
  BY StatementType DEF IInv, TypeOK
<1>3. loop.start \in 1..(Len(stmt) + 1) /\ loop.items \in Seq(PropMaps)
  BY <1>1, <1>2 DEF IInv, TypeOK
<1>4. context' \in Contexts(next_id) /\ labels' \in [Vars -> Labels \cup {NoLabel}]
  BY <1>1 DEF NoContext, NoLabels, Contexts
<1>5. /\ ci' \in 1..(Len(stmt') + 1)
      /\ loop' \in [start : 0..(Len(stmt') + 1), items : Seq(PropMaps)]
      /\ LoopInv'
  <2>1. CASE Len(loop.items) > 1
    <3>1. loop' = [loop EXCEPT !.items = Tail(loop.items)] /\ ci' = loop.start  BY <2>1 DEF NextItem
    <3>2. Tail(loop.items) \in Seq(PropMaps) /\ Tail(loop.items) # <<>>
      <4>1. loop.items # <<>> /\ Len(loop.items) \in Nat  BY <1>3, <2>1
      <4>. DEFINE P == PropMaps
                  items == loop.items
      <4>2. items \in Seq(P)  BY <1>3
      <4>. HIDE DEF P, items
      <4>3. Tail(items) \in Seq(P) /\ Len(Tail(items)) = Len(items) - 1  BY <4>1, <4>2 DEF items
      <4>4. Len(items) \in Nat /\ Len(items) > 1  BY <2>1, <4>1 DEF items
      <4>5. ASSUME Tail(items) = <<>> PROVE FALSE
        <5>. DEFINE t == Tail(items)
                    m == Len(items)
        <5>1. Len(t) = m - 1 /\ m \in Nat /\ m > 1 /\ t = <<>>  BY <4>3, <4>4, <4>5
        <5>2. Len(<<>>) = 0  OBVIOUS
        <5>. HIDE DEF t, m
        <5>. QED  BY ONLY <5>1, <5>2
      <4>. QED  BY <4>3, <4>5 DEF P, items
    <3>3. loop' = [start |-> loop.start, items |-> Tail(loop.items)]  BY <3>1 DEF IInv, TypeOK
    <3>4. LoopInv'
      <4>1. loop'.start # 0 /\ loop'.items # <<>>  BY <1>1, <3>2, <3>3
      <4>. QED  BY <1>1, <4>1 DEF LoopInv
    <3>5. ci' \in 1..(Len(stmt') + 1)  BY <1>1, <1>3, <3>1
    <3>6. loop' \in [start : 0..(Len(stmt') + 1), items : Seq(PropMaps)]  BY <1>1, <1>2, <1>3, <3>2, <3>3
    <3>. QED  BY <3>4, <3>5, <3>6
  <2>2. CASE ~(Len(loop.items) > 1)
    <3>1. loop' = NoLoop /\ ci' = ci  BY <2>2 DEF NextItem
    <3>2. ~(ci' <= Len(stmt'))  BY <1>1, <1>2, <3>1
    <3>3. LoopInv'  BY <3>1, <3>2 DEF LoopInv, NoLoop
    <3>4. ci' \in 1..(Len(stmt') + 1)  BY <1>1, <1>2, <3>1
    <3>5. loop' \in [start : 0..(Len(stmt') + 1), items : Seq(PropMaps)]  BY <1>1, <1>2, <3>1 DEF NoLoop
    <3>. QED  BY <3>3, <3>4, <3>5
  <2>. QED  BY <2>1, <2>2
<1>6. TypeOK'  BY <1>1, <1>4, <1>5 DEF IInv, TypeOK, Contexts
<1>. QED  BY <1>1, <1>5, <1>6 DEF IInv

\* Commit.
LEMMA FinishStep ==
  ASSUME IInv, Finish PROVE IInv'
<1>1. /\ stmt' = <<>> /\ ci' = 1 /\ loop.start = 0
      /\ UNCHANGED <<next_id, context, labels, loop, result, queries>>
      /\ (db' = view /\ view' = view) \/ (db' = db /\ view' = db)
  BY DEF Finish, memory
<1>2. Sound(db', next_id) /\ Sound(view', next_id) /\ db' \in Tables /\ view' \in Tables
  BY <1>1, TypesBefore
<1>3. loop' \in [start : 0..(Len(stmt') + 1), items : Seq(PropMaps)]  BY <1>1 DEF IInv, TypeOK
<1>4. TypeOK'  BY <1>1, <1>2, <1>3 DEF IInv, TypeOK
<1>5. LoopInv'  BY <1>1 DEF LoopInv
<1>. QED  BY <1>1, <1>2, <1>4, <1>5 DEF IInv

\* Nothing happens.
LEMMA StutterStep ==
  ASSUME IInv, UNCHANGED vars PROVE IInv'
<1>1. UNCHANGED <<db, view, next_id, stmt, ci, context, labels, loop, result, queries>>
  BY DEF vars, memory
<1>2. TypeOK'  BY <1>1 DEF IInv, TypeOK
<1>3. LoopInv'  BY <1>1 DEF IInv, LoopInv
<1>. QED  BY <1>1, <1>2, <1>3 DEF IInv

\* Every step of execute keeps the inductive invariant.
LEMMA Inductive == IInv /\ [Next]_vars => IInv'
<1>. SUFFICES ASSUME IInv, [Next]_vars PROVE IInv'
  OBVIOUS
<1>1. CASE \E s \in Statements : Submit(s)  BY <1>1, SubmitStep
<1>2. CASE Create  BY <1>2, CreateStep
<1>3. CASE CreateFails  BY <1>3, CreateFailsStep
<1>4. CASE Match  BY <1>4, MatchStep
<1>5. CASE MatchWhere  BY <1>5, MatchWhereStep
<1>6. CASE Where  BY <1>6, WhereStep
<1>7. CASE Return  BY <1>7, ReturnStep
<1>8. CASE Delete  BY <1>8, DeleteStep
<1>9. CASE Set  BY <1>9, SetStep
<1>10. CASE Unwind  BY <1>10, UnwindStep
<1>11. CASE NextItem  BY <1>11, NextItemStep
<1>12. CASE Finish  BY <1>12, FinishStep
<1>13. CASE UNCHANGED vars  BY <1>13, StutterStep
<1>. QED
  BY <1>1, <1>2, <1>3, <1>4, <1>5, <1>6, <1>7, <1>8, <1>9, <1>10, <1>11, <1>12, <1>13 DEF Next

\* The tables are sound in every reachable state: rows only below the next id,
\* adjacency lists that have just the live edges, indexes that list only nodes
\* that were made.  Whatever clauses execute runs, in whatever order.
THEOREM Invariance == Spec => []IInv
<1>1. Init => IInv  BY InitType
<1>2. IInv /\ [Next]_vars => IInv'  BY Inductive
<1>. QED  BY <1>1, <1>2, PTL DEF Spec

\* Type correctness of execute: tables, context, labels, rows and the position
\* in the statement.
THEOREM TypeCorrect == Spec => []TypeOK
<1>1. IInv => TypeOK  BY DEF IInv
<1>. QED  BY <1>1, Invariance, PTL

-----------------------------------------------------------------------------
(***************************************************************************)
(* What is deleted stays deleted.                                          *)
(***************************************************************************)

\* The rows that are empty before a step are empty after it.
StaysDeleted ==
  \A i \in Ids : /\ view.nodes[i] = Tombstone => view'.nodes[i] = Tombstone
                 /\ view.edges[i] = Tombstone => view'.edges[i] = Tombstone

\* CREATE writes only rows of new ids.
LEMMA CreateKeepsDeleted ==
  ASSUME IInv, Create PROVE StaysDeleted
<1>1. Created \in Creating(view, next_id) /\ view' = Created.tables  BY CreatedType DEF Create
<1>2. Same(view', view, next_id)  BY <1>1 DEF Creating
<1>3. \A i \in Ids : i >= next_id => view.nodes[i] = Absent /\ view.edges[i] = Absent
  BY TypesBefore DEF Sound, Rows
<1>4. Absent # Tombstone  BY ConstantsAssumption
<1>. QED  BY <1>2, <1>3, <1>4 DEF Same, StaysDeleted

\* DELETE writes no row but empty ones.
LEMMA DeleteKeepsDeleted ==
  ASSUME IInv, Delete PROVE StaysDeleted
<1>1. Emptied(view', view)  BY DeletedType DEF Deletings
<1>. QED  BY <1>1 DEF Emptied, StaysDeleted

\* SET skips empty rows.
LEMMA SetKeepsDeleted ==
  ASSUME IInv, Set PROVE StaysDeleted
<1>1. PICK pending \in PendingMaps : view' \in Settings(view, next_id, pending)  BY SetType
<1>2. ASSUME NEW i \in Ids, view.nodes[i] = Tombstone PROVE view'.nodes[i] = Tombstone
  <2>1. ~LiveNode(view, i)  BY <1>2, ConstantsAssumption DEF LiveNode
  <2>2. pending[i].value = Tombstone  BY <1>1, <2>1 DEF PendingMaps, Pendings
  <2>. QED  BY <1>1, <1>2, <2>2 DEF Settings
<1>3. view'.edges = view.edges  BY <1>1 DEF Settings
<1>. QED  BY <1>2, <1>3 DEF StaysDeleted

\* No transaction brings back what it has deleted: whatever clauses a statement
\* consists of and whatever they bind, a row that is empty stays empty until the
\* statement ends.
THEOREM DeletedStaysDeleted == Spec => NoResurrection
<1>1. ASSUME IInv, [Next]_vars, stmt' # <<>>, vars' # vars PROVE StaysDeleted
  <2>1. ASSUME view' = view PROVE StaysDeleted  BY <2>1 DEF StaysDeleted
  <2>2. ASSUME NEW s \in Statements, Submit(s) PROVE StaysDeleted  BY <2>1, <2>2 DEF Submit
  <2>3. CASE Create  BY <1>1, <2>3, CreateKeepsDeleted
  <2>4. CASE CreateFails  BY <1>1, <2>4 DEF CreateFails
  <2>5. CASE Match \/ MatchWhere \/ Where \/ Return \/ Unwind \/ NextItem
    BY <2>1, <2>5 DEF Match, MatchWhere, Where, Return, Unwind, NextItem
  <2>6. CASE Delete  BY <1>1, <2>6, DeleteKeepsDeleted
  <2>7. CASE Set  BY <1>1, <2>7, SetKeepsDeleted
  <2>8. CASE Finish  BY <1>1, <2>8 DEF Finish
  <2>9. CASE UNCHANGED vars  BY <1>1, <2>9
  <2>. QED  BY <1>1, <2>2, <2>3, <2>4, <2>5, <2>6, <2>7, <2>8, <2>9 DEF Next
<1>2. IInv /\ [Next]_vars =>
        [stmt' # <<>> => \A i \in Ids :
           /\ view.nodes[i] = Tombstone => view'.nodes[i] = Tombstone
           /\ view.edges[i] = Tombstone => view'.edges[i] = Tombstone]_vars
  BY <1>1 DEF StaysDeleted
<1>. QED  BY <1>2, Invariance, PTL DEF Spec, NoResurrection

-----------------------------------------------------------------------------
(***************************************************************************)
(* What SET computes for a live node.                                      *)
(***************************************************************************)

\* The properties of node i with the pending record p, and whether an assignment
\* a reaches it.
Current(p, i) == IF p[i].value = Tombstone THEN view.nodes[i] ELSE p[i].value
Reaches(a, i) == context[a.var] # Unbound /\ i \in ToSet(context[a.var])

\* The map a SET has for an id, pending or stored, is a property map if its
\* row has one.
LEMMA CurrentType ==
  ASSUME NEW p \in PendingMaps, NEW i \in Ids, LiveNode(view, i)
  PROVE  /\ Current(p, i) \in PropMaps /\ p[i] \in Pendings
         /\ p[i].value # Tombstone => p[i].value \in PropMaps /\ Current(p, i) = p[i].value
         /\ p[i].value = Tombstone => Current(p, i) = view.nodes[i]
<1>1. p[i] \in Pendings  BY DEF PendingMaps
<1>. QED  BY <1>1 DEF Current, Pendings, LiveNode

\* One assignment to one id.
LEMMA AssignedCurrent ==
  ASSUME NEW p \in PendingMaps, NEW a \in Assignments, NEW x \in Ids, NEW i \in Ids, LiveNode(view, i)
  PROVE  /\ x # i => Assigned(p, a, x)[i] = p[i]
         /\ x = i => Assigned(p, a, x)[i].value = [Current(p, i) EXCEPT ![a.key] = a.value]
<1>. DEFINE r == IF p[x].value # Tombstone THEN p[x]
                 ELSE [label |-> labels[a.var], value |-> IF LiveNode(view, x) THEN view.nodes[x] ELSE Tombstone]
            v == IF r.value = Tombstone THEN r.value ELSE [r.value EXCEPT ![a.key] = a.value]
<1>1. Assigned(p, a, x) = [p EXCEPT ![x] = [r EXCEPT !.value = v]]  BY DEF Assigned
<1>2. p \in [Ids -> Pendings]  BY DEF PendingMaps
<1>3. CASE x # i  BY <1>1, <1>2, <1>3
<1>4. CASE x = i
  <2>1. r.value = Current(p, i)
    <3>1. CASE p[i].value # Tombstone  BY <1>4, <3>1 DEF Current
    <3>2. CASE p[i].value = Tombstone  BY <1>4, <3>2 DEF Current
    <3>. QED  BY <3>1, <3>2
  <2>2. Current(p, i) # Tombstone  BY CurrentType, ConstantsAssumption
  <2>3. v = [Current(p, i) EXCEPT ![a.key] = a.value]  BY <2>1, <2>2
  <2>4. "value" \in DOMAIN r
    <3>1. p[x] \in Pendings  BY <1>2
    <3>. QED  BY <3>1 DEF Pendings
  <2>. HIDE DEF r, v
  <2>5. [r EXCEPT !.value = v].value = v  BY <2>4
  <2>6. Assigned(p, a, x)[i].value = v  BY <1>1, <1>2, <1>4, <2>5
  <2>. QED  BY <1>4, <2>3, <2>6
<1>. QED  BY <1>3, <1>4

\* One assignment to all ids of its variable: an id that is there twice gets the
\* value twice.
LEMMA AssignAllCurrent ==
  ASSUME NEW n \in Nat, n <= MaxId + 1, view \in Tables, labels \in [Vars -> Labels \cup {NoLabel}],
         context \in Contexts(n), NEW p \in PendingMaps, NEW a \in Assignments,
         NEW i \in Ids, LiveNode(view, i)
  PROVE  /\ ~Reaches(a, i) => AssignAll(p, a)[i] = p[i]
         /\ Reaches(a, i) => AssignAll(p, a)[i].value = [Current(p, i) EXCEPT ![a.key] = a.value]
<1>1. CASE context[a.var] = Unbound  BY <1>1 DEF AssignAll, Reaches
<1>2. CASE context[a.var] # Unbound
  <2>. DEFINE ids == context[a.var]
              m == Len(ids)
              new == [Current(p, i) EXCEPT ![a.key] = a.value]
  <2>1. ids \in Seq(1..(n - 1))  BY <1>2 DEF Contexts, Assignments
  <2>2. m \in Nat /\ DOMAIN ids = 1..m /\ (\A k \in 1..m : ids[k] \in Ids)
        /\ ToSet(ids) = {ids[k] : k \in 1..m}
    BY <2>1, ConstantsAssumption DEF Ids, ToSet
  <2>2a. Reaches(a, i) <=> \E k \in 1..m : ids[k] = i  BY <1>2, <2>2 DEF Reaches
  <2>. HIDE DEF ids, m
  <2>3. \A k \in 1..m : \A e \in PendingMaps : Assigned(e, a, ids[k]) \in PendingMaps
    BY <2>2, AssignedType
  <2>4. \E f \in [0..m -> PendingMaps] : AssignIdsSteps(f, m, ids, a, p)
    BY <2>2, <2>3, AssignIdsFold
  <2>5. PICK f \in [0..m -> PendingMaps] : AssignIdsSteps(f, m, ids, a, p)  BY <2>4
  <2>6. AssignAll(p, a) = f[m]  BY <1>2, <2>5, Zenon DEF AssignIdsSteps, AssignAll, ids
  <2>7. f[0] = p /\ \A k \in 1..m : f[k] = Assigned(f[k - 1], a, ids[k])  BY <2>5 DEF AssignIdsSteps
  <2>8. new \in PropMaps /\ new # Tombstone /\ [new EXCEPT ![a.key] = a.value] = new
    <3>1. Current(p, i) \in [Keys -> Values \cup {NoValue}]  BY CurrentType DEF PropMaps
    <3>2. a.key \in Keys /\ a.value \in Values  BY DEF Assignments
    <3>3. new \in [Keys -> Values \cup {NoValue}]  BY <3>1, <3>2
    <3>4. [new EXCEPT ![a.key] = a.value] = new  BY <3>1, <3>2
    <3>. QED  BY <3>3, <3>4, ConstantsAssumption DEF PropMaps
  <2>. HIDE DEF new
  <2>. DEFINE T == {k \in 0..m : IF \E x \in 1..k : ids[x] = i THEN f[k][i].value = new ELSE f[k][i] = p[i]}
  <2>9. 0 \in T  BY <2>2, <2>7
  <2>10. ASSUME NEW k \in 1..m, k - 1 \in T PROVE k \in T
    <3>. DEFINE q == f[k - 1]
                c == f[k]
    <3>1. q \in PendingMaps /\ c = Assigned(q, a, ids[k]) /\ ids[k] \in Ids  BY <2>2, <2>7
    <3>2. /\ ids[k] # i => c[i] = q[i]
          /\ ids[k] = i => c[i].value = [Current(q, i) EXCEPT ![a.key] = a.value]
      BY <3>1, AssignedCurrent
    <3>3. (\E x \in 1..k : ids[x] = i) <=> (ids[k] = i \/ \E x \in 1..(k - 1) : ids[x] = i)  BY <2>2
    <3>4. IF \E x \in 1..(k - 1) : ids[x] = i THEN q[i].value = new ELSE q[i] = p[i]  BY <2>10
    <3>. HIDE DEF q, c
    <3>5. CASE ids[k] # i
      <4>1. IF \E x \in 1..k : ids[x] = i THEN c[i].value = new ELSE c[i] = p[i]  BY <3>2, <3>3, <3>4, <3>5
      <4>. QED  BY <4>1 DEF c
    <3>6. CASE ids[k] = i
      <4>1. c[i].value = [Current(q, i) EXCEPT ![a.key] = a.value]  BY <3>2, <3>6
      <4>2. CASE \E x \in 1..(k - 1) : ids[x] = i
        <5>1. Current(q, i) = new  BY <2>8, <3>4, <4>2 DEF Current
        <5>2. c[i].value = new  BY <2>8, <4>1, <5>1
        <5>. QED  BY <3>6, <5>2 DEF c
      <4>3. CASE ~\E x \in 1..(k - 1) : ids[x] = i
        <5>1. Current(q, i) = Current(p, i)  BY <3>4, <4>3 DEF Current
        <5>2. c[i].value = new  BY <4>1, <5>1 DEF new
        <5>. QED  BY <3>6, <5>2 DEF c
      <4>. QED  BY <4>2, <4>3
    <3>. QED  BY <3>5, <3>6
  <2>. HIDE DEF T
  <2>11. T \in SUBSET (0..m) /\ m \in Nat  BY <2>2 DEF T
  <2>12. T = 0..m  BY <2>9, <2>10, <2>11, StepInduction
  <2>13. m \in T  BY <2>11, <2>12
  <2>14. IF \E x \in 1..m : ids[x] = i THEN f[m][i].value = new ELSE f[m][i] = p[i]  BY <2>13 DEF T
  <2>. QED  BY <2>2a, <2>6, <2>14 DEF new
<1>. QED  BY <1>1, <1>2

\* The first j assignments of a list that write key k of node i, whether one of
\* them reaches it at all, and what they leave in the pending map.
Reaching(list, j, i, k) == {x \in 1..j : list[x].key = k /\ Reaches(list[x], i)}
Touched(list, j, i) == \E x \in 1..j : Reaches(list[x], i)
LastValue(list, j, i, k) ==
  IF Reaching(list, j, i, k) = {} THEN view.nodes[i][k] ELSE list[Max(Reaching(list, j, i, k))].value
Applied(p, list, j, i) ==
  /\ p[i].value # Tombstone <=> Touched(list, j, i)
  /\ \A k \in Keys : Current(p, i)[k] = LastValue(list, j, i, k)

\* The last assignment to a key, after one more.
LEMMA LastValueStep ==
  ASSUME NEW list, NEW j \in Nat, j >= 1, NEW i, NEW k
  PROVE  LastValue(list, j, i, k) =
           IF Reaches(list[j], i) /\ list[j].key = k THEN list[j].value ELSE LastValue(list, j - 1, i, k)
<1>. DEFINE R == Reaching(list, j, i, k)
            S == Reaching(list, j - 1, i, k)
<1>1. CASE Reaches(list[j], i) /\ list[j].key = k
  <2>1. j \in R /\ R \in SUBSET (1..j) /\ R # {}  BY <1>1 DEF Reaching
  <2>2. \A x \in R : x <= Max(R)  BY <2>1, MaxOfPositions
  <2>3. Max(R) \in R  BY <2>1, MaxOfPositions
  <2>. HIDE DEF R
  <2>4. Max(R) = j
    <3>. DEFINE m == Max(R)
    <3>1. m \in 1..j /\ j <= m  BY <2>1, <2>2, <2>3
    <3>. HIDE DEF m
    <3>2. m = j  BY <3>1
    <3>. QED  BY <3>2 DEF m
  <2>. QED  BY <1>1, <2>1, <2>4 DEF LastValue, R
<1>2. CASE ~(Reaches(list[j], i) /\ list[j].key = k)
  <2>1. R = S
    <3>1. 1..j = 1..(j - 1) \cup {j}  OBVIOUS
    <3>. QED  BY <1>2, <3>1 DEF Reaching
  <2>. HIDE DEF R, S
  <2>. QED  BY <1>2, <2>1 DEF LastValue, R, S
<1>. QED  BY <1>1, <1>2

\* One assignment of the list.
LEMMA AppliedStep ==
  ASSUME NEW n \in Nat, n <= MaxId + 1, view \in Tables, labels \in [Vars -> Labels \cup {NoLabel}],
         context \in Contexts(n), NEW p \in PendingMaps, NEW i \in Ids, LiveNode(view, i),
         NEW list, NEW j \in Nat, j >= 1, list[j] \in Assignments, Applied(p, list, j - 1, i)
  PROVE  Applied(AssignAll(p, list[j]), list, j, i)
<1>. DEFINE a == list[j]
            q == AssignAll(p, a)
<1>1. /\ ~Reaches(a, i) => q[i] = p[i]
      /\ Reaches(a, i) => q[i].value = [Current(p, i) EXCEPT ![a.key] = a.value]
  BY AssignAllCurrent
<1>2. q \in PendingMaps  BY AssignAllType
<1>. HIDE DEF q
<1>3. Current(p, i) \in [Keys -> Values \cup {NoValue}]  BY CurrentType DEF PropMaps
<1>4. Touched(list, j, i) <=> Reaches(a, i) \/ Touched(list, j - 1, i)
  <2>1. 1..j = 1..(j - 1) \cup {j}  OBVIOUS
  <2>. QED  BY <2>1 DEF Touched
<1>5. CASE Reaches(a, i)
  <2>1. q[i].value \in PropMaps
    <3>1. a.key \in Keys /\ a.value \in Values  BY DEF Assignments
    <3>. QED  BY <1>1, <1>3, <1>5, <3>1 DEF PropMaps
  <2>2. q[i].value # Tombstone /\ Current(q, i) = [Current(p, i) EXCEPT ![a.key] = a.value]
    BY <1>1, <1>5, <2>1, ConstantsAssumption DEF Current
  <2>3. ASSUME NEW k \in Keys PROVE Current(q, i)[k] = LastValue(list, j, i, k)
    <3>1. Current(p, i)[k] = LastValue(list, j - 1, i, k)  BY DEF Applied
    <3>2. Current(q, i)[k] = IF a.key = k THEN a.value ELSE Current(p, i)[k]  BY <1>3, <2>2
    <3>. QED  BY <1>5, <3>1, <3>2, LastValueStep
  <2>. QED  BY <1>4, <1>5, <2>2, <2>3 DEF Applied, q
<1>6. CASE ~Reaches(a, i)
  <2>1. q[i] = p[i] /\ Current(q, i) = Current(p, i)  BY <1>1, <1>6 DEF Current
  <2>2. ASSUME NEW k \in Keys PROVE Current(q, i)[k] = LastValue(list, j, i, k)
    <3>1. Current(p, i)[k] = LastValue(list, j - 1, i, k)  BY DEF Applied
    <3>. QED  BY <1>6, <2>1, <3>1, LastValueStep
  <2>. QED  BY <1>4, <1>6, <2>1, <2>2 DEF Applied, q
<1>. QED  BY <1>5, <1>6

\* The pending map after all assignments.
LEMMA AssignmentsApplied ==
  ASSUME NEW n \in Nat, n <= MaxId + 1, view \in Tables, labels \in [Vars -> Labels \cup {NoLabel}],
         context \in Contexts(n), NEW list \in Seq(Assignments), NEW i \in Ids, LiveNode(view, i)
  PROVE  Applied(FoldLeft(AssignAll, NonePending, list), list, Len(list), i)
<1>. DEFINE m == Len(list)
<1>1. m \in Nat /\ DOMAIN list = 1..m /\ \A k \in 1..m : list[k] \in Assignments
  <2>1. m \in Nat  BY ONLY list \in Seq(Assignments)
  <2>2. DOMAIN list = 1..m  BY ONLY list \in Seq(Assignments)
  <2>3. ASSUME NEW k \in 1..m PROVE list[k] \in Assignments  BY ONLY list \in Seq(Assignments), k \in 1..m
  <2>. QED  BY <2>1, <2>2, <2>3
<1>2. \A k \in 1..m : \A e \in PendingMaps : AssignAll(e, list[k]) \in PendingMaps
  BY <1>1, AssignAllType
<1>3. NonePending \in PendingMaps
  BY ConstantsAssumption DEF NonePending, PendingMaps, Pendings
<1>. HIDE DEF m
<1>4. \E f \in [0..m -> PendingMaps] : AssignmentsSteps(f, m, list, NonePending)
  BY <1>1, <1>2, <1>3, AssignmentsFold
<1>5. PICK f \in [0..m -> PendingMaps] : AssignmentsSteps(f, m, list, NonePending)  BY <1>4
<1>6. /\ f[0] = NonePending /\ \A k \in 1..m : f[k] = AssignAll(f[k - 1], list[k])
      /\ FoldLeft(AssignAll, NonePending, list) = f[m]
  BY <1>5 DEF AssignmentsSteps
<1>. DEFINE T == {k \in 0..m : Applied(f[k], list, k, i)}
<1>7. 0 \in T
  <2>1. Reaching(list, 0, i, 0) = {} /\ ~Touched(list, 0, i)  BY DEF Reaching, Touched
  <2>2. \A k : Reaching(list, 0, i, k) = {}  BY DEF Reaching
  <2>3. f[0][i].value = Tombstone  BY <1>6 DEF NonePending
  <2>4. Applied(f[0], list, 0, i)  BY <2>1, <2>2, <2>3 DEF Applied, Current, LastValue
  <2>. QED  BY <1>1, <2>4
<1>8. ASSUME NEW k \in 1..m, k - 1 \in T PROVE k \in T
  <2>1. f[k - 1] \in PendingMaps /\ Applied(f[k - 1], list, k - 1, i)  BY <1>1, <1>8
  <2>2. f[k] = AssignAll(f[k - 1], list[k]) /\ list[k] \in Assignments  BY <1>1, <1>6
  <2>. DEFINE p == f[k - 1]
  <2>3. p \in PendingMaps /\ Applied(p, list, k - 1, i) /\ f[k] = AssignAll(p, list[k])  BY <2>1, <2>2
  <2>. HIDE DEF p
  <2>4. Applied(AssignAll(p, list[k]), list, k, i)  BY <1>1, <2>2, <2>3, AppliedStep
  <2>. QED  BY <2>3, <2>4
<1>. HIDE DEF T
<1>9. T \in SUBSET (0..m)  BY DEF T
<1>10. T = 0..m  BY <1>1, <1>7, <1>8, <1>9, StepInduction
<1>11. Applied(f[m], list, m, i)  BY <1>1, <1>10 DEF T
<1>. QED  BY <1>6, <1>11 DEF m

\* The second phase writes exactly the records of its ids.
LEMMA WritesExactly ==
  ASSUME NEW n \in Nat, n <= MaxId + 1, Sound(view, n), NEW pending \in PendingMaps,
         NEW ids \in Seq(1..(n - 1)), NEW i \in Ids
  PROVE  FoldLeft(LAMBDA d, x : Written(d, x, pending[x]), view, ids).nodes[i] =
           IF i \in ToSet(ids) THEN pending[i].value ELSE view.nodes[i]
<1>. DEFINE m == Len(ids)
            S == Tables
<1>1. /\ m \in Nat /\ DOMAIN ids = 1..m /\ \A k \in 1..m : ids[k] \in Ids
      /\ ToSet(ids) = {ids[k] : k \in 1..m}
  <2>1. m \in Nat /\ DOMAIN ids = 1..m /\ \A k \in 1..m : ids[k] \in Ids
    BY ConstantsAssumption DEF Ids
  <2>2. ToSet(ids) = {ids[k] : k \in 1..m}  BY ONLY <2>1 DEF ToSet
  <2>. QED  BY <2>1, <2>2
<1>. HIDE DEF m
<1>2. ASSUME NEW k \in 1..m, NEW e \in S
      PROVE  /\ Written(e, ids[k], pending[ids[k]]) \in S
             /\ Written(e, ids[k], pending[ids[k]]).nodes = [e.nodes EXCEPT ![ids[k]] = pending[ids[k]].value]
  BY <1>1, WrittenWrites DEF PendingMaps
<1>3. \A k \in 1..m : \A e \in S : Written(e, ids[k], pending[ids[k]]) \in S  BY <1>2
<1>4. view \in S  BY DEF Sound
<1>5. \E f \in [0..m -> S] : WriteSteps(f, m, ids, pending, view)
  <2>. HIDE DEF S
  <2>. QED  BY ONLY <1>1, <1>3, <1>4, WriteFold
<1>6. PICK f \in [0..m -> S] : WriteSteps(f, m, ids, pending, view)  BY <1>5
<1>7. FoldLeft(LAMBDA d, x : Written(d, x, pending[x]), view, ids) = f[m]  BY <1>6, Zenon DEF WriteSteps
<1>8. f[0] = view /\ \A k \in 1..m : f[k] = Written(f[k - 1], ids[k], pending[ids[k]])
  BY <1>6 DEF WriteSteps
<1>. DEFINE T == {k \in 0..m : f[k].nodes[i] = IF \E x \in 1..k : ids[x] = i THEN pending[i].value
                                                 ELSE view.nodes[i]}
<1>9. 0 \in T  BY <1>1, <1>8
<1>10. ASSUME NEW k \in 1..m, k - 1 \in T PROVE k \in T
  <2>. DEFINE e == f[k - 1]
  <2>1. e \in S  BY <1>1
  <2>2. e.nodes[i] = IF \E x \in 1..(k - 1) : ids[x] = i THEN pending[i].value ELSE view.nodes[i]  BY <1>10
  <2>3. f[k] = Written(e, ids[k], pending[ids[k]])  BY <1>8
  <2>. HIDE DEF e
  <2>4. f[k].nodes = [e.nodes EXCEPT ![ids[k]] = pending[ids[k]].value]  BY <1>2, <2>1, <2>3
  <2>5. e.nodes \in [Ids -> PropMaps \cup {Absent, Tombstone}]  BY <2>1 DEF Tables
  <2>6. f[k].nodes[i] = IF ids[k] = i THEN pending[i].value ELSE e.nodes[i]  BY <2>4, <2>5
  <2>7. (\E x \in 1..k : ids[x] = i) <=> (ids[k] = i \/ \E x \in 1..(k - 1) : ids[x] = i)  BY <1>1
  <2>. QED  BY <2>2, <2>6, <2>7
<1>. HIDE DEF T
<1>11. T \in SUBSET (0..m)  BY DEF T
<1>12. T = 0..m  BY <1>1, <1>9, <1>10, <1>11, StepInduction
<1>13. f[m].nodes[i] = IF \E x \in 1..m : ids[x] = i THEN pending[i].value ELSE view.nodes[i]
  BY <1>1, <1>12 DEF T
<1>14. i \in ToSet(ids) <=> \E x \in 1..m : ids[x] = i  BY <1>1
<1>. HIDE DEF S
<1>. QED  BY <1>7, <1>13, <1>14, Zenon

\* The row of a live node after a SET.
LEMMA SetRows ==
  ASSUME IInv, Set, NEW i \in Ids, LiveNode(view, i), NEW k \in Keys
  PROVE  /\ Clause.assignments \in Seq(Assignments)
         /\ view'.nodes[i][k] = LastValue(Clause.assignments, Len(Clause.assignments), i, k)
<1>. DEFINE list == Clause.assignments
            m == Len(list)
            pending == FoldLeft(AssignAll, NonePending, list)
<1>1. /\ At("set")
      /\ view' = FoldLeft(LAMBDA d, x : Written(d, x, pending[x]), view, ToSequence(Assignees))
  BY DEF Set, NonePending
<1>2. list \in Seq(Assignments)
  BY <1>1, ClauseType DEF At, Clause, IInv, TypeOK
<1>3. pending \in PendingMaps  BY <1>2, TypesBefore, AssignmentsType
<1>4. Applied(pending, list, m, i)  BY <1>2, TypesBefore, AssignmentsApplied
<1>. HIDE DEF pending
<1>5. ToSequence(Assignees) \in Seq(1..(next_id - 1)) /\ ToSet(ToSequence(Assignees)) = Assignees
  <2>1. ToSequence(Assignees) \in Seq(Assignees) /\ ToSet(ToSequence(Assignees)) = Assignees
    BY <1>2, AssigneesBelow, SequenceRange
  <2>2. Assignees \subseteq 1..(next_id - 1)  BY <1>2, AssigneesBelow
  <2>. QED  BY <2>1, <2>2, SeqMonotone
<1>6. view'.nodes[i] = IF i \in Assignees THEN pending[i].value ELSE view.nodes[i]
  BY <1>1, <1>3, <1>5, TypesBefore, WritesExactly
<1>7. i \in Assignees <=> Touched(list, m, i)
  <2>. HIDE DEF list
  <2>1. ToSet(list) = {list[x] : x \in 1..m}  BY <1>2 DEF ToSet
  <2>2. i \in Assignees <=> \E a \in ToSet(list) : context[a.var] # Unbound /\ i \in ToSet(context[a.var])
    BY DEF Assignees, list
  <2>. QED  BY <2>1, <2>2 DEF Touched, Reaches
<1>8. view'.nodes[i] = Current(pending, i)  BY <1>4, <1>6, <1>7 DEF Applied, Current
<1>. QED  BY <1>2, <1>4, <1>8 DEF Applied

\* After SET every live node an assignment reached has the value of the last one
\* to each key, also when several variables meet in one node.
THEOREM SetIsExact == Spec => SetAppliesAll
<1>1. ASSUME IInv, Set, NEW i \in Ids, LiveNode(view, i), NEW k \in Keys
      PROVE  LET as == Clause.assignments
                 reaching == {j \in DOMAIN as : /\ as[j].key = k /\ context[as[j].var] # Unbound
                                                /\ i \in ToSet(context[as[j].var])}
             IN  view'.nodes[i][k] = IF reaching = {} THEN view.nodes[i][k] ELSE as[Max(reaching)].value
  <2>. DEFINE list == Clause.assignments
  <2>1. /\ list \in Seq(Assignments)
        /\ view'.nodes[i][k] = LastValue(list, Len(list), i, k)
    BY <1>1, SetRows
  <2>. HIDE DEF list
  <2>2. DOMAIN list = 1..Len(list)  BY <2>1
  <2>3. Reaching(list, Len(list), i, k)
          = {j \in DOMAIN list : /\ list[j].key = k /\ context[list[j].var] # Unbound
                                 /\ i \in ToSet(context[list[j].var])}
    BY <2>2 DEF Reaching, Reaches
  <2>4. LastValue(list, Len(list), i, k)
          = IF Reaching(list, Len(list), i, k) = {} THEN view.nodes[i][k]
            ELSE list[Max(Reaching(list, Len(list), i, k))].value
    BY DEF LastValue
  <2>. QED  BY <2>1, <2>3, <2>4, Zenon DEF list
<1>2. IInv /\ [Next]_vars => 
       [Set => \A i \in Ids : LiveNode(view, i) =>
         \A k \in Keys :
           LET as == Clause.assignments
               reaching == {j \in DOMAIN as : /\ as[j].key = k /\ context[as[j].var] # Unbound
                                              /\ i \in ToSet(context[as[j].var])}
           IN  view'.nodes[i][k] = IF reaching = {} THEN view.nodes[i][k] ELSE as[Max(reaching)].value]_vars
  BY <1>1, Zenon
<1>. QED  BY <1>2, Invariance, PTL DEF Spec, SetAppliesAll

-----------------------------------------------------------------------------
(***************************************************************************)
(* What CREATE joins.  R is a set of variables that may hold edges: the    *)
(* variables of relationship patterns.                                     *)
(***************************************************************************)

\* The ids with a record in the node table, deleted or not, and the tables whose
\* live edges join such records.
Present(d) == {i \in Ids : d.nodes[i] # Absent}
Joined(d) == \A e \in Ids : LiveEdge(d, e) => d.edges[e].from \in Present(d) /\ d.edges[e].to \in Present(d)

\* What CREATE works on as long as the allocator has ids.
Building(d, n, R) ==
  {e \in Creating(d, n) : e.id <= MaxId + 1 => Joined(e.tables) /\ e.context \in Held(e.id, Present(e.tables), R)}

\* What was made stays: the rows, and the first node of a variable.
Grows(b, e, R) ==
  /\ e.id <= b.id /\ Same(b.tables, e.tables, e.id)
  /\ \A v \in Vars : v \notin R /\ Holds(e.context, v) => Holds(b.context, v) /\ b.context[v][1] = e.context[v][1]

\* Building twice is building.
LEMMA GrowsTransitive ==
  ASSUME NEW R, NEW a, NEW b, NEW c, a.id \in Nat, b.id \in Nat, c.id \in Nat, Grows(b, a, R), Grows(c, b, R)
  PROVE  Grows(c, a, R)
<1>1. a.id <= b.id /\ b.id <= c.id /\ Same(b.tables, a.tables, a.id) /\ Same(c.tables, b.tables, b.id)
  BY DEF Grows
<1>2. Same(c.tables, a.tables, a.id)
  <2>1. \A i \in Ids : i \in Nat  BY ConstantsAssumption DEF Ids
  <2>2. \A i \in Ids : ~(i >= a.id) => ~(i >= b.id)  BY <1>1, <2>1
  <2>. QED  BY <1>1, <2>2 DEF Same
<1>3. \A v \in Vars : v \notin R /\ Holds(a.context, v) => Holds(c.context, v) /\ c.context[v][1] = a.context[v][1]
  BY DEF Grows
<1>4. a.id <= c.id  BY <1>1
<1>. QED  BY <1>2, <1>3, <1>4 DEF Grows

\* More may be held later.
LEMMA HeldMonotone ==
  ASSUME NEW n \in Nat, NEW m \in Nat, n <= m, NEW N, NEW M, N \subseteq M, NEW R, NEW ctx \in Held(n, N, R)
  PROVE  ctx \in Held(m, M, R)
<1>1. ctx \in Contexts(m)  BY ContextMonotone DEF Held
<1>2. ASSUME NEW v \in Vars PROVE v \in R \/ ctx[v] = Unbound \/ ctx[v] \in Seq(M)
  <2>1. v \in R \/ ctx[v] = Unbound \/ ctx[v] \in Seq(N)  BY DEF Held
  <2>. QED  BY <2>1, SeqMonotone
<1>. QED  BY <1>1, <1>2 DEF Held

\* The records of nodes were handed out.
LEMMA PresentBelow ==
  ASSUME NEW d, NEW n \in Nat, Sound(d, n)
  PROVE  Present(d) \subseteq 1..(n - 1)
<1>1. ASSUME NEW i \in Present(d) PROVE i \in 1..(n - 1)
  <2>1. i \in Ids /\ d.nodes[i] # Absent  BY DEF Present
  <2>. QED  BY <2>1, ListedBelow
<1>. QED  BY <1>1

\* Tables whose live edges were live, and whose nodes were not lost.
LEMMA JoinedFrame ==
  ASSUME NEW c, NEW d, Joined(d), Present(d) \subseteq Present(c),
         \A e \in Ids : LiveEdge(c, e) => c.edges[e] = d.edges[e]
  PROVE  Joined(c)
  BY DEF Joined, LiveEdge

\* What a node pattern resolves to.
Resolved(b, env, p, R) ==
  /\ Grows(b, env, R)
  /\ b.id <= MaxId + 1 => b.node \in Present(b.tables)
  /\ p.var # NoVar => Holds(b.context, p.var) /\ b.context[p.var][1] = b.node

\* The node of a pattern is present, whether it is a new one or the one its
\* variable holds.
LEMMA NodeForBuilds ==
  ASSUME NEW d, NEW n \in Nat, n >= 1, NEW R, NEW env \in Building(d, n, R), NEW p \in NodePatterns,
         Evaluable(p.props), p.var \notin R
  PROVE  NodeFor(env, p) \in Building(d, n, R) /\ Resolved(NodeFor(env, p), env, p, R)
<1>0. /\ env.id \in Nat /\ n <= env.id /\ Sound(env.tables, env.id) /\ env.context \in Contexts(env.id)
      /\ env.tables \in Tables /\ env \in Creating(d, n)
      /\ p.var \in Vars \cup {NoVar} /\ p.label \in Labels \cup {NoLabel}
      /\ env = [tables |-> env.tables, id |-> env.id, context |-> env.context, node |-> env.node]
  BY DEF Building, Creating, NodePatterns
<1>. DEFINE b == NodeFor(env, p)
<1>1. b \in Creating(d, n)  BY <1>0, NodeForType
<1>2. CASE Holds(env.context, p.var)
  <2>. DEFINE x == env.context[p.var][1]
  <2>1. b = [tables |-> env.tables, id |-> env.id, context |-> env.context, node |-> x]
    BY <1>0, <1>2 DEF NodeFor
  <2>2. b \in Building(d, n, R)  BY <1>0, <1>1, <2>1 DEF Building
  <2>3. Grows(b, env, R)  BY <1>0, <2>1 DEF Grows, Same
  <2>4. ASSUME b.id <= MaxId + 1 PROVE x \in Present(b.tables)
    <3>1. env.context \in Held(env.id, Present(env.tables), R)  BY <2>1, <2>4 DEF Building
    <3>2. p.var \in Vars /\ env.context[p.var] # Unbound /\ env.context[p.var] # <<>>  BY <1>0, <1>2 DEF Holds
    <3>. DEFINE s == env.context[p.var]
                N == Present(env.tables)
    <3>3. s \in Seq(N) /\ s # <<>>  BY <3>1, <3>2 DEF Held
    <3>. HIDE DEF s, N
    <3>4. s[1] \in N  BY <3>3
    <3>. QED  BY <2>1, <3>4 DEF s, N
  <2>5. b.node = x /\ b.context = env.context  BY <2>1
  <2>. QED  BY <1>2, <2>2, <2>3, <2>4, <2>5 DEF Resolved
<1>3. CASE ~Holds(env.context, p.var)
  <2>. DEFINE t == IF env.id \in Ids THEN CreateNodeRow(env.tables, env.id, p.label, Evaluated(p.props))
                   ELSE env.tables
              ctx == Bind(env.context, p.var, <<env.id>>)
  <2>1. b = [tables |-> t, id |-> env.id + 1, context |-> ctx, node |-> env.id]
    BY <1>3 DEF NodeFor
  <2>2. /\ env.id \in Ids => t.nodes = [env.tables.nodes EXCEPT ![env.id] = Evaluated(p.props)]
        /\ t.edges = env.tables.edges
        /\ env.id \notin Ids => t = env.tables
    <3>1. CASE env.id \in Ids
      <4>1. t = CreateNodeRow(env.tables, env.id, p.label, Evaluated(p.props))  BY <3>1
      <4>. HIDE DEF t
      <4>. QED  BY <1>0, <3>1, <4>1 DEF CreateNodeRow, Tables
    <3>2. CASE env.id \notin Ids  BY <3>2
    <3>. QED  BY <3>1, <3>2
  <2>. HIDE DEF t
  <2>2a. env.tables.nodes \in [Ids -> PropMaps \cup {Absent, Tombstone}]  BY <1>0 DEF Tables
  <2>3. Same(t, env.tables, env.id)
    <3>1. ASSUME NEW i \in Ids, ~(i >= env.id) PROVE t.nodes[i] = env.tables.nodes[i]
      <4>1. i # env.id  BY <1>0, <3>1
      <4>. QED  BY <2>2, <2>2a, <4>1
    <3>. QED  BY <2>2, <3>1 DEF Same
  <2>4. ASSUME NEW v \in Vars, Holds(env.context, v) PROVE ctx[v] = env.context[v]
    <3>1. v # p.var  BY <1>3, <2>4
    <3>. QED  BY <1>0, <3>1 DEF Bind, Contexts
  <2>5. p.var # NoVar => ctx[p.var] = <<env.id>>  BY <1>0 DEF Bind, Contexts
  <2>6. ASSUME env.id + 1 <= MaxId + 1
        PROVE  /\ env.id \in Present(t) /\ Joined(t)
               /\ ctx \in Held(env.id + 1, Present(t), R)
    <3>1. env.id \in Ids /\ env.id <= MaxId + 1  BY <1>0, <2>6, ConstantsAssumption DEF Ids
    <3>2. Evaluated(p.props) \in PropMaps  BY EvaluatedType
    <3>3. env.id \in Present(t)  BY <2>2, <2>2a, <3>1, <3>2, ConstantsAssumption DEF Present
    <3>4. Present(env.tables) \subseteq Present(t)
      <4>1. ASSUME NEW i \in Present(env.tables) PROVE i \in Present(t)
        <5>1. CASE i = env.id  BY <3>3, <5>1
        <5>2. CASE i # env.id  BY <2>2, <2>2a, <3>1, <5>2 DEF Present
        <5>. QED  BY <5>1, <5>2
      <4>. QED  BY <4>1
    <3>5. Joined(env.tables) /\ env.context \in Held(env.id, Present(env.tables), R)  BY <3>1 DEF Building
    <3>6. Joined(t)  BY <2>2, <3>4, <3>5, JoinedFrame
    <3>. DEFINE N == Present(t)
    <3>7. PICK m \in Nat : m = env.id + 1  BY <1>0
    <3>8. N \subseteq 1..(m - 1)
      <4>1. Sound(t, m)  BY <1>1, <2>1, <3>7 DEF Creating
      <4>. QED  BY <4>1, PresentBelow
    <3>9. env.context \in Held(m, N, R)  BY <1>0, <3>4, <3>5, <3>7, HeldMonotone
    <3>10. <<env.id>> \in Seq(N)
      <4>1. env.id \in N  BY <3>3
      <4>. HIDE DEF N
      <4>. QED  BY <4>1
    <3>11. ctx \in Held(m, N, R)
      <4>1. CASE p.var = NoVar  BY <3>9, <4>1 DEF Bind
      <4>2. CASE p.var # NoVar
        <5>1. p.var \in Vars /\ ctx = [env.context EXCEPT ![p.var] = <<env.id>>]  BY <1>0, <4>2 DEF Bind
        <5>. HIDE DEF ctx, N
        <5>. QED  BY <3>8, <3>9, <3>10, <5>1, HeldBind
      <4>. QED  BY <4>1, <4>2
    <3>. QED  BY <3>3, <3>6, <3>7, <3>11
  <2>. HIDE DEF ctx
  <2>7. b \in Building(d, n, R)  BY <1>1, <2>1, <2>6 DEF Building
  <2>8. Grows(b, env, R)
    <3>1. \A v \in Vars : Holds(env.context, v) => Holds(ctx, v) /\ ctx[v][1] = env.context[v][1]
      BY <2>4 DEF Holds
    <3>2. env.id <= env.id + 1  BY <1>0
    <3>. QED  BY <2>1, <2>3, <3>1, <3>2 DEF Grows
  <2>9. p.var # NoVar => Holds(ctx, p.var) /\ ctx[p.var][1] = env.id
    <3>1. <<env.id>> # Unbound
      <4>1. <<env.id>> \in Seq(Nat)  BY <1>0
      <4>. QED  BY <4>1, ExecutorAssumption
    <3>2. <<env.id>> # <<>> /\ <<env.id>>[1] = env.id  OBVIOUS
    <3>. QED  BY <2>5, <3>1, <3>2, Zenon DEF Holds
  <2>10. b.context = ctx /\ b.node = env.id /\ b.tables = t /\ b.id = env.id + 1  BY <2>1
  <2>11. b.id <= MaxId + 1 => b.node \in Present(b.tables)  BY <2>6, <2>10
  <2>. HIDE DEF b
  <2>12. Resolved(b, env, p, R)  BY <2>8, <2>9, <2>10, <2>11 DEF Resolved
  <2>. QED  BY <2>7, <2>12 DEF b
<1>. QED  BY <1>2, <1>3

\* The row of a relationship pattern between the nodes a and b.
EdgeRow(r, a, b) ==
  [from |-> IF r.dir = "<-" THEN b ELSE a, to |-> IF r.dir = "<-" THEN a ELSE b, type |-> r.type]

\* The environment after it is made.
MadeEdge(c, env, r, a, b) ==
  c.id = env.id + 1 /\ (c.id <= MaxId + 1 => c.tables.edges[env.id] = EdgeRow(r, a, b))

\* It is made from two present nodes.
LEMMA EdgeForBuilds ==
  ASSUME NEW d, NEW n \in Nat, n >= 1, NEW R, NEW env \in Building(d, n, R), NEW r \in RelPatterns(Types),
         r.var \in R \cup {NoVar}, NEW a \in 1..(env.id - 1), NEW b \in 1..(env.id - 1),
         env.id <= MaxId + 1 => a \in Present(env.tables) /\ b \in Present(env.tables)
  PROVE  /\ EdgeFor(env, r, a, b) \in Building(d, n, R) /\ Grows(EdgeFor(env, r, a, b), env, R)
         /\ MadeEdge(EdgeFor(env, r, a, b), env, r, a, b)
<1>0. /\ env.id \in Nat /\ n <= env.id /\ Sound(env.tables, env.id) /\ env.context \in Contexts(env.id)
      /\ env.tables \in Tables /\ env \in Creating(d, n)
      /\ r.var \in Vars \cup {NoVar} /\ r.type \in Types
      /\ env = [tables |-> env.tables, id |-> env.id, context |-> env.context, node |-> env.node]
  BY DEF Building, Creating, RelPatterns
<1>. DEFINE c == EdgeFor(env, r, a, b)
            row == EdgeRow(r, a, b)
            t == IF env.id \in Ids THEN CreateEdgeRow(env.tables, env.id, row.from, row.to, r.type) ELSE env.tables
            ctx == Bind(env.context, r.var, <<env.id>>)
<1>1. c \in Creating(d, n)  BY <1>0, EdgeForType
<1>2. c = [tables |-> t, id |-> env.id + 1, context |-> ctx, node |-> env.node]
  <2>. DEFINE from == IF r.dir = "<-" THEN b ELSE a
              to == IF r.dir = "<-" THEN a ELSE b
              u == IF env.id \in Ids THEN CreateEdgeRow(env.tables, env.id, from, to, r.type) ELSE env.tables
  <2>1. c = [env EXCEPT !.tables = u, !.id = env.id + 1, !.context = ctx]
    BY DEF EdgeFor
  <2>2. row.from = from /\ row.to = to  BY DEF EdgeRow
  <2>3. u = t  BY <2>2
  <2>. HIDE DEF t, ctx, u
  <2>. QED  BY <1>0, <2>1, <2>3
<1>3. /\ env.id \in Ids => t.edges = [env.tables.edges EXCEPT ![env.id] = row]
      /\ t.nodes = env.tables.nodes
      /\ env.id \notin Ids => t = env.tables
  <2>1. CASE env.id \in Ids
    <3>1. t = CreateEdgeRow(env.tables, env.id, row.from, row.to, r.type)  BY <2>1
    <3>2. row = [from |-> row.from, to |-> row.to, type |-> r.type]  BY DEF EdgeRow
    <3>. HIDE DEF t, row
    <3>. QED  BY <1>0, <2>1, <3>1, <3>2 DEF CreateEdgeRow, Tables
  <2>2. CASE env.id \notin Ids  BY <2>2
  <2>. QED  BY <2>1, <2>2
<1>4. env.tables.edges \in [Ids -> EdgeRecs \cup {Absent, Tombstone}]  BY <1>0 DEF Tables
<1>. HIDE DEF t
<1>5. Same(t, env.tables, env.id)
  <2>1. ASSUME NEW i \in Ids, ~(i >= env.id) PROVE t.edges[i] = env.tables.edges[i]
    <3>1. i # env.id  BY <1>0, <2>1
    <3>. QED  BY <1>3, <1>4, <3>1
  <2>. QED  BY <1>3, <2>1 DEF Same
<1>6. ASSUME NEW v \in Vars, v \notin R PROVE ctx[v] = env.context[v]
  <2>1. CASE r.var = NoVar  BY <2>1 DEF Bind
  <2>2. CASE r.var # NoVar
    <3>1. v # r.var  BY <1>6, <2>2
    <3>. QED  BY <1>0, <2>2, <3>1 DEF Bind, Contexts
  <2>. QED  BY <2>1, <2>2
<1>7. ASSUME env.id + 1 <= MaxId + 1
      PROVE  /\ Joined(t) /\ ctx \in Held(env.id + 1, Present(t), R)
             /\ t.edges[env.id] = row
  <2>1. env.id \in Ids /\ env.id <= MaxId + 1  BY <1>0, <1>7, ConstantsAssumption DEF Ids
  <2>2. Present(t) = Present(env.tables)  BY <1>3 DEF Present
  <2>3. Joined(env.tables) /\ env.context \in Held(env.id, Present(env.tables), R)  BY <2>1 DEF Building
  <2>4. t.edges[env.id] = row  BY <1>3, <1>4, <2>1
  <2>5. Joined(t)
    <3>1. row.from \in Present(t) /\ row.to \in Present(t)  BY <2>1, <2>2 DEF EdgeRow
    <3>2. ASSUME NEW e \in Ids, LiveEdge(t, e) PROVE t.edges[e].from \in Present(t) /\ t.edges[e].to \in Present(t)
      <4>1. CASE e = env.id  BY <2>4, <3>1, <4>1
      <4>2. CASE e # env.id
        <5>1. t.edges[e] = env.tables.edges[e]  BY <1>3, <1>4, <2>1, <4>2
        <5>. QED  BY <2>2, <2>3, <3>2, <5>1 DEF Joined, LiveEdge
      <4>. QED  BY <4>1, <4>2
    <3>. QED  BY <3>2 DEF Joined
  <2>. DEFINE N == Present(t)
  <2>6. PICK m \in Nat : m = env.id + 1  BY <1>0
  <2>7. N \subseteq 1..(m - 1)
    <3>1. Sound(t, m)  BY <1>1, <1>2, <2>6 DEF Creating
    <3>. QED  BY <3>1, PresentBelow
  <2>8. env.context \in Held(m, N, R)
    <3>1. N \subseteq N /\ env.context \in Held(env.id, N, R)  BY <2>2, <2>3
    <3>. HIDE DEF N
    <3>. QED  BY <1>0, <2>6, <3>1, HeldMonotone
  <2>9. ctx \in Held(m, N, R)
    <3>1. CASE r.var = NoVar  BY <2>8, <3>1 DEF Bind
    <3>2. CASE r.var # NoVar
      <4>1. r.var \in Vars /\ r.var \in R /\ ctx = [env.context EXCEPT ![r.var] = <<env.id>>]
        BY <1>0, <3>2 DEF Bind
      <4>2. <<env.id>> \in Seq(1..(m - 1))
        <5>1. env.id \in 1..(m - 1)  BY <1>0, <2>6, <2>1, ConstantsAssumption DEF Ids
        <5>. QED  BY <5>1
      <4>. HIDE DEF ctx, N
      <4>. QED  BY <2>7, <2>8, <4>1, <4>2, HeldBind
    <3>. QED  BY <3>1, <3>2
  <2>. QED  BY <2>4, <2>5, <2>6, <2>9
<1>. HIDE DEF ctx, row
<1>8. c \in Building(d, n, R)  BY <1>1, <1>2, <1>7 DEF Building
<1>9. Grows(c, env, R)
  <2>1. env.id <= env.id + 1  BY <1>0
  <2>. QED  BY <1>2, <1>5, <1>6, <2>1 DEF Grows, Holds
<1>10. MadeEdge(c, env, r, a, b)  BY <1>2, <1>7 DEF MadeEdge, row
<1>. QED  BY <1>8, <1>9, <1>10

\* The nodes of a path are no variables of R, its relationships no others.
Kinded(path, R) ==
  /\ \A i \in DOMAIN path.nodes : path.nodes[i].var \notin R
  /\ \A i \in DOMAIN path.rels : path.rels[i].var \in R \cup {NoVar}

\* Relationship i of a path joins the nodes of its two variables.
Linked(c, path, i, n) ==
  c.id <= MaxId + 1 /\ path.nodes[i].var # NoVar /\ path.nodes[i + 1].var # NoVar =>
    /\ Holds(c.context, path.nodes[i].var) /\ Holds(c.context, path.nodes[i + 1].var)
    /\ \E x \in n..(c.id - 1) :
         c.tables.edges[x] = EdgeRow(path.rels[i], c.context[path.nodes[i].var][1], c.context[path.nodes[i + 1].var][1])

\* It goes on doing so.
LEMMA LinkedGrows ==
  ASSUME NEW n \in Nat, n >= 1, NEW R, NEW b, NEW c, b.id \in Nat, c.id \in Nat, Grows(b, c, R),
         NEW path, NEW i, path.nodes[i].var \in (Vars \cup {NoVar}) \ R, path.nodes[i + 1].var \in (Vars \cup {NoVar}) \ R,
         Linked(c, path, i, n)
  PROVE  Linked(b, path, i, n)
<1>. DEFINE v == path.nodes[i].var
            w == path.nodes[i + 1].var
            row(e) == EdgeRow(path.rels[i], e.context[v][1], e.context[w][1])
<1>1. ASSUME b.id <= MaxId + 1, v # NoVar, w # NoVar
      PROVE  /\ Holds(b.context, v) /\ Holds(b.context, w)
             /\ \E x \in n..(b.id - 1) : b.tables.edges[x] = row(b)
  <2>1. c.id <= b.id /\ Same(b.tables, c.tables, c.id)  BY DEF Grows
  <2>2. c.id <= MaxId + 1  BY <1>1, <2>1, ConstantsAssumption
  <2>3. Holds(c.context, v) /\ Holds(c.context, w)  BY <1>1, <2>2 DEF Linked
  <2>4. PICK x \in n..(c.id - 1) : c.tables.edges[x] = row(c)  BY <1>1, <2>2 DEF Linked
  <2>5. /\ Holds(b.context, v) /\ b.context[v][1] = c.context[v][1]
        /\ Holds(b.context, w) /\ b.context[w][1] = c.context[w][1]
    BY <1>1, <2>3 DEF Grows
  <2>6. row(b) = row(c)  BY <2>5
  <2>. HIDE DEF row
  <2>7. x \in Ids /\ ~(x >= c.id) /\ x \in n..(b.id - 1)  BY <2>1, <2>2, ConstantsAssumption DEF Ids
  <2>8. b.tables.edges[x] = c.tables.edges[x]  BY <2>1, <2>7 DEF Same
  <2>. QED  BY <2>4, <2>5, <2>6, <2>7, <2>8
<1>. QED  BY <1>1 DEF Linked

\* What a path consists of.
LEMMA PathParts ==
  ASSUME NEW path, Creatable(path), NEW R, Kinded(path, R)
  PROVE  /\ Len(path.rels) \in Nat /\ Len(path.nodes) = Len(path.rels) + 1
         /\ DOMAIN path.nodes = 1..Len(path.nodes) /\ DOMAIN path.rels = 1..Len(path.rels)
         /\ \A x \in 1..Len(path.nodes) : /\ path.nodes[x] \in NodePatterns /\ Evaluable(path.nodes[x].props)
                                          /\ path.nodes[x].var \in (Vars \cup {NoVar}) \ R
         /\ \A x \in 1..Len(path.rels) : path.rels[x] \in RelPatterns(Types) /\ path.rels[x].var \in R \cup {NoVar}
<1>1. /\ path.nodes \in Seq(NodePatterns) /\ path.rels \in Seq(RelPatterns(Types))
      /\ Len(path.nodes) = Len(path.rels) + 1
  BY DEF Creatable, Paths
<1>. DEFINE nodes == path.nodes
            rels == path.rels
<1>2. /\ Len(rels) \in Nat /\ DOMAIN nodes = 1..Len(nodes) /\ DOMAIN rels = 1..Len(rels)
      /\ \A x \in DOMAIN nodes : nodes[x] \in NodePatterns
      /\ \A x \in DOMAIN rels : rels[x] \in RelPatterns(Types)
  <2>1. nodes \in Seq(NodePatterns) /\ rels \in Seq(RelPatterns(Types))  BY <1>1
  <2>. HIDE DEF nodes, rels
  <2>. QED  BY <2>1
<1>3. \A x \in DOMAIN nodes : nodes[x].var \in Vars \cup {NoVar}  BY <1>2 DEF NodePatterns
<1>. QED  BY <1>1, <1>2, <1>3 DEF Creatable, Kinded

\* A position of a path joins its node to the one before.
LEMMA CreateElementBuilds ==
  ASSUME NEW d, NEW n \in Nat, n >= 1, NEW R, NEW env \in Building(d, n, R), NEW path, Creatable(path),
         Kinded(path, R), NEW i \in 1..Len(path.nodes)
  PROVE  /\ CreateElement(env, path, i) \in Building(d, n, R)
         /\ Grows(CreateElement(env, path, i), env, R)
         /\ i <= Len(path.rels) => Linked(CreateElement(env, path, i), path, i, n)
<1>. DEFINE p == path.nodes[i]
            q == path.nodes[i + 1]
            r == path.rels[i]
            a == NodeFor(env, p)
            b == NodeFor(a, q)
            c == EdgeFor(b, r, a.node, b.node)
<1>0. /\ Len(path.rels) \in Nat /\ Len(path.nodes) = Len(path.rels) + 1
      /\ p \in NodePatterns /\ Evaluable(p.props) /\ p.var \in (Vars \cup {NoVar}) \ R
      /\ env \in Creating(d, n) /\ env.id \in Nat
  BY PathParts DEF Building, Creating
<1>1. a \in Building(d, n, R) /\ Resolved(a, env, p, R) /\ a.node \in 1..(a.id - 1) /\ a.id \in Nat
  BY <1>0, NodeForBuilds, NodeForType DEF Building, Creating
<1>2. CASE i > Len(path.rels)
  <2>1. CreateElement(env, path, i) = a  BY <1>2 DEF CreateElement
  <2>. HIDE DEF a
  <2>. QED  BY <1>0, <1>1, <1>2, <2>1 DEF Resolved
<1>3. CASE ~(i > Len(path.rels))
  <2>1. i + 1 \in 1..Len(path.nodes) /\ i \in 1..Len(path.rels)  BY <1>0, <1>3
  <2>2. /\ q \in NodePatterns /\ Evaluable(q.props) /\ q.var \in (Vars \cup {NoVar}) \ R
        /\ r \in RelPatterns(Types) /\ r.var \in R \cup {NoVar}
    BY <2>1, PathParts
  <2>3. CreateElement(env, path, i) = c  BY <1>3 DEF CreateElement
  <2>. HIDE DEF p, q, r
  <2>. HIDE DEF a
  <2>4. /\ b \in Building(d, n, R) /\ Resolved(b, a, q, R) /\ b.node \in 1..(b.id - 1) /\ b.id \in Nat
    BY <1>1, <2>2, NodeForBuilds, NodeForType DEF Building, Creating
  <2>. HIDE DEF b
  <2>5. a.id <= b.id /\ Same(b.tables, a.tables, a.id) /\ Grows(b, a, R) /\ Grows(a, env, R)
    BY <1>1, <2>4 DEF Resolved, Grows
  <2>6. ASSUME b.id <= MaxId + 1 PROVE a.node \in Present(b.tables) /\ b.node \in Present(b.tables)
    <3>1. a.id <= MaxId + 1  BY <1>1, <2>4, <2>5, <2>6, ConstantsAssumption
    <3>2. a.node \in Present(a.tables)  BY <1>1, <3>1 DEF Resolved
    <3>3. a.node \in Ids /\ ~(a.node >= a.id)  BY <1>1, <3>2 DEF Present
    <3>4. a.node \in Present(b.tables)  BY <2>5, <3>2, <3>3 DEF Same, Present
    <3>. QED  BY <2>4, <2>6, <3>4 DEF Resolved
  <2>7. a.node \in 1..(b.id - 1)  BY <1>1, <2>4, <2>5
  <2>8. c \in Building(d, n, R) /\ Grows(c, b, R) /\ MadeEdge(c, b, r, a.node, b.node)
    BY <2>2, <2>4, <2>6, <2>7, EdgeForBuilds
  <2>. HIDE DEF c
  <2>9. c.id = b.id + 1 /\ c.id \in Nat  BY <2>4, <2>8 DEF MadeEdge
  <2>10. Grows(c, env, R)
    <3>1. Grows(b, env, R)  BY <1>0, <1>1, <2>4, <2>5, GrowsTransitive
    <3>. QED  BY <1>0, <2>4, <2>8, <2>9, <3>1, GrowsTransitive
  <2>11. ASSUME c.id <= MaxId + 1, p.var # NoVar, q.var # NoVar
         PROVE  /\ Holds(c.context, p.var) /\ Holds(c.context, q.var)
                /\ \E x \in n..(c.id - 1) : c.tables.edges[x] = EdgeRow(r, c.context[p.var][1], c.context[q.var][1])
    <3>1. p.var \in Vars /\ p.var \notin R /\ q.var \in Vars /\ q.var \notin R  BY <1>0, <2>2, <2>11 DEF p
    <3>2. Holds(a.context, p.var) /\ a.context[p.var][1] = a.node  BY <1>1, <2>11 DEF Resolved, p
    <3>3. Holds(b.context, p.var) /\ b.context[p.var][1] = a.node  BY <2>5, <3>1, <3>2 DEF Grows
    <3>4. Holds(b.context, q.var) /\ b.context[q.var][1] = b.node  BY <2>4, <2>11 DEF Resolved
    <3>5. /\ Holds(c.context, p.var) /\ c.context[p.var][1] = a.node
          /\ Holds(c.context, q.var) /\ c.context[q.var][1] = b.node
      BY <2>8, <3>1, <3>3, <3>4 DEF Grows
    <3>6. c.tables.edges[b.id] = EdgeRow(r, a.node, b.node)  BY <2>8, <2>11 DEF MadeEdge
    <3>7. b.id \in n..(c.id - 1)
      <4>1. n <= b.id  BY <2>4 DEF Building, Creating
      <4>. QED  BY <2>4, <2>9, <4>1
    <3>. QED  BY <3>5, <3>6, <3>7
  <2>12. Linked(c, path, i, n)  BY <2>11 DEF Linked, p, q, r
  <2>. QED  BY <2>3, <2>8, <2>10, <2>12
<1>. QED  BY <1>2, <1>3

\* Every relationship of a path.
AllLinked(c, path, n) == \A i \in DOMAIN path.rels : Linked(c, path, i, n)

\* They stay linked while more is created.
LEMMA AllLinkedGrows ==
  ASSUME NEW n \in Nat, n >= 1, NEW R, NEW b, NEW c, b.id \in Nat, c.id \in Nat, Grows(b, c, R),
         NEW path, Creatable(path), Kinded(path, R), NEW m, m \subseteq DOMAIN path.rels,
         \A i \in m : Linked(c, path, i, n)
  PROVE  \A i \in m : Linked(b, path, i, n)
<1>1. ASSUME NEW i \in m PROVE Linked(b, path, i, n)
  <2>1. i \in 1..Len(path.nodes) /\ i + 1 \in 1..Len(path.nodes)  BY PathParts
  <2>2. path.nodes[i].var \in (Vars \cup {NoVar}) \ R /\ path.nodes[i + 1].var \in (Vars \cup {NoVar}) \ R
    BY <2>1, PathParts
  <2>. QED  BY <2>2, LinkedGrows
<1>. QED  BY <1>1

\* Building nothing is building.
LEMMA GrowsReflexive ==
  ASSUME NEW R, NEW e, e.id \in Nat PROVE Grows(e, e, R)
  BY DEF Grows, Same

\* A path of CREATE links all its hops.
LEMMA CreatePathBuilds ==
  ASSUME NEW d, NEW n \in Nat, n >= 1, NEW R, NEW env \in Building(d, n, R), NEW path, Creatable(path),
         Kinded(path, R)
  PROVE  /\ CreatePath(env, path) \in Building(d, n, R) /\ Grows(CreatePath(env, path), env, R)
         /\ AllLinked(CreatePath(env, path), path, n)
<1>. DEFINE S == Building(d, n, R)
            m == Len(path.nodes)
<1>1. /\ m \in Nat /\ DOMAIN path.nodes = 1..m /\ m = Len(path.rels) + 1 /\ Len(path.rels) \in Nat
      /\ DOMAIN path.rels = 1..Len(path.rels)
  BY PathParts
<1>2. \A k \in 1..m : \A e \in S : CreateElement(e, path, k) \in S  BY CreateElementBuilds
<1>3. env \in S /\ \A e \in S : e.id \in Nat  BY DEF Building, Creating
<1>. HIDE DEF S, m
<1>4. \E f \in [0..m -> S] : CreatePathSteps(f, m, path, env)
  BY ONLY <1>1, <1>2, <1>3, CreatePathFold
<1>5. PICK f \in [0..m -> S] : CreatePathSteps(f, m, path, env)  BY <1>4
<1>6. /\ f[0] = env /\ \A k \in 1..m : f[k] = CreateElement(f[k - 1], path, k)
      /\ CreatePath(env, path) = f[m]
  BY <1>5 DEF CreatePathSteps
<1>. DEFINE Links(k) == \A i \in (1..k) \cap DOMAIN path.rels : Linked(f[k], path, i, n)
            T == {k \in 0..m : Grows(f[k], env, R) /\ Links(k)}
<1>7. 0 \in T
  <2>1. Grows(f[0], env, R)  BY <1>3, <1>6, GrowsReflexive
  <2>2. (1..0) \cap DOMAIN path.rels = {}  OBVIOUS
  <2>. QED  BY <1>1, <2>1, <2>2
<1>8. ASSUME NEW k \in 1..m, k - 1 \in T PROVE k \in T
  <2>. DEFINE e == f[k - 1]
              c == f[k]
  <2>1. e \in S /\ c \in S /\ c = CreateElement(e, path, k) /\ k \in Nat  BY <1>1, <1>6
  <2>2. Grows(e, env, R) /\ \A i \in (1..(k - 1)) \cap DOMAIN path.rels : Linked(e, path, i, n)  BY <1>8
  <2>. HIDE DEF e, c
  <2>3. Grows(c, e, R) /\ (k <= Len(path.rels) => Linked(c, path, k, n))
    BY <2>1, CreateElementBuilds DEF S, m
  <2>4. Grows(c, env, R)  BY <1>3, <2>1, <2>2, <2>3, GrowsTransitive
  <2>5. ASSUME NEW i \in (1..k) \cap DOMAIN path.rels PROVE Linked(c, path, i, n)
    <3>1. CASE i = k  BY <1>1, <2>3, <2>5, <3>1
    <3>2. CASE i # k
      <4>. DEFINE x == (1..(k - 1)) \cap DOMAIN path.rels
      <4>1. i \in x  BY <2>1, <2>5, <3>2
      <4>2. x \subseteq DOMAIN path.rels /\ \A j \in x : Linked(e, path, j, n)  BY <2>2
      <4>. HIDE DEF x
      <4>3. \A j \in x : Linked(c, path, j, n)  BY <1>3, <2>1, <2>3, <4>2, AllLinkedGrows
      <4>. QED  BY <4>1, <4>3
    <3>. QED  BY <3>1, <3>2
  <2>6. Grows(f[k], env, R) /\ Links(k)  BY <2>4, <2>5 DEF c
  <2>. QED  BY <2>6
<1>. HIDE DEF T, Links
<1>9. T \in SUBSET (0..m)  BY DEF T
<1>10. T = 0..m  BY <1>1, <1>7, <1>8, <1>9, StepInduction
<1>11. Grows(f[m], env, R) /\ Links(m) /\ f[m] \in S  BY <1>1, <1>10 DEF T
<1>12. AllLinked(f[m], path, n)
  <2>1. DOMAIN path.rels \subseteq 1..m  BY <1>1
  <2>. QED  BY <1>11, <2>1 DEF Links, AllLinked
<1>. QED  BY <1>6, <1>11, <1>12 DEF S

\* So does every path of the clause.
LEMMA CreatePathsBuilds ==
  ASSUME NEW d, NEW n \in Nat, n >= 1, NEW R, NEW env \in Building(d, n, R),
         NEW paths \in Seq(Paths(Types)), \A k \in DOMAIN paths : Creatable(paths[k]) /\ Kinded(paths[k], R)
  PROVE  /\ FoldLeft(CreatePath, env, paths) \in Building(d, n, R)
         /\ Grows(FoldLeft(CreatePath, env, paths), env, R)
         /\ \A j \in DOMAIN paths : AllLinked(FoldLeft(CreatePath, env, paths), paths[j], n)
<1>. DEFINE S == Building(d, n, R)
            m == Len(paths)
<1>1. m \in Nat /\ DOMAIN paths = 1..m  OBVIOUS
<1>2. \A k \in 1..m : \A e \in S : CreatePath(e, paths[k]) \in S  BY CreatePathBuilds
<1>3. env \in S /\ \A e \in S : e.id \in Nat  BY DEF Building, Creating
<1>. HIDE DEF S, m
<1>4. \E f \in [0..m -> S] : CreatePathsSteps(f, m, paths, env)
  BY ONLY <1>1, <1>2, <1>3, CreatePathsFold
<1>5. PICK f \in [0..m -> S] : CreatePathsSteps(f, m, paths, env)  BY <1>4
<1>6. /\ f[0] = env /\ \A k \in 1..m : f[k] = CreatePath(f[k - 1], paths[k])
      /\ FoldLeft(CreatePath, env, paths) = f[m]
  BY <1>5 DEF CreatePathsSteps
<1>. DEFINE Links(k) == \A j \in 1..k : AllLinked(f[k], paths[j], n)
            T == {k \in 0..m : Grows(f[k], env, R) /\ Links(k)}
<1>7. 0 \in T
  <2>1. Grows(f[0], env, R)  BY <1>3, <1>6, GrowsReflexive
  <2>. QED  BY <1>1, <2>1
<1>8. ASSUME NEW k \in 1..m, k - 1 \in T PROVE k \in T
  <2>. DEFINE e == f[k - 1]
              c == f[k]
              p == paths[k]
  <2>1. e \in S /\ c \in S /\ c = CreatePath(e, p) /\ Creatable(p) /\ Kinded(p, R) /\ k \in Nat
    <3>1. k \in DOMAIN paths /\ k \in Nat /\ k - 1 \in 0..m /\ k \in 0..m  BY <1>1
    <3>2. Creatable(p) /\ Kinded(p, R)  BY <3>1
    <3>3. f[k] = CreatePath(f[k - 1], paths[k])  BY <1>6
    <3>4. f[k] \in S /\ f[k - 1] \in S  BY <3>1
    <3>. QED  BY <3>1, <3>2, <3>3, <3>4
  <2>2. Grows(e, env, R) /\ \A j \in 1..(k - 1) : AllLinked(e, paths[j], n)  BY <1>8
  <2>. HIDE DEF e, c, p
  <2>3. Grows(c, e, R) /\ AllLinked(c, p, n)  BY <2>1, CreatePathBuilds DEF S
  <2>4. Grows(c, env, R)  BY <1>3, <2>1, <2>2, <2>3, GrowsTransitive
  <2>5. ASSUME NEW j \in 1..k PROVE AllLinked(c, paths[j], n)
    <3>1. CASE j = k  BY <2>3, <3>1 DEF p
    <3>2. CASE j # k
      <4>. DEFINE q == paths[j]
                  x == DOMAIN q.rels
      <4>1. Creatable(q) /\ Kinded(q, R) /\ AllLinked(e, q, n)  BY <1>1, <2>1, <2>2, <2>5, <3>2
      <4>. HIDE DEF q
      <4>2. x \subseteq DOMAIN q.rels /\ \A i \in x : Linked(e, q, i, n)  BY <4>1 DEF AllLinked
      <4>3. \A i \in x : Linked(c, q, i, n)
        <5>. HIDE DEF x
        <5>. QED  BY <1>3, <2>1, <2>3, <4>1, <4>2, AllLinkedGrows
      <4>4. AllLinked(c, q, n)  BY <4>3 DEF AllLinked
      <4>. QED  BY <4>4 DEF q
    <3>. QED  BY <3>1, <3>2
  <2>6. Grows(f[k], env, R) /\ Links(k)  BY <2>4, <2>5 DEF c
  <2>. QED  BY <2>6
<1>. HIDE DEF T, Links
<1>9. T \in SUBSET (0..m)  BY DEF T
<1>10. T = 0..m  BY <1>1, <1>7, <1>8, <1>9, StepInduction
<1>11. Grows(f[m], env, R) /\ Links(m) /\ f[m] \in S  BY <1>1, <1>10 DEF T
<1>. QED  BY <1>1, <1>6, <1>11 DEF S, Links

-----------------------------------------------------------------------------
(***************************************************************************)
(* Edges join nodes.  In a statement that uses no variable for both, only  *)
(* the variables of relationship patterns hold edges, and the others nodes *)
(* that have a record.                                                     *)
(***************************************************************************)
JInv ==
  /\ Joined(db) /\ Joined(view)
  /\ stmt # <<>> => context \in Held(next_id, Present(view), RelVars(stmt))

\* What MATCH and WHERE find has a record.
LEMMA ViewFinds ==
  ASSUME IInv, Joined(view) PROVE Finds(next_id, Present(view))
<1>0. Sound(view, next_id) /\ next_id \in Nat /\ view \in Tables  BY TypesBefore
<1>1. Present(view) \subseteq 1..(next_id - 1)  BY <1>0, PresentBelow
<1>2. ASSUME NEW l \in Labels, NEW i \in FindNodesByLabel(view, l) PROVE i \in Present(view)
  <2>1. i \in Ids  BY <1>0 DEF FindNodesByLabel, Tables
  <2>. QED  BY <1>0, <1>2, <2>1 DEF Sound, Listed, FindNodesByLabel, Present
<1>3. ASSUME NEW l \in Labels, NEW k \in Keys, NEW v \in Values, NEW i \in Ids,
             FindNodesByProperty(view, l, k, v)[i] > 0
      PROVE  i \in Present(view)
  <2>1. Encode[v] \in Codes  BY ConstantsAssumption
  <2>2. Occurrences(view.property_index, l, k, Encode[v], i) # 0  BY <1>3 DEF FindNodesByProperty
  <2>. QED  BY <1>0, <2>1, <2>2 DEF Sound, Listed, Present
<1>. QED  BY <1>1, <1>2, <1>3 DEF Finds, Joined

\* The patterns of a clause, and the variables of its statement.
LEMMA PatternVars ==
  ASSUME OneKind, IInv, ci \in DOMAIN stmt, Clause.type \in {"create", "match"},
         NEW T, Clause.paths \in Seq(Paths(T)), NEW k \in DOMAIN Clause.paths
  PROVE  Kinded(Clause.paths[k], RelVars(stmt))
<1>. DEFINE p == Clause.paths[k]
            R == RelVars(stmt)
<1>1. stmt \in Statements
  <2>1. stmt # <<>>  OBVIOUS
  <2>. QED  BY <2>1 DEF IInv, TypeOK
<1>2. NodeVars(stmt) \cap R = {}  BY <1>1 DEF OneKind
<1>3. p \in PathsOf(stmt)
  <2>1. p \in ToSet(Clause.paths)  BY DEF ToSet
  <2>. QED  BY <2>1 DEF PathsOf, Clause
<1>. HIDE DEF R
<1>4. p \in Paths(T)  BY DEF p
<1>. HIDE DEF p
<1>5. ASSUME NEW i \in DOMAIN p.nodes PROVE p.nodes[i].var \notin R
  <2>1. p.nodes[i] \in ToSet(p.nodes)  BY DEF ToSet
  <2>2. p.nodes[i].var \in NodeVars(stmt)  BY <1>3, <2>1 DEF NodeVars
  <2>. QED  BY <1>2, <2>2
<1>6. ASSUME NEW i \in DOMAIN p.rels PROVE p.rels[i].var \in R \cup {NoVar}
  <2>. DEFINE all == UNION {{x.var : x \in ToSet(q.rels)} : q \in PathsOf(stmt)}
              r == p.rels[i]
  <2>1. r \in ToSet(p.rels)  BY DEF ToSet
  <2>. HIDE DEF r
  <2>2. r.var \in all  BY <1>3, <2>1
  <2>3. R = all \ {NoVar}  BY Zenon DEF RelVars, R
  <2>. HIDE DEF all
  <2>4. r.var \in R \cup {NoVar}  BY <2>2, <2>3
  <2>. QED  BY <2>4 DEF r
<1>. QED  BY <1>5, <1>6 DEF Kinded, p, R

\* What CREATE leaves behind.
LEMMA CreateBuilds ==
  ASSUME OneKind, IInv, JInv, Create
  PROVE  /\ Joined(view') /\ context' \in Held(next_id', Present(view'), RelVars(stmt))
         /\ Clause.paths \in Seq(Paths(Types))
         /\ \A j \in DOMAIN Clause.paths :
              /\ Creatable(Clause.paths[j]) /\ Kinded(Clause.paths[j], RelVars(stmt))
              /\ AllLinked(Created, Clause.paths[j], next_id)
<1>. DEFINE env == [tables |-> view, id |-> next_id, context |-> context, node |-> 0]
            R == RelVars(stmt)
<1>1. /\ At("create") /\ Created.id <= MaxId + 1
      /\ view' = Created.tables /\ next_id' = Created.id /\ context' = Created.context
  BY DEF Create
<1>2. Clause.paths \in Seq(Paths(Types)) /\ \A k \in DOMAIN Clause.paths : Creatable(Clause.paths[k])
  BY <1>1, CreateReads
<1>3. \A k \in DOMAIN Clause.paths : Kinded(Clause.paths[k], R)
  <2>1. ci \in DOMAIN stmt /\ Clause.type \in {"create", "match"}  BY <1>1 DEF At, Clause
  <2>. QED  BY <1>2, <2>1, PatternVars
<1>4. env \in Building(view, next_id, R)
  <2>1. Same(view, view, next_id)  BY DEF Same
  <2>2. env \in Creating(view, next_id)  BY <2>1, TypesBefore, CreatingFrom
  <2>3. stmt # <<>>  BY <1>1 DEF At
  <2>. QED  BY <2>2, <2>3 DEF JInv, Building
<1>5. Created = FoldLeft(CreatePath, env, Clause.paths)  BY DEF Created
<1>6. next_id \in Nat /\ next_id >= 1  BY TypesBefore
<1>. HIDE DEF env, R
<1>7. /\ Created \in Building(view, next_id, R)
      /\ \A j \in DOMAIN Clause.paths : AllLinked(Created, Clause.paths[j], next_id)
  BY <1>2, <1>3, <1>4, <1>5, <1>6, CreatePathsBuilds
<1>. QED  BY <1>1, <1>2, <1>3, <1>7 DEF Building, R

\* A context of unbound variables.
LEMMA NothingHeld ==
  ASSUME NEW n, NEW N, NEW R PROVE NoContext \in Held(n, N, R)
  BY DEF NoContext, Held, Contexts

\* The steps keep the invariant: CREATE joins nodes that are present.
LEMMA CreateJoins ==
  ASSUME OneKind, IInv, JInv, Create PROVE JInv'
<1>1. db' = db /\ stmt' = stmt  BY DEF Create, Advance
<1>. QED  BY <1>1, CreateBuilds DEF JInv

\* DELETE empties rows and unbinds variables.
LEMMA DeleteJoins ==
  ASSUME IInv, JInv, Delete PROVE JInv'
<1>1. /\ [tables |-> view', context |-> context'] \in Deletings(view, context, next_id)
      /\ At("delete") /\ Advance(1) /\ next_id' = next_id
  BY DeletedType
<1>2. /\ Emptied(view', view) /\ context' \in Contexts(next_id)
      /\ \A v \in Vars : context'[v] = context[v] \/ context'[v] = Unbound
  BY <1>1 DEF Deletings
<1>3. stmt # <<>> /\ stmt' = stmt /\ db' = db  BY <1>1 DEF At, Advance
<1>4. Present(view') = Present(view)
  BY <1>2, ConstantsAssumption DEF Present, Emptied, LiveNode
<1>5. Joined(view')
  <2>1. \A e \in Ids : LiveEdge(view', e) => view'.edges[e] = view.edges[e]
    BY <1>2, ConstantsAssumption DEF Emptied, LiveEdge
  <2>. QED  BY <1>4, <2>1, JoinedFrame DEF JInv
<1>6. context' \in Held(next_id, Present(view), RelVars(stmt))
  BY <1>2, <1>3 DEF JInv, Held
<1>. QED  BY <1>1, <1>3, <1>4, <1>5, <1>6 DEF JInv

\* SET writes rows, not records that are not there.
LEMMA SetJoins ==
  ASSUME IInv, JInv, Set PROVE JInv'
<1>1. PICK pending \in PendingMaps : view' \in Settings(view, next_id, pending)  BY SetType
<1>2. At("set") /\ Advance(1) /\ UNCHANGED <<next_id, context>>  BY SetType
<1>3. stmt # <<>> /\ stmt' = stmt /\ db' = db  BY <1>2 DEF At, Advance
<1>4. Present(view) \subseteq Present(view')
  <2>1. \A i \in Ids : pending[i].value # Absent
    BY <1>1, ConstantsAssumption DEF PendingMaps, Pendings
  <2>. QED  BY <1>1, <2>1 DEF Settings, Present
<1>5. Joined(view')
  <2>1. view'.edges = view.edges  BY <1>1 DEF Settings
  <2>. QED  BY <1>4, <2>1, JoinedFrame DEF JInv, LiveEdge
<1>6. context \in Held(next_id, Present(view'), RelVars(stmt))
  <2>1. context \in Held(next_id, Present(view), RelVars(stmt)) /\ next_id <= next_id /\ next_id \in Nat
    BY <1>3, TypesBefore DEF JInv
  <2>. QED  BY <1>4, <2>1, HeldMonotone
<1>. QED  BY <1>2, <1>3, <1>5, <1>6 DEF JInv

\* MATCH and WHERE bind what they find.
LEMMA MatchJoins ==
  ASSUME OneKind, IInv, JInv, Match \/ MatchWhere \/ Where PROVE JInv'
<1>. DEFINE R == RelVars(stmt)
            N == Present(view)
<1>1. /\ ci \in DOMAIN stmt /\ view' = view /\ next_id' = next_id /\ db' = db /\ stmt' = stmt
  BY DEF Match, MatchWhere, Where, At, Advance
<1>2. Finds(next_id, N) /\ context \in Held(next_id, N, R)
  <2>1. stmt # <<>>  BY <1>1
  <2>. QED  BY <2>1, ViewFinds DEF JInv
<1>3. ASSUME Match PROVE RelsIn(Clause, R)
  <2>1. At("match") /\ Clause.type \in {"create", "match"}  BY <1>3 DEF Match, At, Clause
  <2>2. Clause.paths \in Seq(Paths(Types \cup {NoType}))
    BY <2>1, ClauseType DEF At, Clause, IInv, TypeOK
  <2>3. \A k \in DOMAIN Clause.paths : Kinded(Clause.paths[k], R)  BY <1>1, <2>1, <2>2, PatternVars
  <2>. QED  BY <2>3 DEF Kinded, RelsIn
<1>4. context' \in Held(next_id, N, R)
  <2>. HIDE DEF N, R
  <2>1. CASE Match  BY <1>2, <1>3, <2>1, MatchBinds
  <2>2. CASE MatchWhere  BY <1>2, <2>2, MatchWhereBinds
  <2>3. CASE Where  BY <1>2, <2>3, WhereBinds
  <2>. QED  BY <2>1, <2>2, <2>3
<1>. QED  BY <1>1, <1>4 DEF JInv

\* The other steps.
LEMMA OthersJoin ==
  ASSUME IInv, JInv,
         \/ \E s \in Statements : Submit(s)
         \/ CreateFails \/ Return \/ Unwind \/ NextItem \/ Finish \/ UNCHANGED vars
  PROVE  JInv'
<1>1. ASSUME NEW s \in Statements, Submit(s) PROVE JInv'
  BY <1>1, NothingHeld DEF Submit, JInv
<1>2. CASE CreateFails  BY <1>2 DEF CreateFails, JInv
<1>3. CASE Return \/ Unwind
  <2>1. stmt # <<>> /\ stmt' = stmt /\ UNCHANGED <<db, view, next_id, context>>
    BY <1>3 DEF Return, Unwind, At, Advance, memory
  <2>. QED  BY <2>1 DEF JInv
<1>4. CASE NextItem
  <2>1. context' = NoContext /\ UNCHANGED <<db, view, next_id, stmt>>  BY <1>4 DEF NextItem
  <2>. QED  BY <2>1, NothingHeld DEF JInv
<1>5. CASE Finish  BY <1>5 DEF Finish, JInv
<1>6. CASE UNCHANGED vars  BY <1>6 DEF vars, memory, JInv
<1>. QED  BY <1>1, <1>2, <1>3, <1>4, <1>5, <1>6

\* Every step keeps it.
LEMMA JoinInductive ==
  ASSUME OneKind PROVE IInv /\ JInv /\ [Next]_vars => JInv'
<1>. SUFFICES ASSUME IInv, JInv, [Next]_vars PROVE JInv'
  OBVIOUS
<1>1. CASE Create  BY <1>1, CreateJoins
<1>2. CASE Delete  BY <1>2, DeleteJoins
<1>3. CASE Set  BY <1>3, SetJoins
<1>4. CASE Match \/ MatchWhere \/ Where  BY <1>4, MatchJoins
<1>5. CASE \/ \E s \in Statements : Submit(s)
           \/ CreateFails \/ Return \/ Unwind \/ NextItem \/ Finish \/ UNCHANGED vars
  BY <1>5, OthersJoin
<1>. QED  BY <1>1, <1>2, <1>3, <1>4, <1>5 DEF Next

\* So it holds throughout, of statements that use no variable for both a node
\* and a relationship.
LEMMA JoinInvariance ==
  ASSUME OneKind PROVE Spec => []JInv
<1>1. Init => JInv
  BY ConstantsAssumption DEF Init, JInv, Joined, LiveEdge, EmptyTables
<1>2. IInv /\ JInv /\ [Next]_vars => JInv'  BY JoinInductive
<1>. QED  BY <1>1, <1>2, Invariance, PTL DEF Spec

\* Every live edge of a transaction joins two records of the node table, whatever
\* the statements before it created, deleted or had aborted.
THEOREM EdgesJoined ==
  ASSUME OneKind PROVE Spec => []EdgesJoinNodes
<1>1. JInv => EdgesJoinNodes  BY DEF JInv, Joined, Present, EdgesJoinNodes
<1>. QED  BY <1>1, JoinInvariance, PTL

\* A CREATE leaves every relationship of a path whose nodes have variables as a live
\* edge in its direction, between the nodes those variables hold afterwards, also
\* when other elements of the clause bind or reuse them.
THEOREM PathsConnected ==
  ASSUME OneKind PROVE Spec => CreatedPathConnected
<1>1. ASSUME IInv, IInv', JInv, Create, NEW p \in ToSet(Clause.paths),
             \A x \in ToSet(p.nodes) : x.var # NoVar, NEW i \in DOMAIN p.rels
      PROVE  LET a == context'[p.nodes[i].var][1]
                 b == context'[p.nodes[i + 1].var][1]
             IN  \E e \in next_id..(next_id' - 1) :
                   /\ LiveEdge(view', e)
                   /\ view'.edges[e].type = p.rels[i].type
                   /\ view'.edges[e].from = IF p.rels[i].dir = "<-" THEN b ELSE a
                   /\ view'.edges[e].to = IF p.rels[i].dir = "<-" THEN a ELSE b
  <2>. DEFINE v == p.nodes[i].var
              w == p.nodes[i + 1].var
              a == context'[v][1]
              b == context'[w][1]
              r == p.rels[i]
              R == RelVars(stmt)
              N == Present(view')
  <2>1. /\ Created.id <= MaxId + 1 /\ view' = Created.tables /\ next_id' = Created.id /\ context' = Created.context
    BY <1>1 DEF Create
  <2>2. context' \in Held(next_id', N, R)  BY <1>1, CreateBuilds
  <2>3. Creatable(p) /\ Kinded(p, R) /\ AllLinked(Created, p, next_id)
    <3>1. PICK j \in DOMAIN Clause.paths : p = Clause.paths[j]  BY DEF ToSet
    <3>. QED  BY <1>1, <3>1, CreateBuilds
  <2>. HIDE DEF R, N
  <2>4. /\ i \in 1..Len(p.nodes) /\ i + 1 \in 1..Len(p.nodes) /\ DOMAIN p.nodes = 1..Len(p.nodes)
        /\ r \in RelPatterns(Types)
        /\ v \in (Vars \cup {NoVar}) \ R /\ w \in (Vars \cup {NoVar}) \ R
    <3>1. /\ Len(p.rels) \in Nat /\ Len(p.nodes) = Len(p.rels) + 1
          /\ DOMAIN p.nodes = 1..Len(p.nodes) /\ DOMAIN p.rels = 1..Len(p.rels)
          /\ \A x \in 1..Len(p.nodes) : p.nodes[x].var \in (Vars \cup {NoVar}) \ R
          /\ \A x \in 1..Len(p.rels) : p.rels[x] \in RelPatterns(Types)
      BY <2>3, PathParts
    <3>2. i \in 1..Len(p.rels)  BY <3>1
    <3>3. i \in 1..Len(p.nodes) /\ i + 1 \in 1..Len(p.nodes)  BY <3>1, <3>2
    <3>. QED  BY <3>1, <3>2, <3>3
  <2>5. v # NoVar /\ w # NoVar
    <3>1. p.nodes[i] \in ToSet(p.nodes) /\ p.nodes[i + 1] \in ToSet(p.nodes)  BY <2>4 DEF ToSet
    <3>. QED  BY <1>1, <3>1
  <2>6. Linked(Created, p, i, next_id)  BY <2>3 DEF AllLinked
  <2>7. Holds(context', v) /\ Holds(context', w)  BY <2>1, <2>5, <2>6 DEF Linked
  <2>8. PICK e \in next_id..(next_id' - 1) : view'.edges[e] = EdgeRow(r, a, b)
    BY <2>1, <2>5, <2>6 DEF Linked
  <2>9. a \in N /\ b \in N
    <3>1. ASSUME NEW x \in {v, w} PROVE context'[x][1] \in N
      <4>. DEFINE s == context'[x]
      <4>1. s \in Seq(N) /\ s # <<>>  BY <2>2, <2>4, <2>5, <2>7 DEF Held, Holds
      <4>. HIDE DEF s
      <4>2. s[1] \in N  BY <4>1
      <4>. QED  BY <4>2 DEF s
    <3>. QED  BY <3>1
  <2>10. a \in Ids /\ b \in Ids  BY <2>9 DEF N, Present
  <2>. HIDE DEF a, b, r
  <2>11. EdgeRow(r, a, b) \in EdgeRecs  BY <2>4, <2>10 DEF EdgeRow, RelPatterns, EdgeRecs
  <2>12. /\ LiveEdge(view', e) /\ view'.edges[e].type = r.type
         /\ view'.edges[e].from = IF r.dir = "<-" THEN b ELSE a
         /\ view'.edges[e].to = IF r.dir = "<-" THEN a ELSE b
    BY <2>8, <2>11 DEF EdgeRow, LiveEdge
  <2>. QED  BY <2>12 DEF a, b, r, v, w
<1>2. IInv /\ IInv' /\ JInv /\ [Next]_vars =>
        [Create =>
           \A p \in ToSet(Clause.paths) :
             (\A n \in ToSet(p.nodes) : n.var # NoVar) =>
               \A i \in DOMAIN p.rels :
                 LET a == context'[p.nodes[i].var][1]
                     b == context'[p.nodes[i + 1].var][1]
                 IN  \E e \in next_id..(next_id' - 1) :
                       /\ LiveEdge(view', e)
                       /\ view'.edges[e].type = p.rels[i].type
                       /\ view'.edges[e].from = IF p.rels[i].dir = "<-" THEN b ELSE a
                       /\ view'.edges[e].to = IF p.rels[i].dir = "<-" THEN a ELSE b]_vars
  BY <1>1
<1>. QED  BY <1>2, Invariance, JoinInvariance, PTL DEF Spec, CreatedPathConnected

-----------------------------------------------------------------------------
(***************************************************************************)
(* UNWIND and CREATE.  The nodes of the items so far are the last ones     *)
(* that were created, in the order of the list.                            *)
(***************************************************************************)

\* A statement UNWIND list CREATE (n ...), its list and its node.
CreatesItems(s) ==
  /\ Len(s) = 2 /\ Opens(s[1]) /\ s[2].type = "create" /\ Len(s[2].paths) = 1
  /\ Len(s[2].paths[1].nodes) = 1

\* The list of such a statement and the node it creates.
Items == stmt[1].items
ItemNode == stmt[2].paths[1].nodes[1]

\* The first m items have their nodes, and what is left of the list.
Made(m) ==
  /\ m \in 0..Len(Items) /\ next_id - m >= 1
  /\ \A k \in 1..m : view.nodes[next_id - m + k - 1] = Stored(ItemNode, Items[k])
Left(m) ==
  /\ loop.start = 2 /\ m \in 0..(Len(Items) - 1) /\ Len(loop.items) = Len(Items) - m
  /\ \A k \in 1..(Len(Items) - m) : loop.items[k] = Items[m + k]

\* At every position of such a statement, the items done so far have their
\* nodes.
UInv ==
  CreatesItems(stmt) =>
    \/ ci = 1 /\ loop.start = 0 /\ context = NoContext
    \/ ci = 2 /\ context = NoContext /\ \E m \in Nat : Made(m) /\ Left(m)
    \/ ci = 3 /\ \E m \in Nat : Made(m + 1) /\ Left(m)
    \/ ci = 3 /\ loop.start = 0 /\ Made(Len(Items))

\* The parts of such a statement.
LEMMA ItemsType ==
  ASSUME IInv, CreatesItems(stmt)
  PROVE  /\ stmt \in Statements /\ Len(stmt) = 2 /\ DOMAIN stmt = 1..2
         /\ stmt[1].type = "unwind" /\ stmt[2].type = "create"
         /\ Items \in Seq(PropMaps) /\ Len(Items) \in Nat /\ Len(Items) >= 1
         /\ next_id \in Nat /\ next_id >= 1 /\ loop.items \in Seq(PropMaps)
<1>1. Len(stmt) = 2 /\ Opens(stmt[1]) /\ stmt[2].type = "create" /\ stmt \in Statements \cup {<<>>}
  BY DEF CreatesItems, IInv, TypeOK
<1>2. stmt # <<>> /\ DOMAIN stmt = 1..2
  <2>1. Len(<<>>) = 0  OBVIOUS
  <2>2. DOMAIN stmt = 1..Len(stmt)  BY <1>1, StatementType
  <2>. QED  BY <1>1, <2>1, <2>2
<1>3. stmt[1].type = "unwind" /\ Items # <<>>  BY <1>1 DEF Opens, Items
<1>4. Items \in Seq(PropMaps)
  <2>1. 1 \in DOMAIN stmt  BY <1>2
  <2>. QED  BY <1>1, <1>3, <2>1, ClauseType DEF Items
<1>5. Len(Items) \in Nat /\ Len(Items) >= 1
  <2>. DEFINE P == PropMaps
              s == Items
  <2>1. s \in Seq(P) /\ s # <<>>  BY <1>3, <1>4
  <2>. HIDE DEF P, s
  <2>2. Len(s) \in Nat /\ Len(s) >= 1  BY <2>1
  <2>. QED  BY <2>2 DEF s
<1>. QED  BY <1>1, <1>2, <1>3, <1>4, <1>5, TypesBefore DEF IInv, TypeOK

\* UNWIND starts with the whole list.
LEMMA UnwindMakes ==
  ASSUME IInv, UInv, Unwind PROVE UInv'
<1>. SUFFICES ASSUME CreatesItems(stmt)' PROVE UInv'
  BY DEF UInv
<1>1. /\ ci \in DOMAIN stmt /\ stmt[ci].type = "unwind" /\ ci' = ci + 1
      /\ UNCHANGED <<stmt, view, next_id, context>>
      /\ loop' = IF loop.start = 0 /\ stmt[ci].items # <<>>
                 THEN [start |-> ci + 1, items |-> stmt[ci].items] ELSE loop
  BY DEF Unwind, At, Clause, Advance, memory
<1>2. CreatesItems(stmt)  BY <1>1 DEF CreatesItems
<1>3. ci = 1  BY <1>1, <1>2, ItemsType
<1>4. loop.start = 0 /\ context = NoContext /\ Items # <<>>  BY <1>2, <1>3 DEF UInv, CreatesItems, Opens, Items
<1>5. loop' = [start |-> 2, items |-> Items]  BY <1>1, <1>3, <1>4 DEF Items
<1>6. Len(Items) \in Nat /\ Len(Items) >= 1 /\ next_id \in Nat /\ next_id >= 1  BY <1>2, ItemsType
<1>7. Items' = Items /\ ItemNode' = ItemNode  BY <1>1 DEF Items, ItemNode
<1>8. Made(0)'  BY <1>1, <1>6, <1>7 DEF Made
<1>9. Left(0)'
  <2>1. loop'.start = 2 /\ loop'.items = Items  BY <1>5
  <2>. QED  BY <1>6, <1>7, <2>1 DEF Left
<1>. QED  BY <1>1, <1>3, <1>4, <1>8, <1>9 DEF UInv

\* CREATE of one node without a binding allocates one id and writes its row.
LEMMA CreateOne ==
  ASSUME IInv, Create, CreatesItems(stmt), ci = 2, context = NoContext
  PROVE  /\ next_id' = next_id + 1 /\ next_id \in Ids
         /\ view'.nodes = [view.nodes EXCEPT ![next_id] = Evaluated(ItemNode.props)]
         /\ ItemNode \in NodePatterns
<1>. DEFINE env == [tables |-> view, id |-> next_id, context |-> context, node |-> 0]
            path == Clause.paths[1]
<1>1. /\ At("create") /\ Created.id <= MaxId + 1 /\ view' = Created.tables /\ next_id' = Created.id
  BY DEF Create
<1>2. /\ Clause.paths \in Seq(Paths(Types)) /\ DOMAIN Clause.paths = 1..1
      /\ path \in Paths(Types) /\ Creatable(path)
  <2>1. Clause.paths \in Seq(Paths(Types)) /\ \A k \in DOMAIN Clause.paths : Creatable(Clause.paths[k])
    BY <1>1, CreateReads
  <2>2. Len(Clause.paths) = 1  BY DEF CreatesItems, Clause
  <2>3. DOMAIN Clause.paths = 1..1  BY <2>1, <2>2
  <2>4. 1 \in DOMAIN Clause.paths  BY <2>3
  <2>. QED  BY <2>1, <2>3, <2>4
<1>3. /\ DOMAIN path.nodes = 1..1 /\ Len(path.rels) = 0 /\ path.nodes[1] = ItemNode
      /\ ItemNode \in NodePatterns /\ Evaluable(ItemNode.props)
  <2>1. /\ path.nodes \in Seq(NodePatterns) /\ path.rels \in Seq(RelPatterns(Types))
        /\ Len(path.nodes) = Len(path.rels) + 1
    BY <1>2 DEF Paths
  <2>2. Len(path.nodes) = 1 /\ path.nodes[1] = ItemNode  BY DEF CreatesItems, Clause, ItemNode
  <2>. DEFINE nodes == path.nodes
              rels == path.rels
              NP == NodePatterns
              RP == RelPatterns(Types)
  <2>3. nodes \in Seq(NP) /\ rels \in Seq(RP) /\ Len(nodes) = 1 /\ Len(nodes) = Len(rels) + 1  BY <2>1, <2>2
  <2>. HIDE DEF nodes, rels, NP, RP
  <2>4. DOMAIN nodes = 1..1 /\ Len(rels) = 0 /\ nodes[1] \in NP  BY <2>3
  <2>5. Evaluable(path.nodes[1].props)
    <3>1. 1 \in DOMAIN path.nodes  BY <2>4 DEF nodes
    <3>. QED  BY <1>2, <3>1 DEF Creatable
  <2>. QED  BY <2>2, <2>4, <2>5 DEF nodes, rels, NP
<1>4. env \in Creating(view, next_id)
  <2>1. Same(view, view, next_id)  BY DEF Same
  <2>. QED  BY <2>1, TypesBefore, CreatingFrom
<1>5. Created = CreatePath(env, path)
  <2>1. Created = FoldLeft(CreatePath, env, Clause.paths)  BY DEF Created
  <2>. DEFINE S == Creating(view, next_id)
              paths == Clause.paths
  <2>2. \A k \in 1..1 : \A e \in S : CreatePath(e, paths[k]) \in S
    BY <1>2, CreatePathType, TypesBefore
  <2>3. DOMAIN paths = 1..1 /\ env \in S  BY <1>2, <1>4
  <2>. HIDE DEF env, S, paths
  <2>4. PICK f \in [0..1 -> S] : CreatePathsSteps(f, 1, paths, env)  BY <2>2, <2>3, CreatePathsFold
  <2>5. f[1] = CreatePath(f[0], paths[1]) /\ f[0] = env /\ FoldLeft(CreatePath, env, paths) = f[1]
    <3>1. \A k \in 1..1 : f[k] = CreatePath(f[k - 1], paths[k])  BY <2>4 DEF CreatePathsSteps
    <3>2. f[1] = CreatePath(f[1 - 1], paths[1])  BY <3>1
    <3>3. 1 - 1 = 0  OBVIOUS
    <3>4. f[0] = env /\ FoldLeft(CreatePath, env, paths) = f[1]  BY <2>4 DEF CreatePathsSteps
    <3>. QED  BY <3>2, <3>3, <3>4
  <2>. QED  BY <2>1, <2>5 DEF paths
<1>6. CreatePath(env, path) = CreateElement(env, path, 1)
  <2>. DEFINE S == Creating(view, next_id)
  <2>1. \A k \in 1..1 : \A e \in S : CreateElement(e, path, k) \in S
    <3>1. Len(path.nodes) = 1  BY DEF CreatesItems, Clause
    <3>. QED  BY <1>2, <3>1, CreateElementType, TypesBefore
  <2>2. DOMAIN path.nodes = 1..1 /\ env \in S  BY <1>3, <1>4
  <2>. HIDE DEF env, S, path
  <2>3. PICK f \in [0..1 -> S] : CreatePathSteps(f, 1, path, env)  BY <2>1, <2>2, CreatePathFold
  <2>4. \A k \in 1..1 : f[k] = CreateElement(f[k - 1], path, k)  BY <2>3 DEF CreatePathSteps
  <2>5. f[1] = CreateElement(f[1 - 1], path, 1)  BY <2>4
  <2>6. 1 - 1 = 0  OBVIOUS
  <2>7. f[0] = env /\ CreatePath(env, path) = f[1]  BY <2>3 DEF CreatePathSteps
  <2>. QED  BY <2>5, <2>6, <2>7
<1>7. CreateElement(env, path, 1) = NodeFor(env, ItemNode)  BY <1>3 DEF CreateElement
<1>. DEFINE c == NodeFor(env, ItemNode)
            t == IF next_id \in Ids THEN CreateNodeRow(view, next_id, ItemNode.label, Evaluated(ItemNode.props))
                 ELSE view
<1>8. c.id = next_id + 1 /\ c.tables = t
  <2>1. ~Holds(context, ItemNode.var)  BY <1>3 DEF Holds, NoContext, NodePatterns
  <2>. QED  BY <2>1 DEF NodeFor
<1>9. next_id' = next_id + 1 /\ next_id + 1 <= MaxId + 1 /\ view' = t  BY <1>1, <1>5, <1>6, <1>7, <1>8
<1>10. next_id \in Ids  BY <1>9, TypesBefore, ConstantsAssumption DEF Ids
<1>11. t.nodes = [view.nodes EXCEPT ![next_id] = Evaluated(ItemNode.props)]
  <2>1. t = CreateNodeRow(view, next_id, ItemNode.label, Evaluated(ItemNode.props))  BY <1>10
  <2>. HIDE DEF t
  <2>. QED  BY <2>1 DEF CreateNodeRow
<1>. QED  BY <1>3, <1>9, <1>10, <1>11

\* The CREATE of the current item makes the node of that item.
LEMMA CreateMakes ==
  ASSUME IInv, UInv, Create PROVE UInv'
<1>. SUFFICES ASSUME CreatesItems(stmt)' PROVE UInv'
  BY DEF UInv
<1>1. ci \in DOMAIN stmt /\ stmt[ci].type = "create" /\ ci' = ci + 1 /\ stmt' = stmt /\ loop' = loop
  BY DEF Create, At, Advance
<1>2. CreatesItems(stmt)  BY <1>1 DEF CreatesItems
<1>3. ci = 2  BY <1>1, <1>2, ItemsType
<1>4. context = NoContext /\ \E m \in Nat : Made(m) /\ Left(m)  BY <1>2, <1>3 DEF UInv
<1>5. PICK m \in Nat : Made(m) /\ Left(m)  BY <1>4
<1>. DEFINE n == next_id
            len == Len(Items)
            props == Evaluated(ItemNode.props)
<1>6. len \in Nat /\ n \in Nat /\ loop.items \in Seq(PropMaps)  BY <1>2, ItemsType
<1>7. /\ n' = n + 1 /\ n \in Ids /\ view'.nodes = [view.nodes EXCEPT ![n] = props]
      /\ ItemNode \in NodePatterns
  BY <1>2, <1>3, <1>4, CreateOne
<1>8. Items' = Items /\ ItemNode' = ItemNode  BY <1>1 DEF Items, ItemNode
<1>9. /\ m \in 0..(len - 1) /\ loop.start = 2 /\ Len(loop.items) = len - m /\ n - m >= 1
      /\ \A k \in 1..(len - m) : loop.items[k] = Items[m + k]
      /\ \A k \in 1..m : view.nodes[n - m + k - 1] = Stored(ItemNode, Items[k])
  BY <1>5 DEF Made, Left
<1>10. props = Stored(ItemNode, Items[m + 1])
  <2>1. 1 \in 1..(len - m)  BY <1>6, <1>9
  <2>2. loop.items[1] = Items[m + 1]  BY <1>9, <2>1
  <2>3. Head(loop.items) = Items[m + 1]  BY <2>2
  <2>4. loop.start # 0  BY <1>9
  <2>5. \A k \in Keys : ItemNode.props[k] \in Expressions  BY <1>7 DEF NodePatterns
  <2>6. (Accesses \cup {Other}) \cap (Values \cup {NoValue}) = {}  BY ExecutorAssumption
  <2>7. ASSUME NEW k \in Keys PROVE Evaluate(ItemNode.props[k]) = Stored(ItemNode, Items[m + 1])[k]
    <3>. DEFINE e == ItemNode.props[k]
                item == Items[m + 1]
    <3>1. Stored(ItemNode, item)[k] =
            IF e \in Accesses /\ item[e.alias] # NoValue THEN item[e.alias]
            ELSE IF e \in Accesses \cup {Other} THEN Blank ELSE e
      BY DEF Stored
    <3>2. Evaluate(e) =
            IF e \in Values \cup {NoValue} THEN e
            ELSE IF e \in Accesses /\ item[e.alias] # NoValue THEN item[e.alias] ELSE Blank
      BY <2>3, <2>4 DEF Evaluate
    <3>3. e \in Values \cup {NoValue, Other} \cup Accesses  BY <2>5 DEF Expressions
    <3>. HIDE DEF e, item
    <3>4. CASE e \in Values \cup {NoValue}
      <4>1. e \notin Accesses /\ e # Other  BY ONLY <2>6, <3>4
      <4>2. Evaluate(e) = e  BY ONLY <3>2, <3>4
      <4>3. Stored(ItemNode, item)[k] = e  BY ONLY <3>1, <4>1
      <4>. QED  BY <4>2, <4>3 DEF e, item
    <3>5. CASE e \notin Values \cup {NoValue}
      <4>1. e \in Accesses \cup {Other}  BY ONLY <3>3, <3>5
      <4>2. Evaluate(e) = Stored(ItemNode, item)[k]  BY ONLY <3>1, <3>2, <3>5, <4>1
      <4>. QED  BY <4>2 DEF e, item
    <3>. QED  BY <3>4, <3>5
  <2>. QED  BY <2>7 DEF Evaluated, Stored
<1>11. view.nodes \in [Ids -> PropMaps \cup {Absent, Tombstone}]  BY TypesBefore DEF Tables
<1>. HIDE DEF props, len
<1>12. Made(m + 1)'
  <2>1. m + 1 \in 0..len /\ n' - (m + 1) = n - m /\ n' - (m + 1) >= 1  BY <1>6, <1>7, <1>9
  <2>2. ASSUME NEW k \in 1..(m + 1) PROVE view'.nodes[n' - (m + 1) + k - 1] = Stored(ItemNode, Items[k])
    <3>. DEFINE x == n - m + k - 1
    <3>1. n' - (m + 1) + k - 1 = x /\ x \in Nat  BY <1>6, <1>9, <2>1
    <3>2. CASE k = m + 1
      <4>1. x = n  BY <1>6, <3>2
      <4>2. view'.nodes[x] = props  BY <1>7, <1>11, <4>1
      <4>. QED  BY <1>10, <3>1, <3>2, <4>2
    <3>3. CASE k # m + 1
      <4>1. k \in 1..m /\ x # n /\ x >= 1 /\ x <= n
        <5>1. m \in Nat /\ k \in Nat /\ k <= m /\ k >= 1  BY <3>3
        <5>2. n \in Nat /\ n - m >= 1  BY <1>6, <1>9
        <5>. QED  BY <5>1, <5>2
      <4>2. x \in Ids  BY <1>6, <1>7, <3>1, <4>1, ConstantsAssumption DEF Ids
      <4>3. view.nodes[x] = Stored(ItemNode, Items[k])  BY <1>9, <4>1
      <4>. HIDE DEF x
      <4>4. view'.nodes[x] = view.nodes[x]  BY <1>7, <1>11, <4>1, <4>2
      <4>. QED  BY <3>1, <4>3, <4>4
    <3>. QED  BY <3>2, <3>3
  <2>. QED  BY <1>8, <2>1, <2>2 DEF Made, len
<1>13. Left(m)'  BY <1>1, <1>8, <1>9 DEF Left, len
<1>14. ci' = 3  BY <1>1, <1>3
<1>. QED  BY <1>12, <1>13, <1>14 DEF UInv

\* The end of the body goes on with the next item, or leaves the loop.
LEMMA NextItemMakes ==
  ASSUME IInv, UInv, NextItem PROVE UInv'
<1>. SUFFICES ASSUME CreatesItems(stmt)' PROVE UInv'
  BY DEF UInv
<1>1. /\ ci = Len(stmt) + 1 /\ loop.start # 0 /\ context' = NoContext
      /\ UNCHANGED <<view, next_id, stmt>>
  BY DEF NextItem
<1>2. CreatesItems(stmt)  BY <1>1 DEF CreatesItems
<1>3. ci = 3
  <2>1. Len(stmt) = 2  BY <1>2 DEF CreatesItems
  <2>. QED  BY <1>1, <2>1
<1>4. PICK m \in Nat : Made(m + 1) /\ Left(m)  BY <1>1, <1>2, <1>3 DEF UInv
<1>. DEFINE len == Len(Items)
<1>5. /\ len \in Nat /\ loop.items \in Seq(PropMaps)  BY <1>2, ItemsType
<1>6. /\ m \in 0..(len - 1) /\ loop.start = 2 /\ Len(loop.items) = len - m
      /\ \A k \in 1..(len - m) : loop.items[k] = Items[m + k]
  BY <1>4 DEF Left
<1>7. Items' = Items /\ ItemNode' = ItemNode  BY <1>1 DEF Items, ItemNode
<1>8. Made(m + 1)'  BY <1>1, <1>4, <1>7 DEF Made
<1>9. CASE Len(loop.items) > 1
  <2>1. loop' = [loop EXCEPT !.items = Tail(loop.items)] /\ ci' = 2  BY <1>6, <1>9 DEF NextItem
  <2>2. loop'.start = 2 /\ loop'.items = Tail(loop.items)  BY <1>6, <2>1 DEF IInv, TypeOK
  <2>. DEFINE P == PropMaps
              s == loop.items
              t == Tail(s)
  <2>3. s \in Seq(P) /\ Len(s) = len - m /\ Len(s) > 1  BY <1>5, <1>6, <1>9
  <2>. HIDE DEF P, s
  <2>4. Len(t) = Len(s) - 1 /\ \A k \in 1..(Len(s) - 1) : t[k] = s[k + 1]  BY <2>3
  <2>. HIDE DEF t, len
  <2>5. m + 1 \in 0..(len - 1) /\ Len(t) = len - (m + 1)  BY <1>5, <1>6, <2>3, <2>4
  <2>6. ASSUME NEW k \in 1..(len - (m + 1)) PROVE t[k] = Items[m + 1 + k]
    <3>1. k \in 1..(Len(s) - 1) /\ k + 1 \in 1..(len - m) /\ m + (k + 1) = m + 1 + k  BY <1>5, <1>6, <2>3
    <3>2. t[k] = s[k + 1]  BY <2>4, <3>1
    <3>3. s[k + 1] = Items[m + (k + 1)]  BY <1>6, <3>1 DEF s
    <3>. QED  BY <3>1, <3>2, <3>3
  <2>7. Left(m + 1)'
    <3>1. loop'.items = t  BY <2>2 DEF t, s
    <3>. QED  BY <1>7, <2>2, <2>5, <2>6, <3>1 DEF Left, len
  <2>8. m + 1 \in Nat  OBVIOUS
  <2>. QED  BY <1>1, <1>8, <2>1, <2>7, <2>8 DEF UInv
<1>10. CASE ~(Len(loop.items) > 1)
  <2>1. loop' = NoLoop /\ ci' = 3  BY <1>3, <1>10 DEF NextItem
  <2>2. m + 1 = len  BY <1>5, <1>6, <1>10
  <2>3. Made(Len(Items))'  BY <1>7, <1>8, <2>2
  <2>. QED  BY <2>1, <2>3 DEF UInv, NoLoop
<1>. QED  BY <1>9, <1>10

\* Every step keeps it.
LEMMA UnwindInductive == IInv /\ UInv /\ [Next]_vars => UInv'
<1>. SUFFICES ASSUME IInv, UInv, [Next]_vars, CreatesItems(stmt)' PROVE UInv'
  BY DEF UInv
<1>0. ASSUME stmt' = <<>> PROVE FALSE
  <2>1. Len(<<>>) = 0  OBVIOUS
  <2>. QED  BY <1>0, <2>1 DEF CreatesItems
<1>1. ASSUME NEW s \in Statements, Submit(s) PROVE UInv'
  <2>1. ci' = 1 /\ context' = NoContext /\ loop' = loop /\ stmt = <<>>  BY <1>1 DEF Submit
  <2>2. loop.start = 0  BY <2>1 DEF IInv, LoopInv
  <2>. QED  BY <2>1, <2>2 DEF UInv
<1>2. CASE Create  BY <1>2, CreateMakes
<1>3. CASE Unwind  BY <1>3, UnwindMakes
<1>4. CASE NextItem  BY <1>4, NextItemMakes
<1>5. CASE CreateFails \/ Finish  BY <1>0, <1>5 DEF CreateFails, Finish
<1>6. CASE Match \/ MatchWhere \/ Where \/ Return \/ Delete \/ Set
  <2>1. ci \in DOMAIN stmt /\ stmt[ci].type \notin {"unwind", "create"} /\ stmt' = stmt
    BY <1>6 DEF Match, MatchWhere, Where, Return, Delete, Set, At, Advance
  <2>2. CreatesItems(stmt)  BY <2>1 DEF CreatesItems
  <2>. QED  BY <2>1, <2>2, ItemsType
<1>7. CASE UNCHANGED vars
  <2>1. UNCHANGED <<view, next_id, stmt, ci, context, loop>>  BY <1>7 DEF vars, memory
  <2>2. \A m : (Made(m) <=> Made(m)') /\ (Left(m) <=> Left(m)')  BY <2>1 DEF Made, Left, Items, ItemNode
  <2>3. Items' = Items  BY <2>1 DEF Items
  <2>. QED  BY <2>1, <2>2, <2>3 DEF UInv
<1>. QED  BY <1>1, <1>2, <1>3, <1>4, <1>5, <1>6, <1>7 DEF Next

\* UNWIND list CREATE (n ...) leaves one node for every item under consecutive ids in
\* the order of the list, with the literals of the pattern and the properties of the
\* item; what is neither, and what the item lacks, is stored as the empty value.
THEOREM UnwindIsExact == Spec => []UnwindCreatesEach
<1>1. Init => UInv
  <2>1. Init => ci = 1 /\ loop.start = 0 /\ context = NoContext  BY DEF Init, NoLoop
  <2>. QED  BY <2>1 DEF UInv
<1>2. IInv /\ UInv => UnwindCreatesEach
  <2>. SUFFICES ASSUME IInv, UInv, ci = Len(stmt) + 1, loop.start = 0, Len(stmt) = 2, Opens(stmt[1]),
                       stmt[2].type = "create", Len(stmt[2].paths) = 1,
                       NEW path \in ToSet(stmt[2].paths), Len(path.nodes) = 1
                PROVE  LET items == stmt[1].items
                           first == next_id - Len(items)
                       IN  first \in Ids /\ \A k \in DOMAIN items :
                             view.nodes[first + k - 1] = Stored(path.nodes[1], items[k])
    BY DEF UnwindCreatesEach
  <2>1. path = stmt[2].paths[1]
    <3>1. 2 \in DOMAIN stmt
      <4>1. stmt \in Statements \cup {<<>>}  BY DEF IInv, TypeOK
      <4>. QED  BY <4>1, StatementType
    <3>2. stmt[2].paths \in Seq(Paths(Types))  BY <3>1, ClauseType DEF IInv, TypeOK
    <3>. DEFINE paths == stmt[2].paths
    <3>3. DOMAIN paths = 1..1  BY <3>2
    <3>. QED  BY <3>3 DEF ToSet
  <2>2. CreatesItems(stmt)  BY <2>1 DEF CreatesItems
  <2>3. Made(Len(Items))
    <3>1. ci = 3  OBVIOUS
    <3>2. \A m : ~Left(m)  BY DEF Left
    <3>. QED  BY <2>2, <3>1, <3>2 DEF UInv
  <2>4. /\ Items \in Seq(PropMaps) /\ Len(Items) \in Nat /\ Len(Items) >= 1
        /\ next_id \in Nat /\ next_id <= MaxId + 1
    BY <2>2, ItemsType, TypesBefore
  <2>5. DOMAIN Items = 1..Len(Items)  BY <2>4
  <2>6. next_id - Len(Items) \in Ids  BY <2>3, <2>4, ConstantsAssumption DEF Made, Ids
  <2>. QED  BY <2>1, <2>3, <2>5, <2>6 DEF Made, Items, ItemNode
<1>3. IInv /\ UInv /\ [Next]_vars => UInv'  BY UnwindInductive
<1>. QED  BY <1>1, <1>2, <1>3, Invariance, PTL DEF Spec
==============================================================================
