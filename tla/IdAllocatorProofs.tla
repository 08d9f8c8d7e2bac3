-------------------------- MODULE IdAllocatorProofs --------------------------
(***************************************************************************)
(* One thread at a time is enough for allocate_id: what is proved here     *)
(* holds for every batch size and word width, over aborts and restarts.    *)
(* With two threads it is false (the run that looks for it finds two       *)
(* records with one id).                                                   *)
(***************************************************************************)
EXTENDS IdAllocator, TLAPS

\* Sole thread: the premise of every result below.
Sole(t) == Threads = {t}

\* Types and the position of the thread are kept by every step.
LEMMA TypeAndPositionStep ==
  ASSUME NEW t, Sole(t), TypeOK, Alone(t), [Next]_vars
  PROVE  TypeOK' /\ Alone(t)'
<1>. USE AllocatorAssumption DEF TypeOK, Alone, Sole, Goto
<1>1. CASE Begin(t)  BY <1>1 DEF Begin, memory, history
<1>2. CASE LoadId(t)  BY <1>2 DEF LoadId, memory, history
<1>3. CASE StoreId(t)  BY <1>3 DEF StoreId, history, Ids
<1>4. CASE TestRemaining(t)  BY <1>4 DEF TestRemaining, memory, history
<1>5. CASE ReserveBatch(t)
  <2>1. id[t] \in Ids /\ next_id = id[t] + 1 /\ pc[t] = "reserve" /\ id[t] \in Nat \ {0}
    BY <1>5 DEF ReserveBatch, Ids
  <2>2. BatchEnd \in Nat  BY <2>1 DEF BatchEnd
  <2>3. [version |-> version + 1, value |-> BatchEnd] \in [version : Nat, value : Nat]
    BY <2>2
  <2>4. put' \in [Threads -> [version : Nat, value : Nat] \cup {None}] /\ lost' \in BOOLEAN
    <3>. HIDE DEF Alone
    <3>. DEFINE r == [version |-> version + 1, value |-> BatchEnd]
    <3>1. r \in [version : Nat, value : Nat]  BY <2>3
    <3>0. put \in [Threads -> [version : Nat, value : Nat] \cup {None}] /\ lost \in BOOLEAN
          /\ t \in Threads
      OBVIOUS
    <3>. HIDE DEF r, TypeOK
    <3>2. (put' = [put EXCEPT ![t] = r] /\ lost' = lost) \/ (put' = put /\ lost' = TRUE)
      BY <1>5 DEF ReserveBatch, r
    <3>. QED  BY <3>0, <3>1, <3>2
  <2>5. mine' \in [Threads -> SUBSET Ids]  BY <1>5, <2>1 DEF ReserveBatch
  <2>6. pc' = [pc EXCEPT ![t] = "tx"]  BY <1>5 DEF ReserveBatch
  <2>7. /\ version' = version + 1 /\ remaining' = BATCH - 1
        /\ UNCHANGED <<next_id, seq, id, left, committed, restarts>>
    BY <1>5 DEF ReserveBatch
  <2>. QED  BY <2>4, <2>5, <2>6, <2>7
<1>6. CASE CountDown(t)  BY <1>6 DEF CountDown, history
<1>7. CASE Commit(t)  BY <1>7 DEF Commit, memory
<1>8. CASE Abort(t)  BY <1>8 DEF Abort, memory
<1>9. CASE Restart  BY <1>9 DEF Restart
<1>10. CASE UNCHANGED vars  BY <1>10 DEF vars
<1>. QED
  BY <1>1, <1>2, <1>3, <1>4, <1>5, <1>6, <1>7, <1>8, <1>9, <1>10 DEF Next, Step

\* The batch arithmetic is kept by every step.
LEMMA CoveredStep ==
  ASSUME NEW t, Sole(t), TypeOK, Alone(t), [Next]_vars, ~lost => Covered(t), ~lost'
  PROVE  Covered(t)'
<1>. USE AllocatorAssumption DEF TypeOK, Sole, Goto
<1>1. ~lost
  BY DEF Next, Step, vars, Begin, LoadId, StoreId, TestRemaining, ReserveBatch, CountDown,
         Commit, Abort, Restart, history
<1>2. Covered(t)  BY <1>1
<1>3. \A i \in Ids : i \in Nat  BY DEF Ids
<1>4. CASE Begin(t)
  BY <1>2, <1>4 DEF Begin, memory, history, Covered, Reserved, Ahead
<1>5. CASE LoadId(t)
  BY <1>2, <1>5 DEF LoadId, memory, history, Covered, Reserved, Ahead
<1>6. CASE StoreId(t)
  BY <1>2, <1>6 DEF StoreId, history, Covered, Reserved, Ahead, Alone
<1>7. CASE TestRemaining(t)
  BY <1>2, <1>7 DEF TestRemaining, memory, history, Covered, Reserved, Ahead
<1>8. CASE CountDown(t)
  BY <1>2, <1>3, <1>8 DEF CountDown, history, Covered, Reserved, Ahead, Alone
<1>9. CASE Commit(t)
  BY <1>2, <1>3, <1>9 DEF Commit, memory, Covered, Reserved, Ahead
<1>10. CASE Abort(t)
  BY <1>1, <1>2, <1>3, <1>10 DEF Abort, memory, Covered, Reserved, Ahead
<1>11. CASE Restart
  BY <1>2, <1>3, <1>11 DEF Restart, Covered, Reserved, Ahead
<1>12. CASE UNCHANGED vars
  BY <1>2, <1>12 DEF vars, Covered, Reserved, Ahead
<1>13. CASE ReserveBatch(t)
  <2>. DEFINE r == [version |-> version + 1, value |-> BatchEnd]
  <2>1. /\ pc[t] = "reserve" /\ remaining = 0 /\ next_id = id[t] + 1 /\ id[t] \in Nat
        /\ t \in Threads
    BY <1>13, <1>3 DEF ReserveBatch, Alone
  <2>2. /\ pc'[t] = "tx" /\ remaining' = BATCH - 1 /\ version' = version + 1
        /\ put'[t] = r
        /\ mine'[t] = mine[t] \cup {id[t]}
        /\ UNCHANGED <<next_id, seq, id, committed>>
    BY <1>13 DEF ReserveBatch
  <2>3. r # None /\ r.version = version + 1 /\ r.value = id[t] + BATCH - 1
    <3>1. BatchEnd = id[t] + BATCH - 1 /\ BatchEnd \in Nat  BY <2>1 DEF BatchEnd
    <3>2. r \in [version : Nat, value : Nat]  BY <3>1
    <3>. QED  BY <3>1, <3>2
  <2>. HIDE DEF r
  <2>4. Ahead(t) = id[t] /\ Ahead(t)' = id[t] + 1 /\ Reserved(t)' = id[t] + BATCH - 1
    BY <2>1, <2>2, <2>3 DEF Ahead, Reserved
  <2>5. Reserved(t) + 1 = id[t] /\ seq.value <= Reserved(t)
    BY <1>2, <2>1, <2>4 DEF Covered, Reserved
  <2>6. Reserved(t) \in Nat  BY <2>1 DEF Reserved
  <2>7. seq.version <= version  BY <1>2 DEF Covered
  <2>8. \A i \in mine[t] : i < id[t] /\ committed[i] = 0 /\ i \in Nat
    BY <1>2, <1>3, <2>1, <2>4 DEF Covered
  <2>9. \A i \in Ids : committed[i] \in {0, 1} /\ (committed[i] = 1 => i < id[t] /\ i <= seq.value)
    BY <1>2, <2>4 DEF Covered
  <2>10. committed[id[t]] = 0  BY <1>13, <2>1, <2>9 DEF ReserveBatch, Alone
  <2>11. /\ Reserved(t)' + 1 = Ahead(t)' + remaining'
         /\ seq'.version <= version'
         /\ put'[t] # None => /\ seq'.version < put'[t].version /\ put'[t].version <= version'
                              /\ seq'.value <= put'[t].value
    BY <2>1, <2>2, <2>3, <2>4, <2>5, <2>6, <2>7
  <2>12. ASSUME NEW i \in mine'[t]
         PROVE  i < Ahead(t)' /\ i <= Reserved(t)' /\ committed'[i] = 0
    <3>1. i \in mine[t] \/ i = id[t]  BY <2>2
    <3>2. i \in Nat /\ i <= id[t] /\ committed'[i] = 0  BY <2>1, <2>2, <2>8, <2>10, <3>1
    <3>. QED  BY <2>1, <2>4, <3>2
  <2>13. ASSUME NEW i \in Ids
         PROVE  committed'[i] \in {0, 1} /\ (committed'[i] = 1 => i < Ahead(t)' /\ i <= seq'.value)
    BY <1>3, <2>1, <2>2, <2>4, <2>9
  <2>. QED  BY <2>11, <2>12, <2>13 DEF Covered
<1>. QED
  BY <1>4, <1>5, <1>6, <1>7, <1>8, <1>9, <1>10, <1>11, <1>12, <1>13 DEF Next, Step

\* The invariant of allocate_id with one thread.
LEMMA AllocatorInvariant ==
  ASSUME NEW t, Sole(t)
  PROVE  Spec => [](TypeOK /\ AllocInv)
<1>1. Init => TypeOK /\ AllocInv
  <2>. SUFFICES ASSUME Init PROVE TypeOK /\ AllocInv
    OBVIOUS
  <2>1. TypeOK
    <3>1. 0 \in 0..(BATCH - 1) /\ 0 \in 0..MaxRestarts  BY AllocatorAssumption
    <3>2. seq \in [version : Nat, value : Nat]  BY DEF Init
    <3>3. next_id \in Nat \ {0} /\ remaining \in 0..(BATCH - 1) /\ version \in Nat
          /\ restarts \in 0..MaxRestarts
      BY <3>1 DEF Init
    <3>7. lost \in BOOLEAN  BY Zenon DEF Init
    <3>4. /\ pc \in [Threads -> {"idle", "tx", "store", "test", "reserve", "count"}]
          /\ id \in [Threads -> Nat]
          /\ mine \in [Threads -> SUBSET Ids]
          /\ committed \in [Ids -> Nat]
      BY DEF Init
    <3>5. left \in [Threads -> 0..(BATCH - 1)]  BY <3>1 DEF Init
    <3>6. put \in [Threads -> [version : Nat, value : Nat] \cup {None}]  BY DEF Init
    <3>. QED  BY <3>2, <3>3, <3>4, <3>5, <3>6, <3>7 DEF TypeOK
  <2>2. ASSUME NEW s \in Threads PROVE Alone(s) /\ Covered(s)
    <3>1. Alone(s)  BY DEF Init, Alone
    <3>2. Ahead(s) = 1 /\ Reserved(s) = 0 /\ put[s] = None /\ mine[s] = {}
      BY DEF Init, Ahead, Reserved
    <3>3. remaining = 0 /\ seq.version = 0 /\ version = 0 /\ \A i \in Ids : committed[i] = 0
      BY DEF Init
    <3>. QED  BY <3>1, <3>2, <3>3 DEF Covered
  <2>. QED  BY <2>1, <2>2 DEF AllocInv
<1>2. TypeOK /\ AllocInv /\ [Next]_vars => (TypeOK /\ AllocInv)'
  <2>. SUFFICES ASSUME TypeOK, AllocInv, [Next]_vars PROVE TypeOK' /\ AllocInv'
    OBVIOUS
  <2>1. Alone(t) /\ (~lost => Covered(t))  BY DEF AllocInv, Sole
  <2>2. TypeOK' /\ Alone(t)'  BY <2>1, TypeAndPositionStep
  <2>3. ~lost' => Covered(t)'  BY <2>1, CoveredStep
  <2>. QED  BY <2>2, <2>3 DEF AllocInv, Sole
<1>. QED  BY <1>1, <1>2, PTL DEF Spec

\* With one thread the batch counter of allocate_id never wraps, in any
\* sequence of commits, aborts and restarts.
THEOREM AllocatorTypeCorrect ==
  ASSUME NEW t, Sole(t)
  PROVE  Spec => []TypeOK
  BY AllocatorInvariant, PTL

\* With one thread ids stay unique over restarts unless a reservation is lost.
THEOREM AllocatorUnique ==
  ASSUME NEW t, Sole(t)
  PROVE  Spec => []UniqueUnlessLost
<1>1. TypeOK /\ AllocInv => UniqueUnlessLost
  BY DEF AllocInv, Sole, Covered, UniqueUnlessLost, UniqueIds
<1>. QED  BY <1>1, AllocatorInvariant, PTL

\* With one thread and no lost reservation a restart continues behind every
\* committed id and leaves out less than a batch.
THEOREM AllocatorRestart ==
  ASSUME NEW t, Sole(t)
  PROVE  Spec => RestartSkipsLessThanABatch
<1>1. ASSUME TypeOK, AllocInv, ~lost, Restart
      PROVE  /\ next_id' <= next_id + BATCH - 1
             /\ \A i \in Ids : committed[i] > 0 => next_id' > i
  <2>1. Covered(t) /\ Alone(t) /\ t \in Threads  BY <1>1 DEF AllocInv, Sole
  <2>2. next_id' = seq.value + 1  BY <1>1 DEF Restart
  <2>3. /\ next_id \in Nat /\ remaining \in 0..(BATCH - 1) /\ seq.value \in Nat
        /\ (put[t] # None => put[t].value \in Nat)
    BY <1>1, <2>1 DEF TypeOK
  <2>4. Ahead(t) <= next_id /\ Ahead(t) \in Nat
    BY <1>1, <2>1, <2>3 DEF Ahead, Alone, TypeOK
  <2>5. Reserved(t) \in Nat /\ seq.value <= Reserved(t) /\ Reserved(t) + 1 = Ahead(t) + remaining
    BY <2>1, <2>3 DEF Covered, Reserved
  <2>6. next_id' <= next_id + BATCH - 1
    BY <2>2, <2>3, <2>4, <2>5, AllocatorAssumption
  <2>7. ASSUME NEW i \in Ids, committed[i] > 0 PROVE next_id' > i
    <3>1. i \in Nat /\ i <= seq.value  BY <2>1, <2>7 DEF Covered, Ids
    <3>. QED  BY <2>2, <2>3, <3>1
  <2>. QED  BY <2>6, <2>7
<1>2. TypeOK /\ AllocInv =>
        [~lost /\ Restart =>
           /\ next_id' <= next_id + BATCH - 1
           /\ \A i \in Ids : committed[i] > 0 => next_id' > i]_vars
  BY <1>1
<1>. QED  BY <1>2, AllocatorInvariant, PTL DEF RestartSkipsLessThanABatch, Spec
=============================================================================
