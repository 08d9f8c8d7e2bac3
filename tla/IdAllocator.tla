----------------------------- MODULE IdAllocator -----------------------------
(***************************************************************************)
(* storage::allocate_id at the grain of its loads and stores, called from  *)
(* transactions of several request threads, with aborts and restarts.      *)
(*                                                                         *)
(* next_id_, sequence_batch_remaining_ and sequence_version_ are plain     *)
(* members that no lock protects, so an increment is a load and a store.   *)
(* The sequence_put belongs to the transaction that happens to start a     *)
(* batch: it becomes durable when that transaction commits and is gone     *)
(* when it aborts, while the counters in memory stay.  Restarts here are   *)
(* those in which sequence_get finds the value of the run before;          *)
(* GraphStorage has those in which it finds a new sequence.                *)
(***************************************************************************)
EXTENDS Naturals

CONSTANTS
  Threads,      \* request-handling threads
  BATCH,        \* SEQUENCE_BATCH_SIZE
  WORD,         \* 2^64: sequence_batch_remaining_ is a uint64_t
  PutFails,     \* whether sequence_put may return an error
  None,         \* no pending sequence_put
  MaxId,        \* bound: ids handed out
  MaxRestarts   \* bound: restarts

ASSUME AllocatorAssumption ==
  /\ BATCH \in Nat \ {0}
  /\ WORD \in Nat /\ BATCH < WORD
  /\ PutFails \in BOOLEAN
  /\ MaxId \in Nat /\ MaxRestarts \in Nat
  /\ None \notin [version : Nat, value : Nat]

Ids == 1..MaxId

VARIABLES
  next_id,    \* next_id_
  remaining,  \* sequence_batch_remaining_
  version,    \* sequence_version_
  seq,        \* the durable sequence: its version and value
  pc,         \* where each thread is
  id,         \* the local variable id of each thread
  left,       \* the value of remaining a thread has loaded
  put,        \* the sequence_put of each thread's transaction, or None
  mine,       \* the ids each thread's transaction was given
  committed,  \* history: how many records were committed under each id (the two
              \* tables admit one node and one edge)
  lost,       \* history: a reservation did not become durable
  restarts

memory == <<next_id, remaining, version>>
history == <<committed, lost, restarts>>
vars == <<next_id, remaining, version, seq, pc, id, left, put, mine, committed, lost, restarts>>

Init ==
  /\ next_id = 1 /\ remaining = 0 /\ version = 0
  /\ seq = [version |-> 0, value |-> 0]
  /\ pc = [t \in Threads |-> "idle"]
  /\ id = [t \in Threads |-> 0]
  /\ left = [t \in Threads |-> 0]
  /\ put = [t \in Threads |-> None]
  /\ mine = [t \in Threads |-> {}]
  /\ committed = [i \in Ids |-> 0]
  /\ lost = FALSE
  /\ restarts = 0

Goto(t, from, to) == pc[t] = from /\ pc' = [pc EXCEPT ![t] = to]

-----------------------------------------------------------------------------
Begin(t) ==
  /\ Goto(t, "idle", "tx")
  /\ UNCHANGED <<memory, seq, id, left, put, mine, history>>

\* id = next_id_++, the load.
LoadId(t) ==
  /\ next_id \in Ids
  /\ Goto(t, "tx", "store")
  /\ id' = [id EXCEPT ![t] = next_id]
  /\ UNCHANGED <<memory, seq, left, put, mine, history>>

\* id = next_id_++, the store.
StoreId(t) ==
  /\ Goto(t, "store", "test")
  /\ next_id' = id[t] + 1
  /\ UNCHANGED <<remaining, version, seq, id, left, put, mine, history>>

\* Mutant of TestRemaining: the test is forgotten.
TestRemainingNever(t) ==
  /\ left' = [left EXCEPT ![t] = remaining]
  /\ Goto(t, "test", "count")
  /\ UNCHANGED <<memory, seq, id, put, mine, history>>

\* if (sequence_batch_remaining_ == 0), and the load of the decrement.
TestRemaining(t) ==
  /\ left' = [left EXCEPT ![t] = remaining]
  /\ IF remaining = 0 THEN Goto(t, "test", "reserve") ELSE Goto(t, "test", "count")
  /\ UNCHANGED <<memory, seq, id, put, mine, history>>

\* Mutant of BatchEnd: one id less.
BatchEndShort == next_id + BATCH - 3

\* Mutant of BatchEnd: one batch more.
BatchEndLong == next_id + 2 * BATCH - 2

\* The value that covers the whole batch; next_id_ is read again here.
BatchEnd == next_id + BATCH - 2

\* A batch is reserved.  An error of sequence_put is logged, and the batch is
\* used all the same.
ReserveBatch(t) ==
  /\ Goto(t, "reserve", "tx")
  /\ version' = version + 1
  /\ \/ /\ put' = [put EXCEPT ![t] = [version |-> version + 1, value |-> BatchEnd]]
        /\ lost' = lost
     \/ /\ PutFails
        /\ put' = put
        /\ lost' = TRUE
  /\ remaining' = BATCH - 1
  /\ mine' = [mine EXCEPT ![t] = @ \cup {id[t]}]
  /\ UNCHANGED <<next_id, seq, id, left, committed, restarts>>

\* sequence_batch_remaining_--, the store.
CountDown(t) ==
  /\ Goto(t, "count", "tx")
  /\ remaining' = IF left[t] = 0 THEN WORD - 1 ELSE left[t] - 1
  /\ mine' = [mine EXCEPT ![t] = @ \cup {id[t]}]
  /\ UNCHANGED <<next_id, version, seq, id, left, put, history>>

\* The engine keeps the put with the highest version.
Commit(t) ==
  /\ Goto(t, "tx", "idle")
  /\ seq' = IF put[t] # None /\ put[t].version > seq.version THEN put[t] ELSE seq
  /\ committed' = [i \in Ids |-> IF i \in mine[t] THEN committed[i] + 1 ELSE committed[i]]
  /\ put' = [put EXCEPT ![t] = None]
  /\ mine' = [mine EXCEPT ![t] = {}]
  /\ UNCHANGED <<memory, id, left, lost, restarts>>

Abort(t) ==
  /\ Goto(t, "tx", "idle")
  /\ lost' = (lost \/ put[t] # None)
  /\ put' = [put EXCEPT ![t] = None]
  /\ mine' = [mine EXCEPT ![t] = {}]
  /\ UNCHANGED <<memory, seq, id, left, committed, restarts>>

\* The process stops with whatever is running; storage::init reads the durable
\* sequence.
Restart ==
  /\ restarts < MaxRestarts
  /\ restarts' = restarts + 1
  /\ version' = seq.version
  /\ next_id' = seq.value + 1
  /\ remaining' = 0
  /\ pc' = [t \in Threads |-> "idle"]
  /\ put' = [t \in Threads |-> None]
  /\ mine' = [t \in Threads |-> {}]
  /\ UNCHANGED <<seq, id, left, committed, lost>>

Step(t) ==
  \/ Begin(t) \/ LoadId(t) \/ StoreId(t) \/ TestRemaining(t) \/ ReserveBatch(t)
  \/ CountDown(t) \/ Commit(t) \/ Abort(t)

Next == Restart \/ \E t \in Threads : Step(t)

Spec == Init /\ [][Next]_vars

-----------------------------------------------------------------------------
\* Types; sequence_batch_remaining_ stays below SEQUENCE_BATCH_SIZE, that is, the
\* unsigned decrement of allocate_id never wraps.
TypeOK ==
  /\ next_id \in Nat \ {0}
  /\ remaining \in 0..(BATCH - 1)
  /\ version \in Nat
  /\ seq \in [version : Nat, value : Nat]
  /\ pc \in [Threads -> {"idle", "tx", "store", "test", "reserve", "count"}]
  /\ id \in [Threads -> Nat]
  /\ left \in [Threads -> 0..(BATCH - 1)]
  /\ put \in [Threads -> [version : Nat, value : Nat] \cup {None}]
  /\ mine \in [Threads -> SUBSET Ids]
  /\ committed \in [Ids -> Nat]
  /\ lost \in BOOLEAN
  /\ restarts \in 0..MaxRestarts

\* What lets a single thread keep its ids unique.  The sequence, once the put of
\* the running transaction is in it, is the last id of the current batch.
Reserved(t) == IF put[t] = None THEN seq.value ELSE put[t].value

\* Where a thread alone in allocate_id is.
Alone(t) ==
  /\ pc[t] = "idle" => put[t] = None /\ mine[t] = {}
  /\ pc[t] = "store" => id[t] = next_id /\ id[t] \in Ids
  /\ pc[t] \in {"test", "reserve", "count"} => next_id = id[t] + 1 /\ id[t] \in Ids
  /\ pc[t] = "reserve" => remaining = 0
  /\ pc[t] = "count" => left[t] = remaining /\ remaining > 0

\* The first id that is not yet in mine.
Ahead(t) == IF pc[t] \in {"test", "reserve", "count"} THEN id[t] ELSE next_id

\* The batch arithmetic, as long as no reservation was lost.
Covered(t) ==
  /\ Reserved(t) + 1 = Ahead(t) + remaining
  /\ seq.version <= version
  /\ put[t] # None => /\ seq.version < put[t].version /\ put[t].version <= version
                      /\ seq.value <= put[t].value
  /\ \A i \in mine[t] : i < Ahead(t) /\ i <= Reserved(t) /\ committed[i] = 0
  /\ \A i \in Ids : committed[i] \in {0, 1} /\ (committed[i] = 1 => i < Ahead(t) /\ i <= seq.value)

\* Inductive when there is one thread.
AllocInv == \A t \in Threads : Alone(t) /\ (~lost => Covered(t))

\* No id is committed to two records ("next unique ID", storage.h).
UniqueIds == \A i \in Ids : committed[i] <= 1

\* With one thread, ids are unique over restarts as long as every transaction
\* that reserved a batch committed.
UniqueUnlessLost == ~lost => UniqueIds

\* With one thread and no lost reservation, a restart continues behind every
\* committed id and skips at most the unused rest of the batch.
RestartSkipsLessThanABatch ==
  [][~lost /\ Restart =>
       /\ next_id' <= next_id + BATCH - 1
       /\ \A i \in Ids : committed[i] > 0 => next_id' > i]_vars
=============================================================================
