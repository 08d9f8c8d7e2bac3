----------------------------- MODULE ServerProofs -----------------------------
(***************************************************************************)
(* Proofs about Service, for any number of threads, any mix of requests,   *)
(* any cache and any MAX_RETRIES, and about Server, for any list of        *)
(* storages and any number of boots that fail or are killed.               *)
(***************************************************************************)
EXTENDS Server, TLAPS

-----------------------------------------------------------------------------
(***************************************************************************)
(* The requests.                                                           *)
(***************************************************************************)

\* The labels at which a transaction is active, and the ones only a cypher
\* request visits.
Active == {"lookup", "parse", "put", "execute", "commit", "read"}
InLoop == {"lookup", "parse", "put", "execute", "commit", "sleep"}

\* The part of the invariant about one request: the control handle follows the
\* label; there is no reply before the loop or the read has ended; without a
\* WAITING commit nothing is open, and the request is applied exactly when a
\* cypher request was answered with success.
RequestInv(r) ==
  /\ txn[r] # "none" => pc[r] \notin {"receive", "done"}
  /\ txn[r] = "begun" <=> pc[r] = "borrow"
  /\ txn[r] = "active" <=> pc[r] \in Active
  /\ pc[r] = "respond" => (txn[r] = "ended" <=> reply[r] \notin {"begin_failed", "max_retries"})
  /\ pc[r] \notin {"respond", "done"} => reply[r] = Null
  /\ pc[r] = "borrow" /\ req[r].kind = "cypher" => attempt[r] < MAX_RETRIES
  /\ pc[r] \in InLoop => req[r].kind = "cypher" /\ attempt[r] < MAX_RETRIES
  /\ pc[r] = "read" => req[r].kind # "cypher"
  /\ r \notin waited => undecided[r] = 0
  /\ r \notin waited /\ ~(req[r].kind = "cypher" /\ reply[r] = "success") => applied[r] = 0
  /\ r \notin waited => applied[r] <= 1
  /\ req[r].kind # "cypher" => applied[r] = 0 /\ r \notin waited
  /\ req[r].kind = "cypher" /\ reply[r] = "success" => applied[r] >= 1
  /\ reply[r] = "max_retries" => attempt[r] = MAX_RETRIES

ServiceInv == ThreadsTypeOK /\ \A r \in Requests : RequestInv(r)

\* A response that was not set yet reads as neither of the two replies.
LEMMA NullIsNoReply == Null # "success" /\ Null # "max_retries"
BY ServiceAssumption DEF Replies, Codes

\* The invariant holds before any request is handled.
LEMMA InitServiceInv == Init => ServiceInv
<1>1. SUFFICES ASSUME Init PROVE ServiceInv
  OBVIOUS
<1>2. ThreadsTypeOK
  BY <1>1, ServiceAssumption DEF Init, ThreadsTypeOK
<1>3. ASSUME NEW r \in Requests PROVE RequestInv(r)
  <2>1. /\ pc[r] = "receive" /\ txn[r] = "none" /\ reply[r] = Null
        /\ applied[r] = 0 /\ undecided[r] = 0 /\ r \notin waited
    BY <1>1 DEF Init
  <2> QED BY <2>1, NullIsNoReply DEF RequestInv, Active, InLoop
<1> QED BY <1>2, <1>3 DEF ServiceInv

\* A step of r leaves what the other threads keep alone.
Others(r) ==
  /\ req' = req
  /\ \A o \in Requests \ {r} :
       /\ pc'[o] = pc[o] /\ attempt'[o] = attempt[o] /\ txn'[o] = txn[o]
       /\ reply'[o] = reply[o] /\ applied'[o] = applied[o] /\ undecided'[o] = undecided[o]
       /\ o \in waited' <=> o \in waited

\* What a step of r leaves alone keeps its part of the invariant.
LEMMA OthersKeep ==
  ASSUME NEW r \in Requests, ServiceInv, Others(r), RequestInv(r)', ThreadsTypeOK'
  PROVE  ServiceInv'
BY DEF ServiceInv, RequestInv, Others

\* Every step of a thread, and every decision of the engine, keeps the invariant.
LEMMA StepServiceInv ==
  ASSUME ServiceInv, NEW r \in Requests, Work(r) \/ Decide(r)
  PROVE  ServiceInv'
<1> USE ServiceAssumption, NullIsNoReply
<1>0. ThreadsTypeOK /\ RequestInv(r) BY DEF ServiceInv
<1>1. CASE Refuse(r)
  <2>1. ThreadsTypeOK' /\ RequestInv(r)' /\ Others(r)
    BY <1>0, <1>1 DEF Refuse, Goto, Answer, ThreadsTypeOK, RequestInv, Others, Active, InLoop, Replies, Codes
  <2> QED BY <2>1, OthersKeep
<1>2. CASE Begin(r)
  <2>1. ThreadsTypeOK' /\ RequestInv(r)' /\ Others(r)
    <3>1. CASE pc'[r] = "borrow"
      <4>1. /\ pc[r] = "receive" /\ pc' = [pc EXCEPT ![r] = "borrow"]
            /\ txn' = [txn EXCEPT ![r] = "begun"]
            /\ req[r].kind = "cypher" /\ attempt[r] < MAX_RETRIES
            /\ UNCHANGED <<req, attempt, applied, undecided, waited, reply>>
        BY <1>0, <1>2, <3>1 DEF Begin, BeginTransaction, Goto, Guard, ThreadsTypeOK, RequestInv, InLoop
      <4>2. ThreadsTypeOK'
        BY <1>0, <4>1 DEF ThreadsTypeOK, Replies, Codes
      <4>3. RequestInv(r)'
        BY <1>0, <4>1 DEF ThreadsTypeOK, RequestInv, Active, InLoop
      <4>4. Others(r)
        BY <1>0, <4>1 DEF ThreadsTypeOK, Others
      <4> QED BY <4>2, <4>3, <4>4
    <3>2. CASE pc'[r] = "sleep"
      BY <1>0, <1>2, <3>2 DEF Begin, BeginTransaction, Goto, Guard, ThreadsTypeOK, RequestInv, Others, Active, InLoop,
         Replies, Codes
    <3> QED BY <1>0, <1>2, <3>1, <3>2 DEF Begin, BeginTransaction, Goto, ThreadsTypeOK
  <2> QED BY <2>1, OthersKeep
<1>3. CASE Lookup(r)
  <2>1. ThreadsTypeOK' /\ RequestInv(r)' /\ Others(r)
    <3>1. CASE pc'[r] = "parse"
      BY <1>0, <1>3, <3>1 DEF Lookup, Goto, ThreadsTypeOK, RequestInv, Others, Active, InLoop, Replies, Codes
    <3>2. CASE pc'[r] = "execute"
      BY <1>0, <1>3, <3>2 DEF Lookup, Goto, ThreadsTypeOK, RequestInv, Others, Active, InLoop, Replies, Codes
    <3> QED BY <1>0, <1>3, <3>1, <3>2 DEF Lookup, Goto, ThreadsTypeOK
  <2> QED BY <2>1, OthersKeep
<1>4. CASE Parse(r)
  <2>1. ThreadsTypeOK' /\ RequestInv(r)' /\ Others(r)
    <3>1. CASE req[r].query \in Valid
      BY <1>0, <1>4, <3>1 DEF Parse, Goto, Guard, Answer, ThreadsTypeOK, RequestInv, Others, Active, InLoop, Replies, Codes
    <3>2. CASE req[r].query \notin Valid
      <4>1. /\ pc[r] = "parse" /\ pc' = [pc EXCEPT ![r] = "respond"]
            /\ txn' = [txn EXCEPT ![r] = "ended"]
            /\ reply' = [reply EXCEPT ![r] = "exception"]
            /\ UNCHANGED <<req, attempt, applied, undecided, waited>>
        BY <1>0, <1>4, <3>2 DEF Parse, Goto, Guard, Answer, ThreadsTypeOK, RequestInv, InLoop
      <4>2. ThreadsTypeOK'
        BY <1>0, <4>1 DEF ThreadsTypeOK, Replies, Codes
      <4>3. RequestInv(r)'
        BY <1>0, <4>1 DEF ThreadsTypeOK, RequestInv, Active, InLoop
      <4>4. Others(r)
        BY <1>0, <4>1 DEF ThreadsTypeOK, Others
      <4> QED BY <4>2, <4>3, <4>4
    <3> QED BY <1>0, <1>4, <3>1, <3>2 DEF Parse, Goto, ThreadsTypeOK
  <2> QED BY <2>1, OthersKeep
<1>5. CASE CachePut(r)
  <2>1. ThreadsTypeOK' /\ RequestInv(r)' /\ Others(r)
    BY <1>0, <1>5 DEF CachePut, Goto, ThreadsTypeOK, RequestInv, Others, Active, InLoop, Replies, Codes
  <2> QED BY <2>1, OthersKeep
<1>6. CASE Execute(r)
  <2>1. ThreadsTypeOK' /\ RequestInv(r)' /\ Others(r)
    <3>1. CASE pc'[r] = "commit"
      BY <1>0, <1>6, <3>1 DEF Execute, Goto, Guard, Answer, ThreadsTypeOK, RequestInv, Others, Active, InLoop, Replies, Codes
    <3>2. CASE pc'[r] = "respond"
      <4>1. /\ pc[r] = "execute" /\ pc' = [pc EXCEPT ![r] = "respond"]
            /\ txn' = [txn EXCEPT ![r] = "ended"]
            /\ \E c \in {"execution_failed", "exception"} : reply' = [reply EXCEPT ![r] = c]
            /\ UNCHANGED <<req, attempt, applied, undecided, waited>>
        BY <1>0, <1>6, <3>2 DEF Execute, Goto, Guard, Answer, ThreadsTypeOK, RequestInv, InLoop
      <4>2. ThreadsTypeOK'
        BY <1>0, <4>1 DEF ThreadsTypeOK, Replies, Codes
      <4>3. RequestInv(r)'
        BY <1>0, <4>1 DEF ThreadsTypeOK, RequestInv, Active, InLoop
      <4>4. Others(r)
        BY <1>0, <4>1 DEF ThreadsTypeOK, Others
      <4> QED BY <4>2, <4>3, <4>4
    <3> QED BY <1>0, <1>6, <3>1, <3>2 DEF Execute, Goto, ThreadsTypeOK
  <2> QED BY <2>1, OthersKeep
<1>7. CASE CommitOk(r)
  <2>1. ThreadsTypeOK' /\ RequestInv(r)' /\ Others(r)
    BY <1>0, <1>7 DEF CommitOk, Goto, Guard, Answer, ThreadsTypeOK, RequestInv, Others, Active, InLoop, Replies, Codes
  <2> QED BY <2>1, OthersKeep
<1>8. CASE CommitRetry(r)
  <2>1. ThreadsTypeOK' /\ RequestInv(r)' /\ Others(r)
    <3>1. CASE waited' = waited /\ undecided' = undecided
      BY <1>0, <1>8, <3>1 DEF CommitRetry, Goto, Guard, ThreadsTypeOK, RequestInv, Others, Active, InLoop, Replies, Codes
    <3>2. CASE req[r].ltx /\ r \in waited'
      BY <1>0, <1>8, <3>2 DEF CommitRetry, Goto, Guard, ThreadsTypeOK, RequestInv, Others, Active, InLoop, Replies, Codes
    <3> QED BY <1>0, <1>8, <3>1, <3>2 DEF CommitRetry, Goto, ThreadsTypeOK
  <2> QED BY <2>1, OthersKeep
<1>9. CASE CommitFatal(r)
  <2>1. ThreadsTypeOK' /\ RequestInv(r)' /\ Others(r)
    BY <1>0, <1>9 DEF CommitFatal, Goto, Guard, Answer, ThreadsTypeOK, RequestInv, Others, Active, InLoop, Replies, Codes
  <2> QED BY <2>1, OthersKeep
<1>10. CASE Retry(r)
  <2>1. ThreadsTypeOK' /\ RequestInv(r)' /\ Others(r)
    BY <1>0, <1>10 DEF Retry, Goto, Guard, Dispose, ThreadsTypeOK, RequestInv, Others, Active, InLoop, Replies, Codes
  <2> QED BY <2>1, OthersKeep
<1>11. CASE GiveUp(r)
  <2>1. ThreadsTypeOK' /\ RequestInv(r)' /\ Others(r)
    <3>1. /\ pc[r] = "receive" /\ pc' = [pc EXCEPT ![r] = "respond"]
          /\ reply' = [reply EXCEPT ![r] = "max_retries"]
          /\ req[r].kind = "cypher" /\ attempt[r] = MAX_RETRIES
          /\ UNCHANGED <<req, attempt, applied, undecided, waited, txn>>
      <4>1. attempt[r] \in 0..MAX_RETRIES
        BY <1>0 DEF ThreadsTypeOK
      <4>2. attempt[r] >= MAX_RETRIES
        BY <1>11 DEF GiveUp
      <4>3. attempt[r] = MAX_RETRIES
        BY <4>1, <4>2
      <4> QED BY <1>11, <4>3 DEF GiveUp, Goto, Answer
    <3>2. ThreadsTypeOK'
      BY <1>0, <3>1 DEF ThreadsTypeOK, Replies, Codes
    <3>3. RequestInv(r)'
      BY <1>0, <3>1 DEF ThreadsTypeOK, RequestInv, Active, InLoop
    <3>4. Others(r)
      BY <1>0, <3>1 DEF ThreadsTypeOK, Others
    <3> QED BY <3>2, <3>3, <3>4
  <2> QED BY <2>1, OthersKeep
<1>12. CASE BeginGet(r)
  <2>1. ThreadsTypeOK' /\ RequestInv(r)' /\ Others(r)
    <3>1. CASE pc'[r] = "borrow"
      <4>1. /\ pc[r] = "receive" /\ pc' = [pc EXCEPT ![r] = "borrow"]
            /\ txn' = [txn EXCEPT ![r] = "begun"]
            /\ req[r].kind # "cypher"
            /\ UNCHANGED <<req, attempt, applied, undecided, waited, reply>>
        BY <1>0, <1>12, <3>1 DEF BeginGet, BeginTransaction, Goto, Guard, Answer, ThreadsTypeOK, RequestInv, InLoop
      <4>2. ThreadsTypeOK'
        BY <1>0, <4>1 DEF ThreadsTypeOK, Replies, Codes
      <4>3. RequestInv(r)'
        BY <1>0, <4>1 DEF ThreadsTypeOK, RequestInv, Active, InLoop
      <4>4. Others(r)
        BY <1>0, <4>1 DEF ThreadsTypeOK, Others
      <4> QED BY <4>2, <4>3, <4>4
    <3>2. CASE pc'[r] = "respond"
      <4>1. /\ pc[r] = "receive" /\ pc' = [pc EXCEPT ![r] = "respond"]
            /\ reply' = [reply EXCEPT ![r] = "begin_failed"]
            /\ req[r].kind # "cypher"
            /\ UNCHANGED <<req, attempt, applied, undecided, waited, txn>>
        BY <1>0, <1>12, <3>2 DEF BeginGet, BeginTransaction, Goto, Guard, Answer, ThreadsTypeOK, RequestInv, InLoop
      <4>2. ThreadsTypeOK'
        BY <1>0, <4>1 DEF ThreadsTypeOK, Replies, Codes
      <4>3. RequestInv(r)'
        BY <1>0, <4>1 DEF ThreadsTypeOK, RequestInv, Active, InLoop
      <4>4. Others(r)
        BY <1>0, <4>1 DEF ThreadsTypeOK, Others
      <4> QED BY <4>2, <4>3, <4>4
    <3> QED BY <1>0, <1>12, <3>1, <3>2 DEF BeginGet, BeginTransaction, Goto, ThreadsTypeOK
  <2> QED BY <2>1, OthersKeep
<1>12a. CASE BorrowHandle(r)
  <2>1. ThreadsTypeOK' /\ RequestInv(r)' /\ Others(r)
    <3>. DEFINE cypher == req[r].kind = "cypher"
                to == IF cypher THEN "lookup" ELSE "read"
                out == IF cypher THEN "sleep" ELSE "respond"
    <3>1. CASE txn'[r] = "active"
      <4>1. /\ pc[r] = "borrow" /\ pc' = [pc EXCEPT ![r] = to]
            /\ txn' = [txn EXCEPT ![r] = "active"]
            /\ UNCHANGED <<req, attempt, applied, undecided, waited, reply>>
        BY <1>0, <1>12a, <3>1 DEF BorrowHandle, Goto, Guard, ThreadsTypeOK
      <4>2. ThreadsTypeOK'
        BY <1>0, <4>1 DEF ThreadsTypeOK, Replies, Codes
      <4>3. RequestInv(r)'
        BY <1>0, <4>1 DEF ThreadsTypeOK, RequestInv, Active, InLoop
      <4>4. Others(r)
        BY <1>0, <4>1 DEF ThreadsTypeOK, Others
      <4> QED BY <4>2, <4>3, <4>4
    <3>2. CASE txn'[r] = "discarded"
      <4>1. /\ pc[r] = "borrow" /\ pc' = [pc EXCEPT ![r] = out]
            /\ txn' = [txn EXCEPT ![r] = "discarded"]
            /\ reply' = IF cypher THEN reply ELSE [reply EXCEPT ![r] = "begin_failed"]
            /\ UNCHANGED <<req, attempt, applied, undecided, waited>>
        BY <1>0, <1>12a, <3>2 DEF BorrowHandle, Goto, Guard, Answer, ThreadsTypeOK
      <4>2. ThreadsTypeOK'
        BY <1>0, <4>1 DEF ThreadsTypeOK, Replies, Codes
      <4>3. RequestInv(r)'
        BY <1>0, <4>1 DEF ThreadsTypeOK, RequestInv, Active, InLoop
      <4>4. Others(r)
        BY <1>0, <4>1 DEF ThreadsTypeOK, Others
      <4> QED BY <4>2, <4>3, <4>4
    <3> QED BY <1>0, <1>12a, <3>1, <3>2 DEF BorrowHandle, Guard, ThreadsTypeOK
  <2> QED BY <2>1, OthersKeep
<1>13. CASE Read(r)
  <2>1. ThreadsTypeOK' /\ RequestInv(r)' /\ Others(r)
    BY <1>0, <1>13 DEF Read, NotFound, Goto, Guard, Answer, ThreadsTypeOK, RequestInv, Others, Active, InLoop, Replies, Codes
  <2> QED BY <2>1, OthersKeep
<1>14. CASE Respond(r)
  <2>1. ThreadsTypeOK' /\ RequestInv(r)' /\ Others(r)
    BY <1>0, <1>14 DEF Respond, Goto, Guard, Dispose, ThreadsTypeOK, RequestInv, Others, Active, InLoop, Replies, Codes
  <2> QED BY <2>1, OthersKeep
<1>15. CASE Decide(r)
  <2>1. ThreadsTypeOK' /\ RequestInv(r)' /\ Others(r)
    BY <1>0, <1>15 DEF Decide, ThreadsTypeOK, RequestInv, Others, Active, InLoop, Replies, Codes
  <2> QED BY <2>1, OthersKeep
<1> QED BY <1>1, <1>2, <1>3, <1>4, <1>5, <1>6, <1>7, <1>8, <1>9, <1>10, <1>11, <1>12, <1>12a, <1>13, <1>14, <1>15 DEF Work

\* A step that changes nothing keeps the invariant.
LEMMA StutterServiceInv ==
  ASSUME ServiceInv, UNCHANGED vars PROVE ServiceInv'
BY DEF ServiceInv, ThreadsTypeOK, RequestInv, vars

\* operator() keeps the invariant for every interleaving of the threads and every
\* answer of the engine.
THEOREM ServiceInvariant == Spec => []ServiceInv
<1>1. ServiceInv /\ [Next]_vars => ServiceInv'
  BY StepServiceInv, StutterServiceInv DEF Next
<1> QED BY InitServiceInv, <1>1, PTL DEF Spec

\* A request no commit of which answered WAITING is applied at most once, for
\* every number of retries.
THEOREM AppliedAtMostOnce == Spec => []AppliedOnce
<1>1. ServiceInv => AppliedOnce
  BY DEF ServiceInv, RequestInv, AppliedOnce
<1> QED BY ServiceInvariant, <1>1, PTL

\* The reply to a request tells whether its writes are in the database.
THEOREM RepliesTruthful == Spec => []ReplyTruthful
<1>1. ServiceInv => ReplyTruthful
  BY DEF ServiceInv, RequestInv, ReplyTruthful, Codes
<1> QED BY ServiceInvariant, <1>1, PTL

\* The guard disposes of every transaction before the next one begins, and has ended
\* it before a reply that tells of its outcome.
THEOREM NoHandleLeaks == Spec => []NoHandleLeak
<1>1. ServiceInv => NoHandleLeak
  BY DEF ServiceInv, RequestInv, NoHandleLeak, Active
<1> QED BY ServiceInvariant, <1>1, PTL

-----------------------------------------------------------------------------
(***************************************************************************)
(* The cache and the statements.                                           *)
(***************************************************************************)
Entry == [query : Queries, stmt : Queries]
Labels == {"receive", "borrow", "lookup", "parse", "put", "execute", "commit", "sleep", "read", "respond",
           "done"}

\* Every entry maps a valid query to its own statement.
EntriesMatch ==
  /\ entries \in Seq(Entry) /\ Len(entries) <= CacheSize
  /\ \A i \in DOMAIN entries :
       entries[i].stmt = entries[i].query /\ entries[i].query \in Valid

\* What a thread holds is the statement of its own query, and it is valid before it
\* is put into the cache.
HoldsItsOwn(r) ==
  /\ pc[r] \in {"put", "execute", "commit"} => stmt[r] = req[r].query
  /\ pc[r] = "put" => req[r].query \in Valid

StatementsInv ==
  /\ EntriesMatch
  /\ stmt \in [Requests -> Queries \cup {Null}]
  /\ \A r \in Requests : HoldsItsOwn(r)

\* A cached query is valid, and the cache has its statement.
LEMMA CachedIsValid ==
  ASSUME EntriesMatch, NEW q \in Queries, Cache!Cached(q)
  PROVE  q \in Valid /\ Cache!StatementOf(q) = q /\ Cache!Position(q) \in DOMAIN entries
<1>1. Cache!Position(q) \in DOMAIN entries /\ entries[Cache!Position(q)].query = q
  BY DEF Cache!Cached, Cache!Position
<1> QED BY <1>1 DEF Cache!StatementOf, EntriesMatch

\* Moving a valid query to the front, with or without an eviction, keeps all that.
LEMMA InFrontMatches ==
  ASSUME EntriesMatch, NEW q \in Valid, entries' = Cache!InFront(q, q)
  PROVE  EntriesMatch'
<1> DEFINE place == Cache!Place(q)
           n == IF place > Len(entries) THEN place ELSE Len(entries)
           new == [query |-> q, stmt |-> q]
<1>1. /\ Len(entries) \in Nat /\ Len(entries) <= CacheSize /\ DOMAIN entries = 1..Len(entries)
      /\ CacheSize \in Nat \ {0}
      /\ \A i \in 1..Len(entries) : entries[i] \in Entry
  <2> HIDE DEF Entry
  <2> QED BY ServiceAssumption DEF EntriesMatch
<1>0. /\ q \in Queries /\ new \in Entry
      /\ \A i \in 1..Len(entries) : entries[i].stmt = entries[i].query /\ entries[i].query \in Valid
  BY <1>1, ServiceAssumption DEF EntriesMatch, Entry
<1>2. place \in 1..CacheSize /\ place <= Len(entries) + 1
  <2>1. CASE Cache!Cached(q)
    BY <1>0, <1>1, <2>1, CachedIsValid DEF Cache!Place
  <2>2. CASE ~Cache!Cached(q)
    BY <1>1, <2>2 DEF Cache!Place
  <2> QED BY <2>1, <2>2
<1>3. entries' = [i \in 1..n |-> IF i = 1 THEN new
                                 ELSE IF i <= place THEN entries[i - 1] ELSE entries[i]]
  BY DEF Cache!InFront
<1> HIDE DEF place, new
<1>4. n \in Nat /\ n <= CacheSize
  BY <1>1, <1>2
<1>5. ASSUME NEW i \in 1..n
      PROVE  entries'[i] = new \/ \E j \in 1..Len(entries) : entries'[i] = entries[j]
  <2>1. CASE i = 1
    BY <1>3, <2>1
  <2>2. CASE i # 1 /\ i <= place
    <3>1. i - 1 \in 1..Len(entries) /\ entries'[i] = entries[i - 1]
      BY <1>1, <1>2, <1>3, <2>2
    <3> QED BY <3>1
  <2>3. CASE i # 1 /\ ~(i <= place)
    <3>1. i \in 1..Len(entries) /\ entries'[i] = entries[i]
      BY <1>1, <1>2, <1>3, <2>3
    <3> QED BY <3>1
  <2> QED BY <2>1, <2>2, <2>3
<1>6. \A i \in 1..n :
        /\ entries'[i] \in Entry
        /\ entries'[i].stmt = entries'[i].query /\ entries'[i].query \in Valid
  BY <1>0, <1>1, <1>5 DEF new
<1>7. entries' \in [1..n -> Entry]
  BY <1>3, <1>6
<1> HIDE DEF n
<1> QED BY <1>4, <1>6, <1>7 DEF EntriesMatch

\* No thread has a statement before the first request.
LEMMA InitStatementsInv == Init => StatementsInv
<1> SUFFICES ASSUME Init PROVE StatementsInv
  OBVIOUS
<1>1. EntriesMatch
  BY ServiceAssumption DEF Init, EntriesMatch
<1> QED BY <1>1 DEF Init, StatementsInv, HoldsItsOwn

\* A step of r that leaves the entries in order and gives r its own statement.
LEMMA StatementsKept ==
  ASSUME StatementsInv, NEW r \in Requests, EntriesMatch', req' = req,
         NEW to, pc' = [pc EXCEPT ![r] = to], pc \in [Requests -> Labels],
         \/ stmt' = stmt
         \/ \E s \in Queries \cup {Null} : stmt' = [stmt EXCEPT ![r] = s],
         HoldsItsOwn(r)'
  PROVE  StatementsInv'
<1>1. stmt' \in [Requests -> Queries \cup {Null}]
  BY DEF StatementsInv
<1>2. ASSUME NEW o \in Requests, o # r PROVE HoldsItsOwn(o)'
  <2>1. pc'[o] = pc[o] /\ stmt'[o] = stmt[o] /\ req'[o] = req[o]
    BY <1>2 DEF StatementsInv
  <2> QED BY <2>1 DEF StatementsInv, HoldsItsOwn
<1> QED BY <1>1, <1>2 DEF StatementsInv

\* The threads look up, parse, put and execute in any interleaving, and may be
\* evicted in between.
LEMMA StepStatementsInv ==
  ASSUME StatementsInv, ThreadsTypeOK, NEW r \in Requests, Work(r) \/ Decide(r)
  PROVE  StatementsInv'
<1>1. /\ pc \in [Requests -> Labels] /\ stmt \in [Requests -> Queries \cup {Null}]
      /\ req[r].query \in Queries /\ EntriesMatch /\ HoldsItsOwn(r)
  <2>1. pc \in [Requests -> Labels]
    BY DEF ThreadsTypeOK, Labels
  <2>2. req[r].query \in Queries
    <3>1. req[r] \in [kind : Kinds, query : Queries, ltx : BOOLEAN]
      BY ServiceAssumption DEF ThreadsTypeOK
    <3> QED BY <3>1
  <2> QED BY <2>1, <2>2 DEF StatementsInv
<1>2. CASE Lookup(r)
  <2>1. CASE Cache!Cached(req[r].query)
    <3>1. /\ req[r].query \in Valid /\ Cache!StatementOf(req[r].query) = req[r].query
      BY <1>1, <2>1, CachedIsValid
    <3>2. /\ pc' = [pc EXCEPT ![r] = "execute"] /\ req' = req
          /\ stmt' = [stmt EXCEPT ![r] = req[r].query]
          /\ entries' = Cache!InFront(req[r].query, req[r].query)
      BY <1>2, <2>1, <3>1 DEF Lookup, Goto
    <3>3. EntriesMatch'
      BY <1>1, <3>1, <3>2, InFrontMatches
    <3>4. HoldsItsOwn(r)'
      BY <1>1, <3>2 DEF HoldsItsOwn
    <3> QED BY <1>1, <3>2, <3>3, <3>4, StatementsKept
  <2>2. CASE ~Cache!Cached(req[r].query)
    <3>1. pc' = [pc EXCEPT ![r] = "parse"] /\ UNCHANGED <<req, stmt, entries>>
      BY <1>2, <2>2 DEF Lookup, Goto
    <3>2. EntriesMatch' /\ HoldsItsOwn(r)'
      BY <1>1, <3>1 DEF EntriesMatch, HoldsItsOwn
    <3> QED BY <1>1, <3>1, <3>2, StatementsKept
  <2> QED BY <2>1, <2>2
<1>3. CASE Parse(r)
  <2>1. req' = req /\ entries' = entries
    BY <1>3 DEF Parse
  <2>2. EntriesMatch'
    BY <1>1, <2>1 DEF EntriesMatch
  <2>3. CASE req[r].query \in Valid
    <3>1. pc' = [pc EXCEPT ![r] = "put"] /\ stmt' = [stmt EXCEPT ![r] = req[r].query]
      BY <1>3, <2>3 DEF Parse, Goto
    <3>2. HoldsItsOwn(r)'
      BY <1>1, <2>1, <2>3, <3>1 DEF HoldsItsOwn
    <3> QED BY <1>1, <2>1, <2>2, <3>1, <3>2, StatementsKept
  <2>4. CASE req[r].query \notin Valid
    <3>1. pc' = [pc EXCEPT ![r] = "respond"] /\ stmt' = stmt
      BY <1>3, <2>4 DEF Parse, Goto
    <3>2. HoldsItsOwn(r)'
      BY <1>1, <2>1, <3>1 DEF HoldsItsOwn
    <3> QED BY <1>1, <2>1, <2>2, <3>1, <3>2, StatementsKept
  <2> QED BY <2>3, <2>4
<1>4. CASE CachePut(r)
  <2>1. /\ pc[r] = "put" /\ pc' = [pc EXCEPT ![r] = "execute"] /\ UNCHANGED <<req, stmt>>
        /\ entries' = Cache!InFront(req[r].query, stmt[r])
    BY <1>4 DEF CachePut, Goto
  <2>2. stmt[r] = req[r].query /\ req[r].query \in Valid
    BY <1>1, <2>1 DEF HoldsItsOwn
  <2>3. EntriesMatch'
    BY <1>1, <2>1, <2>2, InFrontMatches
  <2>4. HoldsItsOwn(r)'
    BY <1>1, <2>1, <2>2 DEF HoldsItsOwn
  <2> QED BY <1>1, <2>1, <2>3, <2>4, StatementsKept
<1>5. CASE Execute(r)
  <2>1. /\ pc[r] = "execute" /\ UNCHANGED <<req, stmt, entries>>
        /\ \E to \in {"commit", "respond"} : pc' = [pc EXCEPT ![r] = to]
    BY <1>5 DEF Execute, Goto
  <2>2. EntriesMatch' /\ HoldsItsOwn(r)'
    BY <1>1, <2>1 DEF EntriesMatch, HoldsItsOwn
  <2> QED BY <1>1, <2>1, <2>2, StatementsKept
<1>6. CASE \/ Refuse(r) \/ Begin(r) \/ CommitOk(r) \/ CommitRetry(r) \/ CommitFatal(r) \/ Retry(r)
           \/ GiveUp(r) \/ BeginGet(r) \/ BorrowHandle(r) \/ Read(r) \/ Respond(r)
  <2>1. /\ req' = req /\ entries' = entries
        /\ stmt' = stmt \/ stmt' = [stmt EXCEPT ![r] = Null]
        /\ \E to \in {"done", "borrow", "lookup", "sleep", "respond", "receive", "read"} :
             pc' = [pc EXCEPT ![r] = to]
    BY <1>6 DEF Refuse, Begin, BeginGet, BeginTransaction, BorrowHandle, CommitOk, CommitRetry, CommitFatal,
                Retry, GiveUp, Read, Respond, Goto
  <2>2. EntriesMatch' /\ HoldsItsOwn(r)'
    BY <1>1, <2>1 DEF EntriesMatch, HoldsItsOwn
  <2> QED BY <1>1, <2>1, <2>2, StatementsKept
<1>7. CASE Decide(r)
  BY <1>7 DEF Decide, StatementsInv, EntriesMatch, HoldsItsOwn
<1> QED BY <1>2, <1>3, <1>4, <1>5, <1>6, <1>7 DEF Work

\* The threads and the cache together.
LEMMA NextStatementsInv ==
  ServiceInv /\ StatementsInv /\ [Next]_vars => (ServiceInv /\ StatementsInv)'
<1>1. ASSUME ServiceInv, StatementsInv, Next PROVE (ServiceInv /\ StatementsInv)'
  BY <1>1, StepServiceInv, StepStatementsInv DEF Next, ServiceInv
<1>2. ASSUME ServiceInv, StatementsInv, UNCHANGED vars PROVE (ServiceInv /\ StatementsInv)'
  BY <1>2, StutterServiceInv DEF vars, StatementsInv, EntriesMatch, HoldsItsOwn
<1> QED BY <1>1, <1>2

LEMMA StatementsInvariant == Spec => [](ServiceInv /\ StatementsInv)
BY InitServiceInv, InitStatementsInv, NextStatementsInv, PTL DEF Spec

\* The types, and the bound of the cache that all threads share.
THEOREM ServiceTypeCorrect == Spec => []TypeOK
<1>1. ServiceInv /\ StatementsInv => TypeOK
  BY DEF ServiceInv, StatementsInv, EntriesMatch, Entry, TypeOK
<1> QED BY StatementsInvariant, <1>1, PTL

\* No interleaving of look-ups, puts and evictions makes a thread execute another
\* query's statement, or caches a query that does not parse.
THEOREM StatementsAlwaysMatch == Spec => []StatementsMatch
<1>1. StatementsInv => StatementsMatch
  BY DEF StatementsInv, EntriesMatch, HoldsItsOwn, StatementsMatch
<1> QED BY StatementsInvariant, <1>1, PTL

-----------------------------------------------------------------------------
(***************************************************************************)
(* The process.                                                            *)
(***************************************************************************)

\* What holds of the process between two steps: a boot begins without a
\* transaction, the storages are complete from the commit of resource::start on,
\* the pointers of the service are set while it serves, and no request is on its
\* way otherwise.
ServerInv ==
  /\ ServerTypeOK
  /\ InitTransactionOver
  /\ phase = "begin" => init_tx = "none"
  /\ phase \in {"commit", "service", "running"} => handles = Names
  /\ Serving => graph_resource /\ db_handle
  /\ \A r \in Requests : pc[r] \notin {"receive", "done"} => Serving

LEMMA InitServerInv == ServerInit => ServerInv
<1> SUFFICES ASSUME ServerInit PROVE ServerInv
  OBVIOUS
<1>1. ServerTypeOK
  <2>1. boots \in 0..MaxBoots
    BY ServerAssumption DEF ServerInit
  <2> QED BY <2>1 DEF ServerInit, ServerTypeOK
<1>2. \A r \in Requests : pc[r] = "receive"
  BY DEF ServerInit, Init
<1> QED BY <1>1, <1>2 DEF ServerInit, ServerInv, InitTransactionOver, Serving

\* The storages come in their order: with the last one all handles are set.
LEMMA LastHandle ==
  ASSUME NEW i \in DOMAIN Storages, i = Len(Storages),
         \A j \in 1..(i - 1) : Storages[j] \in handles, handles \subseteq Names
  PROVE  handles \cup {Storages[i]} = Names
<1>1. DOMAIN Storages = 1..Len(Storages) /\ Len(Storages) \in Nat
  BY ServerAssumption
<1>2. ASSUME NEW k \in DOMAIN Storages PROVE Storages[k] \in handles \cup {Storages[i]}
  <2>1. k \in 1..(i - 1) \/ k = i
    BY <1>1
  <2> QED BY <2>1
<1> QED BY <1>2 DEF Names

LEMMA BootKeeps == ServerInv /\ Boot => ServerInv'
<1> SUFFICES ASSUME ServerInv, Boot PROVE ServerInv'
  OBVIOUS
<1>1. phase = "down" /\ phase' = "begin"
  BY DEF Boot, Step
<1>2. ServerTypeOK'
  <2>1. boots' \in 0..MaxBoots
    BY ServerAssumption DEF ServerInv, ServerTypeOK, Boot
  <2> QED BY <1>1, <2>1 DEF ServerInv, ServerTypeOK, Boot
<1>3. \A r \in Requests : pc'[r] \in {"receive", "done"}
  BY <1>1 DEF ServerInv, Serving, Boot, vars
<1> QED BY <1>1, <1>2, <1>3 DEF ServerInv, InitTransactionOver, Serving, Boot

LEMMA StartKeeps ==
  ServerInv /\ (BeginInit \/ Borrow \/ CommitInit) => ServerInv'
<1> SUFFICES ASSUME ServerInv, BeginInit \/ Borrow \/ CommitInit PROVE ServerInv'
  OBVIOUS
<1> USE DEF ServerInv, ServerTypeOK, InitTransactionOver, Serving, Step, GiveUpInit, vars
<1>1. CASE BeginInit
  <2>1. CASE phase' = "borrow"
    <3>1. /\ phase = "begin" /\ init_tx' = "active"
          /\ UNCHANGED <<mode, created, handles, graph_resource, db_handle, boots, pc>>
      BY <1>1, <2>1 DEF BeginInit
    <3> QED BY <2>1, <3>1
  <2>2. CASE phase' = "failed"
    BY <1>1, <2>2 DEF BeginInit
  <2> QED BY <1>1, <2>1, <2>2 DEF BeginInit
<1>2. CASE Borrow
  BY <1>2 DEF Borrow
<1>3. CASE CommitInit
  BY <1>3 DEF CommitInit
<1> QED BY <1>1, <1>2, <1>3

LEMMA InitStorageKeeps ==
  ASSUME ServerInv, NEW i \in DOMAIN Storages, InitStorage(i) PROVE ServerInv'
<1>1. phase = "init" /\ UNCHANGED <<mode, graph_resource, db_handle, boots, pc>>
  BY DEF InitStorage, GiveUpInit, Step, vars
<1>2. CASE /\ created' = created \cup {Storages[i]} /\ handles' = handles \cup {Storages[i]}
           /\ UNCHANGED init_tx
           /\ phase' = IF i = Len(Storages) THEN "commit" ELSE "init"
  <2>1. Storages[i] \in Names
    BY DEF Names
  <2>2. phase' \in {"init", "commit"}
    BY <1>2
  <2>3. ServerTypeOK' /\ InitTransactionOver'
    BY <1>1, <1>2, <2>1, <2>2 DEF ServerInv, ServerTypeOK, InitTransactionOver
  <2>4. ASSUME phase' = "commit" PROVE handles' = Names
    <3>1. i = Len(Storages) /\ handles \subseteq Names
      BY <1>2, <2>4 DEF ServerInv, ServerTypeOK
    <3> QED BY <1>2, <3>1, LastHandle DEF InitStorage
  <2> QED BY <1>1, <2>2, <2>3, <2>4 DEF ServerInv, Serving
<1>3. CASE GiveUpInit("init") /\ UNCHANGED <<created, handles>>
  BY <1>1, <1>3 DEF GiveUpInit, Step, ServerInv, ServerTypeOK, InitTransactionOver, Serving
<1> QED BY <1>2, <1>3 DEF InitStorage, Step

LEMMA StartServiceKeeps == ServerInv /\ StartService => ServerInv'
<1> SUFFICES ASSUME ServerInv, StartService PROVE ServerInv'
  OBVIOUS
<1> USE DEF ServerInv, ServerTypeOK, InitTransactionOver, Serving, Step, vars
<1>1. CASE mode \in Idling /\ Step("service", "running") /\ UNCHANGED <<graph_resource, db_handle>>
  BY <1>1 DEF StartService
<1>2. CASE mode \notin Idling /\ Step("service", "running") /\ graph_resource' = TRUE /\ db_handle' = TRUE
  BY <1>2 DEF StartService
<1>3. CASE Step("service", "failed") /\ (\E found \in BOOLEAN : graph_resource' = found)
           /\ UNCHANGED db_handle
  BY <1>3 DEF StartService
<1> QED BY <1>1, <1>2, <1>3 DEF StartService

LEMMA EndKeeps == ServerInv /\ (EndProcess \/ Shutdown) => ServerInv'
<1> SUFFICES ASSUME ServerInv, EndProcess \/ Shutdown PROVE ServerInv'
  OBVIOUS
<1> USE DEF ServerInv, ServerTypeOK, InitTransactionOver, Serving, Step, vars
<1>1. CASE EndProcess
  BY <1>1 DEF EndProcess
<1>2. CASE Shutdown
  <2>1. \A r \in Requests : pc[r] \in {"receive", "done"}
    BY <1>2 DEF Shutdown
  <2> QED BY <1>2, <2>1 DEF Shutdown
<1> QED BY <1>1, <1>2

\* A request moves only while the service serves.
LEMMA RequestKeeps ==
  ASSUME ServerInv, NEW r \in Requests, Handle(r) \/ Settle(r) PROVE ServerInv'
BY DEF Handle, Settle, process, ServerInv, ServerTypeOK, InitTransactionOver, Serving

LEMMA ServerStep == ServerInv /\ [ServerNext]_serverVars => ServerInv'
<1> SUFFICES ASSUME ServerInv, [ServerNext]_serverVars PROVE ServerInv'
  OBVIOUS
<1>1. CASE UNCHANGED serverVars
  BY <1>1 DEF serverVars, process, vars, ServerInv, ServerTypeOK, InitTransactionOver, Serving
<1> QED
  BY <1>1, BootKeeps, StartKeeps, InitStorageKeeps, StartServiceKeeps, EndKeeps, RequestKeeps
     DEF ServerNext

THEOREM ServerInvariant == ServerSpec => []ServerInv
BY InitServerInv, ServerStep, PTL DEF ServerSpec

\* The state of the process has its types in every boot.
THEOREM ServerTypeCorrect == ServerSpec => []ServerTypeOK
<1>1. ServerInv => ServerTypeOK
  BY DEF ServerInv
<1> QED BY ServerInvariant, <1>1, PTL

\* operator() finds its pointers set and every storage open, whatever boots failed
\* before, in every mode in which it is called.
THEOREM ReadyForRequests == ServerSpec => []ReadyWhenUsed
<1>1. ServerInv => ReadyWhenUsed
  BY DEF ServerInv, ServerTypeOK, ReadyWhenUsed, Serving
<1> QED BY ServerInvariant, <1>1, PTL

\* resource::start disposes of its transaction on every way out.
THEOREM InitTransactionDisposed == ServerSpec => []InitTransactionOver
<1>1. ServerInv => InitTransactionOver
  BY DEF ServerInv
<1> QED BY ServerInvariant, <1>1, PTL

\* The server refines the service: a step of the process is a stutter of operator(),
\* and a request is handled as Service says.
THEOREM ServerImplementsService == ServerSpec => ImplementsService
<1>1. ServerInit => Init
  BY DEF ServerInit
<1>2. [ServerNext]_serverVars => [Next]_vars
  BY DEF ServerNext, serverVars, Boot, BeginInit, Borrow, InitStorage, CommitInit,
         StartService, EndProcess, Shutdown, Handle, Settle, Next
<1> QED BY <1>1, <1>2, PTL DEF ServerSpec, ImplementsService

\* What is proved of operator() by itself holds of every request of the server.
THEOREM ServerRequestsCorrect ==
  ServerSpec => [](TypeOK /\ AppliedOnce /\ ReplyTruthful /\ NoHandleLeak /\ StatementsMatch)
<1>1. ServiceInv /\ StatementsInv /\ [Next]_vars => (ServiceInv /\ StatementsInv)'
  BY NextStatementsInv
<1>2. ServiceInv => AppliedOnce /\ ReplyTruthful /\ NoHandleLeak
  BY DEF ServiceInv, RequestInv, AppliedOnce, ReplyTruthful, NoHandleLeak, Active, Codes
<1>3. ServiceInv /\ StatementsInv => TypeOK /\ StatementsMatch
  BY DEF ServiceInv, StatementsInv, EntriesMatch, HoldsItsOwn, Entry, TypeOK, StatementsMatch
<1> QED BY ServerImplementsService, InitServiceInv, InitStatementsInv, <1>1, <1>2, <1>3,
           PTL DEF ImplementsService
===============================================================================
