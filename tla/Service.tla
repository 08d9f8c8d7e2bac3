------------------------------- MODULE Service -------------------------------
(***************************************************************************)
(* service::operator() for requests that are handled at the same time, one *)
(* thread each: the transaction guard, the query cache, the retry loop and *)
(* the reply.  The threads share the query cache (each call of it is one   *)
(* step, under its mutex; here it is the abstract LruCache, which          *)
(* QueryCache implements) and the engine.                                  *)
(*                                                                         *)
(* What the engine answers is a choice at every call.  A long transaction  *)
(* whose commit answers WAITING_FOR_OTHER_TRANSACTION is not decided: the  *)
(* engine may still apply it, also after the handle was disposed of.       *)
(***************************************************************************)
EXTENDS Naturals, Sequences

CONSTANTS
  Requests,     \* the requests, each with its own thread
  Messages,     \* what a request may hold: [kind, query, ltx]
  Queries,
  Valid,        \* the queries the parser accepts
  CacheSize,    \* max_size_ of the query cache
  Null,
  MAX_RETRIES   \* 5 in the code

Kinds == {"cypher", "node_get", "edge_get", "other", "malformed"}

\* The error codes 1 to 6 and 101.
Codes == {"execution_failed", "fatal_commit", "exception", "begin_failed",
          "node_not_found", "edge_not_found", "max_retries"}
Replies == {"success", "empty", "rejected"} \cup Codes

ASSUME ServiceAssumption ==
  /\ Messages \subseteq [kind : Kinds, query : Queries, ltx : BOOLEAN]
  /\ Valid \subseteq Queries
  /\ CacheSize \in Nat \ {0}
  /\ MAX_RETRIES \in Nat
  /\ Null \notin Queries \cup Replies

VARIABLES
  entries,    \* the query cache
  req,        \* the parsed request of each thread
  pc,         \* where each thread is
  attempt,    \* the local attempt
  txn,        \* the guard: "none", "begun" (no handle yet), "discarded" (disposed of
              \* as begun), "active", or "ended" (not yet disposed of)
  stmt,       \* stmt_ptr, named by the query it was parsed from
  reply,      \* the response under construction: Null, "success", "empty",
              \* "rejected" (operator() returns false), or an error code
  applied,    \* history: how often the engine applied the request
  undecided,  \* how many commits of it answered WAITING and are not decided yet
  waited      \* history: requests whose commit answered WAITING

vars == <<entries, req, pc, attempt, txn, stmt, reply, applied, undecided, waited>>

Cache == INSTANCE LruCache WITH
  Statements <- Queries, MaxSize <- CacheSize, result <- Null

Init ==
  /\ entries = <<>>
  /\ req \in [Requests -> Messages]
  /\ pc = [r \in Requests |-> "receive"]
  /\ attempt = [r \in Requests |-> 0]
  /\ txn = [r \in Requests |-> "none"]
  /\ stmt = [r \in Requests |-> Null]
  /\ reply = [r \in Requests |-> Null]
  /\ applied = [r \in Requests |-> 0]
  /\ undecided = [r \in Requests |-> 0]
  /\ waited = {}

Goto(r, from, to) == pc[r] = from /\ pc' = [pc EXCEPT ![r] = to]
Guard(r, state) == txn' = [txn EXCEPT ![r] = state]
Answer(r, a) == reply' = [reply EXCEPT ![r] = a]

\* ctl_ and active_ as the destructor of tx_guard leaves them.
Dispose(r) == Guard(r, "none")

-----------------------------------------------------------------------------
(***************************************************************************)
(* Requests and cypher attempts.                                           *)
(***************************************************************************)

\* The payload does not parse, or holds none of the three requests.
Refuse(r) ==
  /\ req[r].kind \in {"malformed", "other"}
  /\ Goto(r, "receive", "done")
  /\ Answer(r, IF req[r].kind = "malformed" THEN "rejected" ELSE "empty")
  /\ UNCHANGED <<req, entries, attempt, txn, stmt, applied, undecided, waited>>

\* tx_guard::begin up to transaction_begin, which the engine may refuse.
BeginTransaction(r, refused) ==
  \/ Goto(r, "receive", "borrow") /\ Guard(r, "begun")
  \/ Goto(r, "receive", refused) /\ UNCHANGED txn

\* Mutant of Begin: the loop has no bound.
BeginUnbounded(r) ==
  /\ req[r].kind = "cypher"
  /\ BeginTransaction(r, "sleep")
  /\ UNCHANGED <<req, entries, attempt, stmt, reply, applied, undecided, waited>>

\* The head of the retry loop.
Begin(r) ==
  /\ req[r].kind = "cypher"
  /\ attempt[r] < MAX_RETRIES
  /\ BeginTransaction(r, "sleep")
  /\ UNCHANGED <<req, entries, attempt, stmt, reply, applied, undecided, waited>>

\* The other half of tx_guard::begin, for every kind of request.  When the engine
\* refuses the handle, the begun transaction is disposed of without an abort (that
\* of resource::start is aborted first), and ctl_ is null.
BorrowHandle(r) ==
  /\ \/ /\ Goto(r, "borrow", IF req[r].kind = "cypher" THEN "lookup" ELSE "read")
        /\ Guard(r, "active") /\ UNCHANGED reply
     \/ /\ Goto(r, "borrow", IF req[r].kind = "cypher" THEN "sleep" ELSE "respond")
        /\ Guard(r, "discarded")
        /\ IF req[r].kind = "cypher" THEN UNCHANGED reply ELSE Answer(r, "begin_failed")
  /\ UNCHANGED <<req, entries, attempt, stmt, applied, undecided, waited>>

\* query_cache::get.
Lookup(r) ==
  /\ \/ /\ Cache!Cached(req[r].query)
        /\ Goto(r, "lookup", "execute")
        /\ stmt' = [stmt EXCEPT ![r] = Cache!StatementOf(req[r].query)]
        /\ entries' = Cache!InFront(req[r].query, Cache!StatementOf(req[r].query))
     \/ /\ ~Cache!Cached(req[r].query)
        /\ Goto(r, "lookup", "parse")
        /\ UNCHANGED <<stmt, entries>>
  /\ UNCHANGED <<req, attempt, txn, reply, applied, undecided, waited>>

\* Mutant of Parse: the exception is caught after an empty statement was cached.
ParseAnything(r) ==
  /\ Goto(r, "parse", "put")
  /\ stmt' = [stmt EXCEPT ![r] = req[r].query]
  /\ UNCHANGED <<txn, reply>>
  /\ UNCHANGED <<req, entries, attempt, applied, undecided, waited>>

\* Lexer and parser; what they throw ends the request with code 3.
Parse(r) ==
  /\ \/ /\ req[r].query \in Valid
        /\ Goto(r, "parse", "put")
        /\ stmt' = [stmt EXCEPT ![r] = req[r].query]
        /\ UNCHANGED <<txn, reply>>
     \/ /\ req[r].query \notin Valid
        /\ Goto(r, "parse", "respond")
        /\ Guard(r, "ended") /\ Answer(r, "exception")
        /\ UNCHANGED stmt
  /\ UNCHANGED <<req, entries, attempt, applied, undecided, waited>>

\* query_cache::put.
CachePut(r) ==
  /\ Goto(r, "put", "execute")
  /\ entries' = Cache!InFront(req[r].query, stmt[r])
  /\ UNCHANGED <<req, attempt, txn, stmt, reply, applied, undecided, waited>>

\* executor::execute: true, false (code 1), or an exception (code 3).
Execute(r) ==
  /\ \/ Goto(r, "execute", "commit") /\ UNCHANGED <<txn, reply>>
     \/ /\ Goto(r, "execute", "respond")
        /\ Guard(r, "ended")
        /\ \E code \in {"execution_failed", "exception"} : Answer(r, code)
  /\ UNCHANGED <<req, entries, attempt, stmt, applied, undecided, waited>>

CommitOk(r) ==
  /\ Goto(r, "commit", "respond")
  /\ Guard(r, "ended")
  /\ applied' = [applied EXCEPT ![r] = @ + 1]
  /\ Answer(r, "success")
  /\ UNCHANGED <<req, entries, attempt, stmt, undecided, waited>>

\* Mutant of CommitRetry: is_retryable takes a code that may come after the
\* writes were applied.
CommitRetryApplied(r) ==
  /\ Goto(r, "commit", "sleep")
  /\ Guard(r, "ended")
  /\ \E a \in {0, 1} : applied' = [applied EXCEPT ![r] = @ + a]
  /\ UNCHANGED <<undecided, waited>>
  /\ UNCHANGED <<req, entries, attempt, stmt, reply>>

\* A code is_retryable accepts: the engine has aborted the transaction, or, for
\* WAITING_FOR_OTHER_TRANSACTION, has not decided it.
CommitRetry(r) ==
  /\ Goto(r, "commit", "sleep")
  /\ Guard(r, "ended")
  /\ \/ UNCHANGED <<undecided, waited>>
     \/ /\ req[r].ltx
        /\ undecided' = [undecided EXCEPT ![r] = @ + 1]
        /\ waited' = waited \cup {r}
  /\ UNCHANGED <<req, entries, attempt, stmt, reply, applied>>

CommitFatal(r) ==
  /\ Goto(r, "commit", "respond")
  /\ Guard(r, "ended") /\ Answer(r, "fatal_commit")
  /\ UNCHANGED <<req, entries, attempt, stmt, applied, undecided, waited>>

\* Mutants of Retry: the counter stays; the guard is a pointer nobody frees.
RetryForever(r) ==
  /\ Goto(r, "sleep", "receive")
  /\ attempt' = attempt
  /\ Dispose(r)
  /\ stmt' = [stmt EXCEPT ![r] = Null]
  /\ UNCHANGED <<req, entries, reply, applied, undecided, waited>>

RetryLeaks(r) ==
  /\ Goto(r, "sleep", "receive")
  /\ attempt' = [attempt EXCEPT ![r] = @ + 1]
  /\ UNCHANGED txn
  /\ stmt' = [stmt EXCEPT ![r] = Null]
  /\ UNCHANGED <<req, entries, reply, applied, undecided, waited>>

\* The back-off, the count, and the end of the scope of the guard and of stmt_ptr.
Retry(r) ==
  /\ Goto(r, "sleep", "receive")
  /\ attempt' = [attempt EXCEPT ![r] = @ + 1]
  /\ Dispose(r)
  /\ stmt' = [stmt EXCEPT ![r] = Null]
  /\ UNCHANGED <<req, entries, reply, applied, undecided, waited>>

\* The loop ends without a break.
GiveUp(r) ==
  /\ req[r].kind = "cypher"
  /\ attempt[r] >= MAX_RETRIES
  /\ Goto(r, "receive", "respond")
  /\ Answer(r, "max_retries")
  /\ UNCHANGED <<req, entries, attempt, txn, stmt, applied, undecided, waited>>

-----------------------------------------------------------------------------
(***************************************************************************)
(* node_get and edge_get: one attempt, and the result of the commit is     *)
(* only logged.                                                            *)
(***************************************************************************)
NotFound(r) == IF req[r].kind = "node_get" THEN "node_not_found" ELSE "edge_not_found"

BeginGet(r) ==
  /\ req[r].kind \in {"node_get", "edge_get"}
  /\ BeginTransaction(r, "respond")
  /\ IF pc'[r] = "respond" THEN Answer(r, "begin_failed") ELSE UNCHANGED reply
  /\ UNCHANGED <<req, entries, attempt, stmt, applied, undecided, waited>>

\* get_node or get_edge, then the commit whatever was found; an exception aborts.
Read(r) ==
  /\ Goto(r, "read", "respond")
  /\ Guard(r, "ended")
  /\ \E a \in {"success", NotFound(r), "exception"} : Answer(r, a)
  /\ UNCHANGED <<req, entries, attempt, stmt, applied, undecided, waited>>

\* The guard goes out of scope, the response is serialised and sent.
Respond(r) ==
  /\ Goto(r, "respond", "done")
  /\ Dispose(r)
  /\ stmt' = [stmt EXCEPT ![r] = Null]
  /\ UNCHANGED <<req, entries, attempt, reply, applied, undecided, waited>>

-----------------------------------------------------------------------------
\* The engine decides a commit it left open.
Decide(r) ==
  /\ undecided[r] > 0
  /\ undecided' = [undecided EXCEPT ![r] = @ - 1]
  /\ \E a \in {0, 1} : applied' = [applied EXCEPT ![r] = @ + a]
  /\ UNCHANGED <<req, entries, pc, attempt, txn, stmt, reply, waited>>

Work(r) ==
  \/ Refuse(r) \/ Begin(r) \/ Lookup(r) \/ Parse(r) \/ CachePut(r) \/ Execute(r)
  \/ CommitOk(r) \/ CommitRetry(r) \/ CommitFatal(r) \/ Retry(r) \/ GiveUp(r)
  \/ BeginGet(r) \/ BorrowHandle(r) \/ Read(r) \/ Respond(r)

Next == \E r \in Requests : Work(r) \/ Decide(r)

\* A thread is never stopped for good, and every call of the engine returns.
Spec == Init /\ [][Next]_vars /\ \A r \in Requests : WF_vars(Work(r))

-----------------------------------------------------------------------------
\* The types of what a thread keeps; attempt stays within MAX_RETRIES.
ThreadsTypeOK ==
  /\ req \in [Requests -> Messages]
  /\ pc \in [Requests -> {"receive", "borrow", "lookup", "parse", "put", "execute", "commit",
                          "sleep", "read", "respond", "done"}]
  /\ attempt \in [Requests -> 0..MAX_RETRIES]
  /\ txn \in [Requests -> {"none", "begun", "discarded", "active", "ended"}]
  /\ reply \in [Requests -> Replies \cup {Null}]
  /\ applied \in [Requests -> Nat]
  /\ undecided \in [Requests -> Nat]
  /\ waited \subseteq {r \in Requests : req[r].ltx}

\* The types of the service: the threads, the statements they hold, and the cache
\* with no more than CacheSize entries.
TypeOK ==
  /\ ThreadsTypeOK
  /\ stmt \in [Requests -> Queries \cup {Null}]
  /\ entries \in Seq([query : Queries, stmt : Queries])
  /\ Len(entries) <= CacheSize

\* A cypher request is applied at most once, however often it is retried, unless
\* a commit of it answered WAITING_FOR_OTHER_TRANSACTION, which is_retryable
\* takes for a failure.
AppliedOnce == \A r \in Requests \ waited : applied[r] <= 1

\* The reply tells the truth: "success" was applied, an error was not (again
\* unless a commit was left open), and max_retries comes after MAX_RETRIES attempts.
ReplyTruthful ==
  \A r \in Requests :
    /\ req[r].kind = "cypher" /\ reply[r] = "success" => applied[r] >= 1
    /\ reply[r] \in Codes /\ r \notin waited => applied[r] = 0
    /\ reply[r] = "max_retries" => attempt[r] = MAX_RETRIES

\* Every transaction the guard began is disposed of by the time the next attempt
\* begins or the reply is sent: no handle is leaked or begun over.  Before the reply
\* the transaction is ended, unless there was none: it could not begin, had no handle
\* and was discarded, or the attempts were used up.
NoHandleLeak ==
  \A r \in Requests :
    /\ txn[r] # "none" => pc[r] \notin {"receive", "done"}
    /\ txn[r] = "begun" <=> pc[r] = "borrow"
    /\ txn[r] = "active" <=> pc[r] \in {"lookup", "parse", "put", "execute", "commit", "read"}
    /\ pc[r] = "respond" => (txn[r] = "ended" <=> reply[r] \notin {"begin_failed", "max_retries"})

\* What is cached and what is executed is the statement of the very query, also
\* when other threads evict and refill the entry in between; a query the parser
\* rejects is never cached.
StatementsMatch ==
  /\ \A i \in DOMAIN entries :
       entries[i].stmt = entries[i].query /\ entries[i].query \in Valid
  /\ \A r \in Requests : pc[r] \in {"put", "execute", "commit"} => stmt[r] = req[r].query
=============================================================================
