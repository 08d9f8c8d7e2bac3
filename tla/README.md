# A TLA+ verification of the graph engine

This directory holds TLA+ models of the graph engine in `graph-service/`, the TLC
configurations that check them on small instances, and TLAPS proofs of the results that
matter most. Paths below are relative to the repository; `storage.cpp`, `service.cpp` and
`resource.cpp` are under `graph-service/src/tateyama/framework/graph/`, `executor.cpp` and
`parser.cpp` in its `core/`, headers in the matching `include/` directory, ADRs in
`graph-service/docs/adr/`.

## 1. The system

The engine keeps a property graph in six key-value tables of a transactional engine
(sharksfin on shirakami, outside this repository) and answers Cypher queries.

| Component | State | Operations | Interacts with |
|---|---|---|---|
| Storage (`storage.cpp`) | six tables: nodes, edges, out-index, in-index, label index, property index | create, read, update, delete of nodes and edges; look-ups by label, by property, by range | engine (every call in the caller's transaction); executor and service call it |
| Id allocator (`storage::allocate_id`, `init`) | `next_id_`, `sequence_batch_remaining_`, `sequence_version_` in memory; a durable sequence | allocate, reserve a batch, recover at start | called by every creation, from every request thread, without a lock |
| Executor (`executor.cpp`) | `context_` (ids per variable), `context_labels_`, `unwind_context_`, one object per attempt | one method per clause; MATCH and WHERE fused into one look-up when they can be | storage |
| Query cache (`query_cache.h`) | hash map, list in order of use, map of iterators, under one mutex | `get`, `put`, `clear` | shared by all request threads |
| AST utilities (`query_cache.h`) | none | `normalize_query`, `visit_literals`, `bind_literals`, `clone_statement` | not called by the service |
| Service (`service.cpp`) | none of its own; per request: attempt, back-off, transaction guard, statement, response | `operator()`: cypher with a retry loop, node_get, edge_get | cache, parser, executor, engine |
| Resource and lifecycle (`resource.cpp`, `service.cpp`) | the storage object, the pointer to the resource | setup, start, shutdown by boot mode | framework |
| Lexer and parser (`parser.cpp`) | position in the token list | recursive descent | service |
| Key encoding, JSON scanners | none | big-endian keys, sortable doubles; `parse_json_properties`, `get_json_value`, `update_json_property` | storage, executor |

What is hard here, and hard to test:

* **Shared memory without a lock.** `allocate_id` is called from concurrent requests.
* **Memory that an abort does not roll back.** The allocator counts a batch down in memory,
  the reservation of the batch is a write of some transaction.
* **Restarts.** Ids must continue behind everything that was committed.
* **Redundant indexes.** Four indexes are kept next to the rows by hand, with a delta update
  that compares strings while the index compares encodings ("1" and "1.0" share a key).
* **Deletion by empty values.** Index keys of deleted records stay, and every reader must cope.
* **One id space for two tables.** `execute_delete`, `execute_set` and RETURN decide from an id
  alone whether a variable holds a node or an edge.
* **Retries.** A query is executed again after a retryable commit code.
* **Iterators into a list** that the cache erases from.
* **A context that lives as long as its executor,** shared by all clauses, cleared between the
  items of UNWIND, with labels that some clauses set and others forget. A label that is left over
  sends a SET to the index of another label than the node's.
* **Values that are written without being there.** `evaluate_properties` knows literals and
  properties of an UNWIND item; any other expression becomes a key with nothing behind it.
* **Numbers that sort as bytes.** A range scan is right only if the encoding of doubles keeps
  their order across zero and for negative numbers, and if both end points are cut where the
  numbers stop and the strings begin.
* **Three readers of one text.** The JSON text of a node is written once and read by two scanners
  and changed by a third; none of them escapes or parses what the others do.
* **A parser that stops early.** `parse` may end before the end of the tokens.
* **A start of many steps.** Six storages and a sequence are created one after the other, not
  undone by an abort, before the service borrows two raw pointers.

`PROJECT.json` lists these as hazards, each at its line, with the properties aimed at it.

## 2. Modules

| Module | Models | Extends / instantiates |
|---|---|---|
| `GraphTables` | the tables as one record, each function of `storage.cpp` as an operator on it, and the delete step of `execute_delete` | |
| `PropertyGraph` | abstract specification: nodes, edges and transactions, without indexes or empty rows | |
| `GraphStorage` | the storage object as a state machine: transactions, operations, aborts, restarts | `GraphTables`; instance of `PropertyGraph` |
| `MCGraphStorage` | instance | `GraphStorage` |
| `GraphTablesProofs` | lemmas: what each table operator returns and preserves | `GraphTables` |
| `GraphStorageProofs` | theorems, among them that `GraphStorage` implements `PropertyGraph` | `GraphStorage`, `GraphTablesProofs` |
| `IdAllocator` | `allocate_id` at the grain of loads and stores, with threads, aborts, failing puts and restarts | |
| `IdAllocatorProofs` | theorems | `IdAllocator` |
| `LruCache` | abstract specification: what a cache of bounded size promises | |
| `QueryCache` | `query_cache` as built: map, list of nodes with addresses, iterators | instance of `LruCache` |
| `QueryCacheProofs` | theorems, among them that `QueryCache` implements `LruCache` | `QueryCache` |
| `Service` | concurrent `operator()` calls: guard, cache, retry loop, reply | instance of `LruCache` |
| `Server` | the process around the service: boots, start of the resource and of the service, kills, shutdown | `Service` |
| `MCServer` | instance | `Server` |
| `ServerProofs` | theorems about both, among them that `Server` implements `Service` | `Server` |
| `KeyEncoding` | the bit arithmetic of the sortable double and the order of encoded keys, on words of any width | |
| `RangeScan` | type prefixes, `build_prop_index_key`, the end points of `find_nodes_by_property_range` | `GraphTables`, `KeyEncoding` |
| `Executor` | every clause of a statement against the tables, one statement and transaction after the other | `RangeScan` |
| `ExecutorProofs` | theorems: types and what each clause does | `Executor`, `GraphTablesProofs` |
| `MatchWhereProofs` | theorems: the encoding of doubles and range scans, the property index through every clause, and MATCH with WHERE | `ExecutorProofs` |
| `MCExecutor` | instance: the statements | `Executor` |
| `Parser` | the lexer and every function of the recursive descent | |
| `PropertyText` | the writers and the scanners of the JSON property text, character by character | |
| `NodeProperties` | the text of one node over its life: any CREATE, then any SET, and what the readers find | `PropertyText` |
| `NodePropertiesProofs` | theorem: the readers find what was written | `NodeProperties` |
| `AstUtilities` | `normalize_query`, `visit_literals`, `extract_literals`, `bind_literals`, `deep_copy_statement` | `Parser`, `PropertyText` |
| `QueryText` | a client's queries through lexer, parser, property text and templates | `AstUtilities`, `NodeProperties` |
| `MCQueryText` | instance: the syntax trees | `QueryText` |

The split follows the code. `GraphTables` is used by two machines, so that the storage
properties are checked for arbitrary sequences of operations and the executor properties for
the sequences the clauses produce. For the same reason the lemmas about the tables are in
`GraphTablesProofs`, and the proofs about both machines cite them. `Service` uses the abstract cache, which `QueryCache` is
shown to implement, and `Server` puts a process around it. `IdAllocator` stands apart because
its grain is finer: in `GraphStorage` and `Executor` an allocation is part of the creation.
`Executor` works on trees and property maps; how text becomes a tree, and a map becomes text,
is a separate question that `QueryText` asks. `PropertyText` and `NodeProperties` stand apart from the parser
because they can be proved about: their loops are recursive functions over positions, the parser's are
RECURSIVE operators.

### State and actions

**GraphStorage.** `db` is the committed state, `view` what the running transaction sees. An
operation changes `view`; `Commit` copies it, `Abort` drops it, `Restart` drops it and
runs `storage::init`. `next_id` and `batch_remaining` are the allocator's members and survive
`Abort`. A packed list of ids under a property-index key is the multiplicity of every id in it
(that is what `PackedOnce` is about). A key that was deleted keeps an empty value: `Tombstone`,
as opposed to `Absent`. `UpdateNodeWithLabel` takes any label, as `update_node_with_label` does:
`execute_set` passes what `context_labels_` holds, which need not be the label of the node.
`unindexed` is a history component: the nodes with a write that left the index of their own label
alone, by `update_node`, by a separate `remove_property_index`, or by `update_node_with_label` under a
label that is not theirs. It only grows, and no action reads it; the look-up properties except these nodes.

**PropertyGraph.** A graph has a node (label and properties) or none under each id, and an edge or
none. `GraphOf` reads one off the tables: the live rows, with the label whose key holds the node.
`ImplementsGraph` says, of every step until the first restart, that it is a step of
`PropertyGraph` on the graphs of `db` and `view`, and (`SameOperation`) that each operation is the
one of the same name with the same arguments: a SET of a deleted node, for instance, is
nothing at all, and DETACH takes exactly the edges that join the node. After a restart an id may
be a node and an edge at once, and no such graph exists; `storage_restart` shows it. A plain DELETE
leaves the edges of its node in the abstract specification too.

**IdAllocator.** `next_id_++` is a load and a store; the counter is tested, reloaded and
decremented; `sequence_put` is pending in the thread's transaction until it commits. The
decrement is modulo `WORD`. `lost` records that a reservation did not become durable.

**QueryCache.** An iterator is the address of a list node; an erased node's address may be
handed out again. Each method is one step because each holds `mutex_` throughout.

**Service.** One process per request. Every engine call is one step with all the outcomes the
code tells apart. `tx_guard::begin` is two of them: the transaction is begun, and its handle is
borrowed (`BorrowHandle`). Where the engine refuses the handle, the begun transaction is disposed of without
being aborted (`txn` is "discarded"), unlike that of `resource::start`. A commit of a long transaction that answers WAITING_FOR_OTHER_TRANSACTION
is *undecided*, and `Decide` lets the engine apply it or drop it later.

**Server.** `phase` is where the process is. `Boot` sets up both components; `BeginInit`,
`Borrow`, `InitStorage(i)` and `CommitInit` are the steps of `resource::start`, each with its
failing branch, which aborts and disposes of the transaction; `StartService` is
`service::start` in all modes. `storage_create` takes no transaction, so `created` survives an
aborted start and a killed process; the next boot gets an existing storage (ALREADY_EXISTS, then
`storage_get`). `EndProcess` ends a process whose start failed and may kill one that is
starting. A process that dies while it serves is the `Restart` of `GraphStorage` and
`IdAllocator`. `Handle(r)` and `Settle(r)` are the steps of `Service`. The order of the framework's
calls (requests after start, shutdown after the last reply) is external.

**QueryText.** `Send` picks a syntax tree, a style (case of the keywords, order of map keys) and
a damage (none, one token dropped, or the query ended inside a string). `Tokenize`, then `Parse` or `Refuse`,
then `Execute` (which property maps and assignments the query writes to the one node `n`), `Write` for
each of them, one after the other (an action of `NodeProperties`), and `Answer`; or
`PutTemplate` or `BindTemplate`, the use of the AST utilities that ADR-0011 describes. A literal
of a tree is an object named by its token, and its value is in `texts`: binding changes the value
behind a reference, which is how a shallow copy would show. `Spelled` is the reference grammar, how
a tree is written.

**NodeProperties.** `json` is the text of the node, `props` the reference: the map that the statements
meant. `CreateProps` is `evaluate_properties` in `execute_create`, `SetProp` one assignment of the first phase of
`execute_set`, with `update_json_property`. `QueryText` shares both variables, and each of its steps is one of these
two or leaves them alone: that is its property `PropsSpec`.

**Executor.** A statement is a sequence of clauses; `ci` is the loop variable of `execute`,
`loop` the state of `execute_unwind`. `Evaluate` is `evaluate_properties` for one entry of a pattern:
a literal, a property of the UNWIND alias (`Accesses`), or any other expression (`Other`, such as the alias
alone). The last, and a property that the item lacks, are written as a key without a value, `Blank`;
`get_json_value` answers the empty text for such a key as for one that is not there (`GetValue`). Each clause is one action; MATCH that is fused with its
WHERE is `MatchWhere`. `CreateFails` is a creation that the engine refuses; `Finish` is the
commit or the abort by the service.

### Abstractions

* A JSON property string is the map it parses to. Edge properties are left out: nothing
  branches on them.
* `Encode` stands for the encoding at the end of an index key; it is not one-to-one.
* Labels are such that none is a prefix of another (see section 6).
* Transactions do not overlap in `GraphStorage` and `Executor`: the engine is serialisable.
* An UNWIND item is the map of its properties; a scalar item has none of the keys in use. The value
  of a WHERE is a literal, and that of an assignment is one or `Blank`.
* A double is a word with a sign bit and a magnitude of `Half` values; the theorems about its
  encoding hold for every `Half`.
* In `QueryText` the input is a sequence of atoms: words, numbers, quoted texts, single symbols,
  white space. Quoted texts are sequences of characters that hold the punctuation of JSON but no
  double quote. There is one node.
* In `Server` a serving process is not killed, and requests end before shutdown.
* The ids of an index look-up come in any order as far as the first id is concerned (CREATE
  takes it), the others sorted; no other code depends on the order.

## 3. Runs

| Run | Checks | Bounds |
|---|---|---|
| `storage` | adjacency, label and property index agree with the rows; look-ups complete, sound and without duplicates; ids fresh until the first restart; DELETE of an edge reaches that edge; DETACH leaves nothing dangling; `GraphStorage` implements `PropertyGraph` until the first restart | 3 ids, 2 labels, 1 key, 3 values with 2 encodings, batch of 2, 4 operations, 1 restart |
| `ids` | one thread: counter never wraps, ids unique unless a reservation was lost, a restart skips less than a batch | 6 ids in batches of 3, 2 restarts, failing puts |
| `cache` | no freed iterator is used; `QueryCache` implements `LruCache` | 4 queries, 3 entries, 4 node addresses, 2 statements |
| `service` | pointers and storages are there when a request needs them; no start leaves its transaction open; at most once, truthful replies, no leaked handle, right statement executed; every request answered | 2 boots with failures and kills, 6 storages, 2 modes; 2 concurrent requests of 8 kinds, 2 attempts, a cache of one entry |
| `executor` | contexts, edges, SET, UNWIND, fused look-ups, ranges (below) | any 4 of 24 statements, 8 ids, 2 keys, 6 values on words of 3 bits and a sign |
| `text` | parser, property text and templates (below) | 15 trees in 2 styles, 3 queries; 6 of the trees come first only, with every single-token damage |
| `storage_restart`, `ids_race`, `executor_inline`, `executor_set`, `executor_equal`, `text_set` | expected violations, section 5 | as small as the disagreement |

Why the bounds are enough to meet the interesting cases. *storage*: three ids give two nodes
and an edge, four operations give create, two updates and a delete of the same node; a batch of
two is used up and begun again; two values that share a code and one that does not are the
three cases of the delta update; two labels let an update leave the label of its node, and come
back to it. The two labels, and the two values of one code, may be exchanged in every state, because the
code compares labels and values for equality only (`MCSymmetry`; no liveness is checked there). *ids*: two whole batches, so that a restart can fall before,
inside and behind a batch. *cache*: a full cache, a query outside it, and one address to spare,
so an erased address is reused at once. *service*: with a cache of one entry the two requests
evict each other between a look-up and a put; two attempts are a retry and an exhausted loop;
two boots let the second one meet every set of storages that the first one left; the three idling
modes take one branch, so one of them is enough. *executor*: four statements give create, change, delete
and a read of what is left; eight ids let two CREATEs of a path and one more node through; the six
values are two spellings of one number, two negative numbers, a string and the empty text; one UNWIND
has items without the keys that its body reads, one reads the alias alone, and one SET goes through a
left-over label. *text*: the trees use
every clause, form of expression, direction and operator; three queries give a template, a query
that is bound from it, and one more that finds the template unchanged; strings hold a brace, a
comma and a colon, at which a careless scanner stops. The theorems of section 4
hold for every value of these constants, so the bounds only matter for what is not proved.

The properties of `service` that are about the process:

* `ReadyWhenUsed`: a request in `operator()` never meets a null pointer or an unset handle,
  and each handle is one of a storage that exists, also after boots that failed or were killed.
* `InitTransactionOver`: the transaction of `resource::start` is disposed of on every way out.
* `ServedRequestsAnswered`: once the process serves, each request is answered.

The properties of `executor`:

* `EdgesJoinNodes`: an edge never gets an end point that the transaction cannot see, whatever
  was aborted before.
* `CreatedPathConnected`: CREATE of a path leaves each relationship between the nodes of its two
  variables, in its direction.
* `NoResurrection`: MATCH by label still finds deleted nodes; SET on them leaves them deleted.
* `SetAppliesAll`: several assignments that meet in one node all arrive, the last one wins, and
  nothing else changes.
* `UnwindCreatesEach`: one node per item, in order, with the literals of the pattern and the
  properties of that item. Every other expression, and a property the item lacks, is stored empty: the
  property states what the code does there (section 5).
* `MatchWhereExact`: MATCH and WHERE bind exactly the live nodes that satisfy them, each once,
  whether they are fused, intersected with the index, found by a range scan, or scanned. What
  satisfies a comparison is stated on values, not on encodings, so the run relies on the
  encoding and on the end points of the range. The nodes in `unindexed` are excepted.

The look-up properties of `storage` (`LookupComplete`, `LookupSound`, `PackedOnce`) have the same
exception. Without it each is false: after `MATCH (n:A), (m:B)-[]->(n) SET n.age = 1` a look-up under A
returns a node that is no A, a look-up under its own label misses the new value, and alternating labels
append an id twice.

The properties of `text`:

* `UnderstoodAsWritten`: parsing an undamaged query gives the tree it was written from, whatever
  its style.
* `NothingDropped`: a damaged query is refused, or every literal and every clause of its text is
  in the tree: the parser never stops early and ignores the rest.
* `ReadersAgree`: after any queries, `parse_json_properties` and `get_json_value` read the
  intended properties from the text that the executor wrote.
* `PropsSpec`: what queries do to a node is a sequence of the writes of `NodeProperties`, with values
  that satisfy its assumptions (no number with punctuation, no string with a double quote). The
  theorem about `NodeProperties` therefore speaks of what comes out of the lexer and the parser.
* `TemplateFaithful`: a statement bound from a template is the tree that parsing the query gives,
  if strings stand where strings stood and the traversal meets the literals in the order of the
  text (it goes through a map in the order of the keys, and it looks into no list, MATCH or RETURN).
* `TemplatesUntouched`: a template never changes once it is kept.

`CHECK_DEADLOCK FALSE` is set where the system comes to rest: when all requests are answered
and the boots are used up (`service`), and when the bound on statements, ids or queries is
reached (`executor`, `text` and their disagreements).

**Fairness.** Only `Server` states any: weak fairness of `Handle(r)`, each request's own steps. A request
thread is not stopped for good by the framework, each engine call returns, and the sleep
between attempts ends. Nothing is assumed of `Settle` (the engine's late decision), of boots, or of
shutdown. `ServedRequestsAnswered` then rests on the bound of the retry loop, and on
`operator()` answering on every way out; its mutant breaks the first.

Every property of a passing run has a mutant in `PROJECT.json`: a plausible mistake in the code
(an operator defined next to the one it changes) under which TLC finds the property violated.

## 4. Proofs

All proofs hold for every value of the constants that satisfies the named assumptions.

**GraphTablesProofs** has the lemmas, for all tables, about each operator on them: what it returns, and
which of the invariants of the tables it keeps (`Adjacent`, `Labelled`, `Disjoint`, rows only below
the next id, `IndexInvOf`).

**GraphStorageProofs** (assumptions `ConstantsAssumption`, `BoundsAssumption`; the refinement below also
`NoNodeAssumption`).
`TypeCorrect` needs that each table operator maps tables to tables.
`AdjacencyCorrect`: `Adjacent` is inductive, because keys are only added and a row that is
tombstoned keeps its keys. `DetachCorrect` follows from it: every live edge at a node is in one
of its two adjacency lists.

The look-up properties are not inductive. An update decides by comparing the old row with the
new one what to remove and what to append, so it must know what is in the lists *before*. `IndexInv`
says it, for updates under any label: a node without a row is in no list and under no label; no node is
under two labels; a node outside `unindexed` is in the lists of its own label only, at most once,
and while it is live in exactly those of its own codes. An update under a foreign label puts its node into
`unindexed` and touches the entries of no other node. `DeltaOccurrences` is the heart:
removing the changed properties and then appending them leaves exactly the codes of the new
map, also when an old and a new value have one code (removed, then appended again). The
opposite order fails, which the mutant `DeltaIndexSwapped` shows. `LookupsComplete`,
`LookupsSound` and `LookupsOnce` follow.

`IdsFresh` and `DeleteReaches` rest on `FreshInv`: until the first restart no id at or above
`next_id` has a row in either table, committed or not, and no id is a live node and an edge.

*The refinement.* One lemma per table operator says what it does to `GraphOf`
(`CreateNodeGraph`, `UpdateGraph`, `DetachGraph`, ...), one per action that it is the abstract
operation. The invariants proved before carry it: `Labelled` makes the label of a node unique and a fresh node
unlabelled, `Unused` makes the id that is handed out free in the view and in the committed tables,
`Disjoint` sends the deletion of an edge variable to the edge table, and `Adjacent` makes the edges that
DETACH finds exactly the ones that join the node.

**IdAllocatorProofs** assume one thread (`ids_race` shows that two are too many). `AllocInv`
says where the thread is (`Alone`) and, unless a reservation was lost, the batch arithmetic
(`Covered`): the reserved value plus one is the next id plus the rest of the batch, and
committed ids are covered by the *durable* value. `AllocatorUnique`, `AllocatorTypeCorrect` (no unsigned wrap)
and `AllocatorRestart` follow for every batch size.

**QueryCacheProofs** hold for every set of queries and of addresses, and every `max_size_` above zero.
`CacheInv` (the types, with the bound on the list, and `IteratorsValid`) is inductive: each
entry of the iterator map is the address of the one list node with that key. `EraseUnlinks`,
`PushLinks` and `FrontLinks` say what erasing, pushing and moving a node do to that link. `put` tests the
size of the map and evicts from the back of the list: `SizeIsLength` proves, by a
bijection, that the two have one size. `IteratorsNeverDangle` follows, and
`CacheImplementsLru` with the `...IsInFront` lemmas: moving an address to the front is moving an entry to
the front.

**ServerProofs** begin with `Service`, for any number of threads, retries and queries. `ServiceInv` ties the
position of a thread to its guard, to its reply and to what the engine has applied: nothing
before the commit, once after a commit that answered OK. A guard is "begun" exactly while its handle is
being borrowed, and a reply finds it ended, unless there is nothing to end: the begin or the borrow failed, or the
attempts are used up. `AppliedAtMostOnce`, `RepliesTruthful`
and `NoHandleLeaks` follow. Requests whose commit answered WAITING are excepted in the
statements, because the code retries them although the engine may still apply them.
`StatementsInv` is about the shared cache: every entry holds the statement of its own query, that
query is valid, and a thread that is past its look-up holds the statement of its own request, whatever other
threads evicted since. `StatementsAlwaysMatch` and the types of the whole (`ServiceTypeCorrect`) follow.

The rest is about `Server`, for any storages, modes and number of boots. `ServerInv` strengthens the two
process properties: no start begins with a transaction (`begin` has `init_tx = "none"`, without
which `BeginInit` might lose one), the handles are all of `Storages` from the commit on and are never
of a storage that does not exist, and no request is under way unless the process serves in a database mode
with both pointers. `InitStorage` is the step where it could fail: its guard makes the i-th
storage the first without a handle, so the last one completes the set. `ServerImplementsService`
shows that each step of the server is a step of `Service` or leaves its variables alone;
`ServerRequestsCorrect` then carries `ServiceInv` and `StatementsInv`, proved once, over to every process.

**ExecutorProofs** (assumptions `ExecutorAssumption`, `RangeAssumption`, `ConstantsAssumption`) hold
for any statements of the parser's shape, of any length and number, and any values, widths and bounds.
`ExecutorAssumption` says that statements have the shape the parser gives them and that the empty text is no
number, and `RangeAssumption` that words have finitely many bits.

*Folds.* The clauses are folds: over the elements of a path, the paths of a clause, the ids of a
variable, the assignments of a SET. `StepInduction` is induction over an interval, got from a least
counterexample and the well-foundedness of the order of the numbers, both facts of the library.
From it, `FoldExists` and `FoldSteps` say that a fold has a function of intermediate values, one
step apart, and one lemma per fold of the model (`CreatePathFold`, `AssignmentsFold`, ...) puts it
in that form; what a clause does is then an induction over those values. `FlattenFold`, `FlattenRange`,
`SortedRange` and `OrdersRange` do the same for the lists of ids.

*Types.* `TypeOK` is not inductive. A CREATE writes the row of an id that it read from the context,
a hop reads the other end of an edge that an adjacency list names, DELETE follows both; that all
of these are below the next id, and in the tables, is `Sound` (rows below the next id only, adjacency
lists of all live edges, end points below the next id, indexes that list only nodes with a record), of the
committed tables and of the view alike. `LoopInv` adds that the list of an UNWIND under way
is not used up. `IInv` is the conjunction,
`Inductive` has one lemma per action, and `Invariance` and `TypeCorrect` follow.

*What clauses do.* Four theorems are about single steps, from `IInv` before the step:

* `DeletedStaysDeleted` (`NoResurrection`): CREATE writes only rows from the next id on, DELETE
  only empty ones, SET none that is empty, and each of them is a fold.
* `SetIsExact` (`SetAppliesAll`): `Applied` says what the pending map holds after the first j
  assignments, the value of the last one that reaches a key; the second phase writes each id once.
* `EdgesJoined` (`EdgesJoinNodes`) and `PathsConnected` (`CreatedPathConnected`). `JInv`: live edges
  join ids that have a node record, and a variable holds such ids only, unless it stands for a
  relationship. `Linked` says what one position of a path leaves; `Grows` is why the later
  positions and paths do not undo it. Both theorems assume `OneKind`, that a statement uses no variable
  for a node and for a relationship. Without it they are false: neither the parser nor the executor
  refuses `MATCH (a)-[r:T]->(b) CREATE (r)-[:T]->(b)`, and since both tables share one id space
  `execute_create` makes an edge that begins at an edge. TLC evaluates `OneKind` on the statements
  of the runs.

`UnwindIsExact` (`UnwindCreatesEach`) is about a whole statement. `UInv` says how far it is: the nodes of
the items so far are the last ones that were made, in order (`Made`), and the rest of the list is
still to come (`Left`).

**MatchWhereProofs** has the same assumptions. First the key encoding, for words of every width. `EncodingRoundTrip`: decoding undoes encoding.
`EncodingKeepsOrder` and `EncodingReflectsOrder`: encoded words compare as the numbers do, with one
exception that the statements name, the two zeros, which are equal as numbers and have different
keys. `RangeScanExact`: the end points that `find_nodes_by_property_range` builds for each operator
select exactly the keys of the values that satisfy it, numbers among numbers and strings among
strings, with the same exception.

`FilterIsExact` (`MatchWhereExact`) is about the first two clauses of a statement, and about every
clause of every earlier one, which left the index as it is. Three invariants carry it:

* `LInv`: the property index agrees with the rows, `IndexInvOf` of `GraphTablesProofs` for the committed
  tables and the view. SET writes the index entries of an id under the label that
  `context_labels_` has for the variable; where this is not the label of the node, the node is in `unindexed` from
  then on. `IndexFaithful` states this invariant as a theorem of its own.
* `XInv`: where the statement is. Before its third clause it is in no loop; MATCH begins with an
  empty context (a label scan that finds nothing keeps an earlier binding); before a WHERE
  that was not fused the variable holds the label scan, with its label.
* `IInv`, as above.

From them each way through WHERE gives the ids wanted, once: the look-up for `=` (`LookupExact`, in any order the
packed list has: `OrdersOnce`), the intersection with a range scan (`RangeExact`, which uses
`RangeScanExact`; `CountOnce`, `SortedOnce`), the scan of the rows for `<>` (`ChosenExact`).

Its hypotheses are `OneKind` and `NoNegativeZero`: no value reads as -0.0, which equals 0.0 and has another
key. TLC evaluates both on the statements and values of the runs. The nodes that a SET entered under a label
left over from another pattern are not excluded by a hypothesis: they are excepted one by one, in `Exact`,
so the theorem speaks of the other nodes of such statements too.

TLC checked `Sound` of both tables, `LoopInv`, `JInv`, `LInv` and `XInv` as invariants of the instance of the run
`executor` before they were proved.

**NodePropertiesProofs** (assumption `PropertyAssumption`: keys are distinct identifiers, a number holds no
punctuation, a string no double quote). `ReadersAlwaysAgree`: after any CREATE and any number of SETs both
readers find in the text exactly what was assigned, for any keys and spellings (one a prefix of another
included), any values, and strings that hold any of the punctuation. Its hypothesis `NoKeyStrings`, that no string is
spelled like a key, is necessary: the run `text_set` shows what happens without it. TLC evaluates
the assumption and the hypothesis on the values of the run `text`.

The invariant `PropsInv` says that the text *lays out* a list of entries (`Laid`): a brace, the entries one
behind the other with a comma and a space between them, a brace; no key twice (`Distinct`), and the entries are
those of `props` (`Keeps`). `ReadersAgree` by itself says nothing of where in the text things stand, which is what the next SET
goes by. Four parts:

* *Scanning.* `ScanEntry`: from the start of an entry, each of the loops over characters (`Find`, `Skip`, `Until`)
  stops at the colon, the value and the end of the value of this entry, whatever is in a string.
* *Readers.* Their loops are functions defined by recursion over positions. `LoopEnds` constructs, by induction over
  positions from the end, a function with the equation of any loop that only goes forward, so that
  `PairsUnfold` and `LookupUnfold` may unfold the definitions. `TurnAtEntry` and `LookupAtEntry` say what one turn does at an
  entry; induction over the entries gives `PairsOfLayout` and `LookupOfLayout`. `get_json_value` steps over
  quoted texts, keys and strings alike, which is why it needs `NoKeyStrings`.
* *SET.* `KeysOfLayout`: the quoted key stands where an entry of this key starts and nowhere else, though
  a text between two quotes may also be a string value, or begin at a closing quote (`KeyInEntry`). `SetReplaces` and `SetAppends` show the new text to be a layout: of the same entries
  but one, with what follows it shifted by the difference of the lengths, or of one entry more.
* *CREATE.* `InOrderIs` (the keys of the map, each once) and `EvaluatedIsLaid` go through the two lists that
  `FlattenSeq` joins, by `FlattenFold`.

**Only model-checked.** Liveness (`ServedRequestsAnswered`). Of `QueryText`: `TypeOK`, `UnderstoodAsWritten`, `NothingDropped`,
`TemplateFaithful`, `TemplatesUntouched` and `PropsSpec`. Its parser and its walks over trees are RECURSIVE
operators, and the prover has no SMT backend for modules that reach one.

**Trusted.** The behaviour of the engine, modelled from how the code uses it (serialisable
transactions; a put of a sequence is durable when its transaction commits; the highest version
wins), and the correspondence between model and code.

## 5. Disagreements with the documentation

Each is a run that expects a violation; `PROJECT.json` quotes the lines.

* `storage_restart`: `storage::init` creates a sequence on every start; with a new one the ids
  start at 1 on tables that hold ids, and an edge may get the id of a live node.
* `ids_race`: two threads in `allocate_id` get the same id.
* `executor_inline`: MATCH fused with WHERE ignores the inline properties of the pattern.
* `executor_set`: SET on a variable that CREATE bound has no label, so it goes through
  `update_node`, which, against ADR-0002, does not update the index.

* `executor_equal`: strings that begin with the same number (two dates of one year) have one key
  in the property index, and an indexed equality does not look at the row again.
* `text_set`: `get_json_value` and `update_json_property` take a string value that is
  spelled like a key for the key.

Four more disagreements have no run of their own, because the passing runs state their exceptions.
A SET through a label that `context_labels_` has kept from an earlier pattern
(`MATCH (n:A), (m:B)-[]->(n) SET n.age = 1`) updates the index of the wrong label, against ADR-0002
(the component `unindexed`). The example `UNWIND ['a','b'] AS x CREATE (n:Item {name: x})` of
`graph-service/README.md:37` parses to a bare variable, for which `evaluate_properties` writes no value: two nodes
with an empty `name` (`Stored` in `UnwindCreatesEach`).
`delete_node` does not touch the property index, against ADR-0002, so look-ups by property return
deleted nodes (`LookupSound` speaks of live nodes for that reason). The reservation of a
batch is lost with the transaction that made it, the batch is used all the same, and a
restart hands its ids out again (`UniqueUnlessLost` excepts it by `lost`).

Two comments that no run needs to show: `query_cache.h:352` says the cache is "Keyed by
normalized query string" and `service.cpp:165` "Cache with both exact key and normalized key";
the only key is the raw query.

## 6. Not modelled

* **Label prefixes.** The label scan is a prefix scan without a terminator, so a label that is a
  prefix of another one finds its keys, and cuts the id at the wrong place. The models have
  labels of which none is a prefix of another. The same holds for the byte layout of ids and
  adjacency keys: big-endian numbers are ordered as numbers.
* **Batch readers and the label iterator** of the storage read what the look-ups read.
* **Escapes and double quotes in strings.** Neither the lexer nor the writers know escapes.
* **`ast_cache_key`.** Nothing outside the tests calls it; it walks the tree as `visit_literals`
  does, which is modelled.
* **The parallel filter of `execute_where`.** It is entered for chunks of 10000 ids and chunks
  have at most 1024, so it never runs.
* **Row text of RETURN.** The model has the record each row shows.
* **Long transactions** are a flag of the request: `make_ltx_options` decides it, and the only effect
  in the model is that a commit may answer WAITING.
* **Benchmarks, protocol buffers.** No logic of their own.

## 7. Plan

Done: storage, its proofs and the abstract property graph it implements; allocator and its
proofs; cache with its abstract specification and its proofs; service and its proofs; executor with
proofs of all its properties; key encoding and range scans with proofs; lexer and parser; property text
and its proof; AST utilities; lifecycle and its proofs.

Left:

1. Label prefixes, with the keys of the label index as sequences of bytes.
2. The batch readers and the label iterator, as steps that interleave with writes of the same
   transaction.
