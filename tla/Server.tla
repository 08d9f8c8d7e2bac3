-------------------------------- MODULE Server --------------------------------
(***************************************************************************)
(* The life of the process around the service: the framework sets up and   *)
(* starts the resource, which opens the six storages in a transaction of   *)
(* its own, and the service, which borrows the pointers; then requests are *)
(* handled (Service), and the pointers are given up at shutdown.           *)
(*                                                                         *)
(* Any step of a start may fail, and the process may be killed in the      *)
(* middle of it; the storages it has created by then are there at the next *)
(* boot.  The order of the calls is that of the framework (external): it   *)
(* ends a process whose start failed, sends requests only to a service     *)
(* that is running in a database mode, and shuts down when all are         *)
(* answered.                                                               *)
(***************************************************************************)
EXTENDS Service, FiniteSets

CONSTANTS
  Storages,  \* the names of the storages in the order of storage::init
  Modes,     \* the boot modes
  MaxBoots   \* bound: boots of the process

Idling == {"maintenance_standalone", "maintenance_server", "quiescent_server"}

ASSUME ServerAssumption == Storages \in Seq(STRING) /\ MaxBoots \in Nat

VARIABLES
  phase,           \* where the process is
  mode,            \* env.mode()
  created,         \* the storages that exist in the database
  handles,         \* the storages whose handle is set
  init_tx,         \* tx_ctl of resource::start: "none", "active", "ended", "disposed"
  graph_resource,  \* whether graph_resource_ of the service is set
  db_handle,       \* whether db_handle_ of the service is set
  boots

process == <<phase, mode, created, handles, init_tx, graph_resource, db_handle, boots>>
serverVars == <<process, vars>>

Names == {Storages[i] : i \in DOMAIN Storages}

ServerInit ==
  /\ Init
  /\ phase = "down" /\ mode \in Modes
  /\ created = {} /\ handles = {}
  /\ init_tx = "none"
  /\ graph_resource = FALSE /\ db_handle = FALSE
  /\ boots = 0

Step(from, to) == phase = from /\ phase' = to

\* A new process, and the setup of both components.
Boot ==
  /\ boots < MaxBoots /\ boots' = boots + 1
  /\ Step("down", "begin")
  /\ mode' \in Modes
  /\ handles' = {} /\ init_tx' = "none"
  /\ graph_resource' = FALSE /\ db_handle' = FALSE
  /\ UNCHANGED <<created, vars>>

-----------------------------------------------------------------------------
(***************************************************************************)
(* resource::start, step by step.                                          *)
(***************************************************************************)

\* The engine is missing, has no handle, or does not begin the transaction.
BeginInit ==
  /\ \/ Step("begin", "borrow") /\ init_tx' = "active"
     \/ Step("begin", "failed") /\ UNCHANGED init_tx
  /\ UNCHANGED <<mode, created, handles, graph_resource, db_handle, boots, vars>>

\* Abort and dispose of the transaction before start returns false.
GiveUpInit(from) == Step(from, "failed") /\ init_tx' = "disposed"

Borrow ==
  /\ \/ Step("borrow", "init") /\ UNCHANGED init_tx
     \/ GiveUpInit("borrow")
  /\ UNCHANGED <<mode, created, handles, graph_resource, db_handle, boots, vars>>

\* Mutants of InitStorage: an error is only logged; init returns false and the
\* transaction stays.
InitStorageLenient(i) ==
  /\ Storages[i] \notin handles /\ \A j \in 1..(i - 1) : Storages[j] \in handles
  /\ handles' = handles \cup {Storages[i]}
  /\ created' \in {created, created \cup {Storages[i]}}
  /\ Step("init", IF i = Len(Storages) THEN "commit" ELSE "init") /\ UNCHANGED init_tx
  /\ UNCHANGED <<mode, graph_resource, db_handle, boots, vars>>

InitStorageLeaks(i) ==
  /\ Storages[i] \notin handles /\ \A j \in 1..(i - 1) : Storages[j] \in handles
  /\ \/ /\ created' = created \cup {Storages[i]} /\ handles' = handles \cup {Storages[i]}
        /\ Step("init", IF i = Len(Storages) THEN "commit" ELSE "init") /\ UNCHANGED init_tx
     \/ Step("init", "failed") /\ UNCHANGED <<init_tx, created, handles>>
  /\ UNCHANGED <<mode, graph_resource, db_handle, boots, vars>>

\* One init_storage: the storage is created, or it exists and is got, and the
\* handle is set; any other code ends init, and start aborts.
InitStorage(i) ==
  /\ Storages[i] \notin handles /\ \A j \in 1..(i - 1) : Storages[j] \in handles
  /\ \/ /\ created' = created \cup {Storages[i]} /\ handles' = handles \cup {Storages[i]}
        /\ Step("init", IF i = Len(Storages) THEN "commit" ELSE "init") /\ UNCHANGED init_tx
     \/ GiveUpInit("init") /\ UNCHANGED <<created, handles>>
  /\ UNCHANGED <<mode, graph_resource, db_handle, boots, vars>>

\* commit and dispose; start returns whether the commit was successful.
CommitInit ==
  /\ \E to \in {"service", "failed"} : Step("commit", to)
  /\ init_tx' = "disposed"
  /\ UNCHANGED <<mode, created, handles, graph_resource, db_handle, boots, vars>>

-----------------------------------------------------------------------------
(***************************************************************************)
(* The service, and the framework.                                         *)
(***************************************************************************)

\* Mutant of StartService: every mode is taken for a maintenance mode.
StartServiceNever ==
  /\ Step("service", "running")
  /\ UNCHANGED <<mode, created, handles, init_tx, graph_resource, db_handle, boots, vars>>

\* service::start: nothing in a maintenance mode; otherwise the pointers, or
\* failure when a resource is missing.
StartService ==
  /\ \/ /\ mode \in Idling
        /\ Step("service", "running")
        /\ UNCHANGED <<graph_resource, db_handle>>
     \/ /\ mode \notin Idling
        /\ Step("service", "running")
        /\ graph_resource' = TRUE /\ db_handle' = TRUE
     \/ /\ mode \notin Idling
        /\ Step("service", "failed")
        /\ \E found \in BOOLEAN : graph_resource' = found
        /\ UNCHANGED db_handle
  /\ UNCHANGED <<mode, created, handles, init_tx, boots, vars>>

\* The process whose start failed ends; one that is starting may be killed.
EndProcess ==
  /\ phase \in {"begin", "borrow", "init", "commit", "service", "failed"}
  /\ phase' = "down"
  /\ UNCHANGED <<mode, created, handles, init_tx, graph_resource, db_handle, boots, vars>>

Serving == phase = "running" /\ mode \notin Idling

\* service::shutdown, then resource::shutdown.
Shutdown ==
  /\ Step("running", "stopped")
  /\ mode \in Idling \/ \A r \in Requests : pc[r] = "done" /\ undecided[r] = 0
  /\ graph_resource' = FALSE /\ db_handle' = FALSE
  /\ UNCHANGED <<mode, created, handles, init_tx, boots, vars>>

Handle(r) == Serving /\ Work(r) /\ UNCHANGED process

Settle(r) == Serving /\ Decide(r) /\ UNCHANGED process

ServerNext ==
  \/ Boot \/ BeginInit \/ Borrow \/ (\E i \in DOMAIN Storages : InitStorage(i)) \/ CommitInit
  \/ StartService \/ EndProcess \/ Shutdown
  \/ \E r \in Requests : Handle(r) \/ Settle(r)

\* A thread is never stopped for good, and every call of the engine returns.
ServerSpec ==
  ServerInit /\ [][ServerNext]_serverVars /\ \A r \in Requests : WF_serverVars(Handle(r))

-----------------------------------------------------------------------------
\* The types of the process; a handle is one of a storage that exists.
ServerTypeOK ==
  /\ phase \in {"down", "begin", "borrow", "init", "commit", "service", "running", "failed", "stopped"}
  /\ mode \in Modes
  /\ created \subseteq Names /\ handles \subseteq created
  /\ init_tx \in {"none", "active", "disposed"}
  /\ graph_resource \in BOOLEAN /\ db_handle \in BOOLEAN
  /\ boots \in 0..MaxBoots

\* operator() never dereferences a null pointer, and the storage it reaches has all
\* its handles, each of a storage that exists: also after boots that failed or were
\* killed between two storages.
ReadyWhenUsed ==
  \A r \in Requests : pc[r] \notin {"receive", "done"} =>
    graph_resource /\ db_handle /\ handles = Names /\ Names \subseteq created

\* The transaction of resource::start is disposed of on every way out of it, so
\* that neither a failed nor a successful start leaves one open in the engine.
InitTransactionOver ==
  /\ phase \in {"service", "running", "failed", "stopped"} => init_tx # "active"
  /\ phase \in {"borrow", "init", "commit"} => init_tx = "active"

\* The server only ever does what Service allows: what is proved of Service holds
\* of the requests of every process.
ImplementsService == Init /\ [][Next]_vars

\* Once the server runs in a database mode, every request is answered: the retries
\* are bounded, no step waits for another thread, and shutdown comes after them.
ServedRequestsAnswered == \A r \in Requests : Serving ~> pc[r] = "done"
===============================================================================
