# A verification of async_thrift

`async_thrift` extends Thrift 0.5.0 for C++ with an asynchronous client and server over boost.asio, a
connection pool and a service manager for asynchronous clients, and with connection pools and two
servers for synchronous programs. This directory holds TLA+ modules of its components, TLC
configurations that check them on small instances, and proofs, checked by TLAPS, of theorems about
them for every instance. `PROJECT.json` maps every definition to the lines it models.

    tlc -workers 4 -config asio_callers.cfg MCAsioPool     # one run; the list is in section 4
    tlapm AsioPoolProofs.tla                               # the proofs

## 1. Inventory

### Components and their state

| component | source | state | operations |
|---|---|---|---|
| AsioPool | `async/asio_pool.*` | per endpoint a status (`kAdding`, `kConnected`, `kDisConnected`, `kDeleting`, `kDeleted`) and a stack of idle connections in `map_`; `stats_`; one recursive mutex; a probe thread with a timer | `add` (one, many), `del`, `clear`, `get`, `put`; full probe, quick probe |
| ServiceManager | `async/service_manager.*` | per service a set of backends, a plan (a vector of pointers into that set), how often it was used and where to start; one mutex | `set_backend`, `add_backend`, `del_backend`, `get` |
| Asynchronous connections | `async/async_connection.h`, `async/async_client.*`, `async/async_server.cpp`, the generated code (`thrift_0.5.0_patch/t_cpp_generator.cc.inl`) | a receive buffer with `bytes_recv_`, `frame_size_` and `state_`, a send buffer; on the client the pending operation and its callback | `start_recv`, `start_send`, the handlers of reads and writes, `async_process`, `on_close`, `complete_pending_op`, `attach`, `detach`, `close` |
| AsyncThriftServer | `async/async_server.*` | acceptor, the connection to be accepted (`new_conn_`), the set of connections of ConnManager | `serve`, `stop`, `stop_impl`, `handle_accept`, `on_close` of a connection |
| io_service_pool | `async/io_service_pool.*` | services, their work objects, `next_io_service_`, a mutex that only `get_io_service` takes | `run`, `stop`, `get_io_service` (next, by index) |
| ThriftConnectionPool | `sync/thrift_pool.h` | the sets of free, allocated and closed connections, `status_`; one mutex; a probe thread with three timers | `get`, `put`, `close`; `update_status`, `quick_update_status`, `reclaim_connections` |
| ThriftPool | `sync/thrift_pool.h` | the pools of several servers, the next one to use, a queue of pools to be removed and the thread that removes them | `get`, `put`, `close`, `add_server`, `remove_server`, `update_servers`, `get_health` |
| BaseServer, ThreadedServer, ThreadPoolServer | `sync/*server.*` | `stop_`, `is_listen_`, the server socket, the set of tasks or a thread manager | `serve`, `stop`, the tasks |
| ThriftPoolTss | `sync/thrift_pool_tss.h` | a vector of prototypes, an index and a connection per thread | `get`, `get_tss`, `put` |
| ServiceBaseProcessor, ServiceBaseHandler, AsyncFacebookBase | `fb303/service_base_*`, `fb303/async_facebook_base.*` | the handler's status, its pointer to the server, the last window of statistics; the processor's current window and the thread that swaps the two every second | `process_fn`, `set_update`, `shutdown`, getters and setters |

How they interact: a program asks the ServiceManager for a connection to a service; it walks its plan
and asks the AsioPool for a connection to one backend after another; the connection then carries the
frames of an asynchronous client, whose peer is a connection of the AsyncThriftServer run by an
io_service_pool. The connection executes calls with a ServiceBaseProcessor or an asynchronous handler, and a
`shutdown` call stops the server from one of the pool's own threads. Synchronous programs ask a ThriftPool, which asks the ThriftConnectionPool of one of
its servers; that server is a ThreadedServer or a ThreadPoolServer. Pools and callers share state under
mutexes; what happens on the network (connecting, `getStatus()`, sending) happens outside of them;
handlers of asio run one at a time per service.

### What is hard, and what makes a component correct

* **AsioPool.** Statuses and pools change while a thread connects without the mutex, and four parties
  (callers, the quick probes they run, the probe thread, the servers) overlap. Correct: a connection has
  one owner; idle connections belong to connected endpoints and are filed under their peer; pools stay
  bounded; statuses move along the documented table; calls, probes and the destructor end; statuses follow
  the servers.
* **ServiceManager.** Its plan survives changes of the set it points into, and endpoints are shared between
  services. Correct: nothing is registered with the pool that no service has, a `get` fails only after every
  backend was tried, and tries backends of the service only.
* **Asynchronous RPC.** Frames are cut or joined by the stream and share buffers that grow with them;
  operations end by reply, error or close. Correct: each request is executed once and in order, each
  operation ends once and with its own reply, exception or error, also when its socket served other clients
  before; no access is outside the buffer, connections end.
* **Asynchronous server.** `run()`, `stop()` and `get_io_service()` of the pool overlap without a common
  mutex, on the threads that are to be stopped as well; an accept ends by a client, an error or its abortion,
  and its handler works on whatever `new_conn_` is then. Correct: the connection to be accepted and the accept
  in progress correspond, the set has the connections that live, `serve()` ends after a stop, and not before
  everything is quiet.
* **Services.** Calls end on several threads while an update swaps the window they count in; `shutdown()`
  checks, uses and resets a pointer without a mutex. Correct: a call is counted once, a service that is
  stopped has a server that stops.
* **ThriftConnectionPool.** A connection passes from set to set in separate critical sections and is
  examined before the mutex is taken; the reclaiming uses old sizes. Correct: a connection is in one place
  and filed by its state, their number is bounded, the status follows the server, destruction is complete.
* **ThriftPool.** Pools pass between a list and a queue while connections of theirs are out; a thread deletes
  them; an index and a pointer go into a list that changes. Correct: a pool is in one place, is not deleted
  while a connection is out nor used while it waits, and `get` passes no server over when it looks for a
  connected one.
* **Servers.** Counting, accepting and adding are separate steps, the port is closed and opened again by
  load, and `stop()` comes at any time from any thread. Correct: the limit holds, a server that is stopped in
  its loop closes its port and returns after its tasks, at most one connection is accepted late, every
  accepted connection is closed.

`PROJECT.json` lists every hazard at its line with the properties that watch it.

## 2. Modules

| module | models | state and actions |
|---|---|---|
| `ConnectionCustody` | what a connection pool promises, abstractly | for each connection its custodian; it is opened, handed over, closed |
| `AsioPool` | `asio_pool.cpp` | a step is one critical section of `mutex_` or one `socket_connect`. `Add`, `AddAll`, `Del`, `Clear`, `GetPooled`/`GetMiss`/`GetFailed`/`GetConnected` (the parts of `get`), `Put`; `Scan`, `Recheck`, `ProbeConnected`, `ProbeFailed`, `FillInsert`, `ProbeDone` (the parts of `__probe`, run by the probe thread or, as a quick probe, by a caller) |
| `AsioPoolCustody` | the refinement mapping from `AsioPool` to `ConnectionCustody` | |
| `AsioPoolProofs` | theorems about the statuses and pools of `AsioPool` | |
| `AsioCustodyProofs` | theorems about the custody of connections in `AsioPool`, and the refinement of `ConnectionCustody`, proved | |
| `ServiceManager` | `service_manager.cpp` | the nodes of the sets are memory with a content, which is `Freed` after `erase`; an action is one operation, whole, as the code holds its mutex throughout |
| `ServiceManagerProofs` | theorems about `ServiceManager` | |
| `AsyncConnection` | `async_connection.h` | operators on a record of a connection's buffer: `Restart` (`start_recv`), `Continue` (a read in progress), `Received` and `Written` (the handlers), as used by both ends |
| `AsyncRpc` | `async_client.cpp`, the connections of `async_server.cpp`, `async_processor.cpp` and the generated code | a client and a server connection joined by two streams; an action is one handler; reads take any part of what has arrived. `Detach`, `Reattach`, `Attach` between calls |
| `AsyncCalls` | what an asynchronous client promises its user, abstractly | calls are made one by one, and each calls back once, with its outcome |
| `AsyncRpcCalls` | the refinement mapping from `AsyncRpc` to `AsyncCalls` | |
| `AsyncRpcProofs` | the refinement, proved, and theorems about the streams | |
| `IoServicePool` | `io_service_pool.*` | state and steps of a pool, each an access to what threads share: `RunWork`, `RunReset`, `RunCreate`, `RunReturn` (`run`); `PoolStop` (`stop`, of several callers); `GetIndex`, `GetIncrement`, `GetWrap` (`get_io_service`); `ThreadEnds` |
| `AsyncServer` | the accept loop, `serve`, `stop` and ConnManager of `async_server.cpp` | extends `IoServicePool`; each service has the queue of its handlers; an action is one handler, but for `stop_impl`, whose stop of the pool takes its steps |
| `ServiceBase` | `service_base_processor.h`, `service_base_handler.*`, the shutdown of `async_facebook_base.cpp` | the windows of statistics and, per thread, where a call is: `CallFunction`, `SetStopped`, `CheckServer`, `CallStop`, `ResetServer` (`shutdown`), `Count`, `SetUpdate` |
| `EchoServer` | the server process of `test/echo_server.cpp` | composes `AsyncServer` and `ServiceBase`: a frame begins a call, its end sends the reply or closes, `server_->stop()` posts to the pool |
| `EchoServerProofs` | theorems about `EchoServer` | |
| `ThriftConnectionPool` | `thrift_pool.h` | a step is one critical section or one network call; a connection between two sets is in the hand of a thread (`client`) |
| `ThriftConnectionPoolProofs` | theorems about `ThriftConnectionPool` | |
| `ThriftPool` | `ThriftPool` of `thrift_pool.h` | a pool is its status, what is allocated from it and its memory; a step lies between two accesses to these or to a mutex. `AddServer`, `UpdateServers`; `Get`, `Select` (a round of its loop), `Check`, `Connect`; `Put`, `PutBack`; `RemovePass` (a pass of the remove thread); `Clear`, `SetStopFlag`, `Join` (the destructor) |
| `ThriftPoolProofs` | theorems about `ThriftPool` | |
| `SyncServer` | `base_server.cpp`, `threaded_server.cpp`, `thread_pool_server.cpp` | `kind` says which server; a step is what `serve()`, `stop()` or a task does between two accesses to what they share |
| `SyncServerProofs` | theorems about `SyncServer` | |

`MC*` modules hold the definitions a configuration needs. Operators called *faulty variants* are slips
the code could have made, each in the place of a helper; putting one in shows that a property notices.

### Abstractions

* **AsioPool**: an endpoint absent from `map_` has the status `kDeleted` (the operations treat both
  alike). Connections swapped out under the mutex are closed in the same step: nobody else can reach them.
  `stats_` and the log are left out. The order of the keys of a map is left open.
* **ServiceManager**: a backend is an endpoint and a locality; resolving and connecting are inputs. The
  pool is what the manager knows of it: the set of endpoints registered. `lost` is kept for a property only.
* **AsyncRpc**: bytes carry only which call and which part of its frame they are. A session fixes the calls
  and the sizes of their frames, which of the functions are void or fail, whether the handlers of the server
  are asynchronous and to how many more sockets the client is attached. A socket that is left behind is
  followed no further: its streams and its server connection share nothing with those of the next. A write
  that fails leaves nothing in the stream, though some of it may have been sent: the call has failed, and
  what the server does with the rest is for nobody.
* **AsyncServer**: `serve()` is called once. What a connection does between two frames is in AsyncRpc: here it
  waits or serves. A service runs one handler at a time, in the order in which they were posted. A service may
  end by itself when it has no work and nothing outstanding. The vector `work_` is a set: that two threads may
  change the vector at once, which C++ leaves undefined, is left out (section 6).
* **IoServicePool**: the thread-specific pointer of a thread to its own service is left out.
* **ServiceBase**: a window is the number of calls, and of good calls, of each function. Whether a call is good
  is an input. Options, versions and the process status are left out.
* **ThriftConnectionPool**: the sets are ordered by address, so any element may be the first. `up` stands
  for a server that accepts and answers `ALIVE`. Setting a timer is atomic. That handlers cancel each
  other's waits (654-664) is left out: the handlers take no error code, a cancelled wait calls its handler
  too. `put_connection` looks at `is_open()` (367) and files the connection under the mutex (369-375) in one
  step: it is in one hand meanwhile, and whether it is open is changed by its holder only.
* **ThriftPool**: `update_servers` is given no server twice. `close()` changes no more than a status. What
  `put()` does to a pool that was deleted meanwhile is left out; section 6 tells of it.
* **SyncServer**: server socket and thread manager are external: closing the socket discards its backlog
  and a pending interrupt, a socket that does not listen ignores an interrupt, a manager that was joined
  takes no tasks, and may drop a task that has expired.

## 3. Fairness

Spec states no fairness and is used for safety. FairSpec asks for what a scheduler gives: a thread
that can take its next step takes it, a network call returns or times out, timers expire, a handler of
asio that is ready is called. No caller is made to call, no client to send, no server to come up. Weak
fairness suffices but for two cases. In ThriftConnectionPool `UpdateStatus` competes with other handlers for
one thread: the timer's handler, ready again and again, is chosen in the end (strong fairness), because the
queue of an `io_service` is served in order. In EchoServer a handler needs the mutex of the pool, which a
thread that calls `get_io_service()` over and over takes and leaves, and the thread of its service, which
connections use in between: both are given to those that wait (strong fairness of `HandlerStep`). Liveness properties name what they need besides, as
`MutexFree` (nobody calls `add(vector)` for ever) or a server that stays up.

## 4. Runs

| run | instance | what it shows |
|---|---|---|
| `asio_callers` | 1 endpoint, 2 callers, 4 connections, maximum 3, minimum 2 | type, custody, bounds, pools of connected endpoints, and the refinement of `ConnectionCustody`, with probes that fill a pool |
| `asio_endpoints` | 2 endpoints, 1 caller, 4 connections | connections are filed under their peer, statuses keep to the table |
| `asio_live` | 1 endpoint, 1 caller, 4 connections, maximum 1 | calls, probes, deletions and the destructor end; statuses follow servers |
| `service_shared` | 2 services that share an endpoint with two localities, 3 nodes | what is registered, complete tries, and that `get` follows good pointers as long as its service loses no backend |
| `service_stale` | 1 service, 2 endpoints, 4 nodes | violated: `get` follows pointers to backends that are gone |
| `rpc_stream` | three calls of varied sizes, asynchronous and synchronous, streams cut anywhere; or two calls, one of which may fail, with a change of the socket | executed once, own reply, no overrun (in the type invariant), the refinement of `AsyncCalls`, and that calls and connections end |
| `rpc_oneway` | a oneway call to asynchronous handlers | violated: the call is executed again and again |
| `echo_server` | 2 services, 3 connection objects; three environments (below), each with synchronous and with asynchronous handlers | what accepts, `new_conn_` and the set have to do with each other, statistics, quiet on return, and that a stop ends `serve()` |
| `thrift_pool` | 2 callers, 6 connections, minimum 1, maximum 2 | one place, filed by state, bounded |
| `thrift_pool_live` | 1 caller, 4 connections, minimum 1, maximum 1 | the status follows, the destructor completes |
| `thrift_servers` | 3 servers, one of them local, 3 pools, 2 connections, 2 callers | each pool in one place, none deleted while a connection is out, none used while it waits to be deleted, no server twice, none skipped by the loop of `get()` |
| `server_run` | both servers, 3 clients, limit 1, 1 worker, `serve()` and `stop()` twice, one failing call | limit, late connections, join, connections are closed, the port opens again, a stop takes effect |

Why the bounds are enough: every hazard of AsioPool involves at most two threads beside the probe thread
and one endpoint; the second endpoint is for confusing two; four connections let a pool overflow its
maximum while a caller holds one, and connections are reused once closed, so that histories are not
bounded. A plan of the ServiceManager is worn after one use (`PlanLimit`) or lives through changes
(`PlanLimit` 3). In AsyncRpc the buffer of six bytes is smaller, equal to and larger than frames that the
sessions use, so that it grows and wraps. In ThriftConnectionPool six connections exceed what three
threads and the minimum account for. In ThriftPool three pools let two of one server wait while a third is
in use. EchoServer has two services, since the acceptor, and `stop_impl`,
are on the first and the connections alternate; a third would add nothing that differs. Its environments are
chosen one at a time, as their interplay adds states but no case: `CallLimits`, two clients with one ordinary
call and two shutdowns, against a stop from outside; `StopLimits`, a stop of the server, one of the pool and a
failing accept; `PoolLimits`, both stops against a thread that takes services. Three connections are two
accepted and one to be accepted. In SyncServer a limit of 1 with three clients is overloaded,
recovers, and has one more connection in the backlog; two calls of `serve()` and `stop()` each let
one stop arrive before, within and after a loop. `ServeBound`, `StopBound` and `Faults` are bounds of the
model only, as are the `Limits` of AsyncServer. Symmetry is used in runs without liveness.

## 5. What is proved

`AsioPoolProofs` proves, for all sets of endpoints, callers and connections, any `Clearer`, `MaxConn`
and `MinConn`, and from the assumptions of `AsioPool` alone (`ConnAssumption`: both are naturals;
`NamesAssumption`: the special values are not members of the sets):

* `TypeCorrect`: `Spec => []TypeInv`. `TypeOK` is not inductive: that a pool keeps to sequences of
  connections needs that a thread which inserts its connection has one. `TypeInv` adds `PCInv`, which says
  so for each label. `TypeStep` goes through the actions; lemmas about `Trim`, `Close`, `DropPools` and
  `Missing` carry the helpers. `Typed` is the corollary `Spec => []TypeOK`; it includes that `need_conn`,
  an unsigned difference in the code, is never below zero.
* `PoolsOfConnected`: `Spec => []OnlyConnectedPools` and `PoolsBounded`: `Spec => []PoolBounded`. Both
  rest on `PoolSteps`, which says what any step of any thread can do to the pool of an endpoint: empty it,
  take its newest connection, put a trimmed one in place of a connected endpoint's, or leave it with its
  status. Each invariant is inductive given that.
* `TableKept`: `Spec => StatusMoves`, from the guards of the steps that set a status.

`AsioCustodyProofs` proves `CustodyKept`: `Spec => []CustodyInv`, from the same assumptions. A connection may be
in a pool, among the spares of a probe, in the variable of a thread or with a caller; these are its holders.
`SingleCustody` counts them and is not inductive: that a step leaves one holder needs that the connection it
moves had no other. `CustodyInv` says where in the code a thread holds one (`Hands`), that no pool lists a
connection twice (`NoRepetition`), that no connection has two holders (`Exclusive`), that it has one just when
it is open (`OpenHeld`), and `FiledUnderPeer`, which says that pools and probes hold connections of their endpoint.
The steps are reduced to a few ways to pass connections on, and one lemma, `Redistribute`, says that these keep
the invariant. `OneCustodian` and `WellFiled` are the corollaries `Spec => []SingleCustody` and
`Spec => []FiledUnderPeer`.

It also proves `PromiseKept`: `Spec => ImplementsCustody`. The mapping gives the owner of a
connection by its holder, which `CustodyInv` makes unique; each step is shown to be a step of `ConnectionCustody`
by the lemmas `Moved`, `Emptied`, `Released` and `Given`. Owners are threads and endpoints, which must differ
(`OwnersAssumption`).

`ServiceManagerProofs` proves, for any number of services, endpoints and nodes and any `PlanLimit`, from the
assumptions of `ServiceManager` (nodes can be counted, the limit is a number, what `localhost` resolves to are
endpoints, and the mark of a freed node is no backend):

* `Registering`: `Spec => []NoOrphans`, from `SetInv`. `Owned` says that a node that is not freed is in one set.
  One lemma (`Reowned`) says what keeping some nodes of a set, freeing the others and adding new ones does, and the
  three operations are cases of it; another (`Registered`) that what is registered follows the sets.
* `Typed`: `Spec => []TypeOK` and `TriesAll`: `Spec => []FailsOnlyAfterAll`, from `PlanInv`, which adds that a plan
  is a sequence of nodes. `AllTried` is the arithmetic: as many consecutive positions, modulo the length, as a
  plan has entries are all its positions.
* `PointersOfService`: `Spec => []TriesBackendsUnlessLost`, from `LostInv`: a plan whose service has lost no node
  points to each of its nodes at most once. By `Complete` that is all of them if the plan is as long as they
  are many, which is what `get()` compares. `service_stale` shows that the condition is needed.

`AsyncRpcProofs` proves `CallsKept`: `Spec => ImplementsCalls`, the refinement of `AsyncCalls`, for every
session, every bound on the buffer and any cut of the streams (`SessionAssumption`: a session is a sequence of calls). The client has a
pending operation and an operation number, the abstract call only the latter, so a step that completes one
must be shown to complete the other: `OpInv` ties them together and says that the call in progress has no
outcome yet; `OutcomeInv` that a call that was not made has none, and what a call may result in. One lemma
(`HandlerOps`) says what any handler does to the operation, another (`Completes`) that completing it is
`CallBack`.

It also proves what the server and the streams make of the calls:

* `RequestsExecutedOnce`: `Spec => []ExecutedOnce` and `RepliesAreOwn`: `Spec => []OwnReply`, for all sessions that
  send no oneway call to asynchronous handlers (`OnewaySynchronous`: the code means to handle these,
  `async_server.cpp:266-269`, and `rpc_oneway` shows that it does not). Both rest on `Streams`: the bytes of the server's buffer, of the frame it is at and of the stream
  behind it are, put together, the rest of what the client has sent (`SentInv`, `ServerInv`), and likewise towards the
  client (`ClientInv`, `ReplyInv`); only the last request may wait for a reply (`WaitInv`); a record between two handlers has a header, or a header and not yet its frame,
  with room for it (`ConnInv`). The lemmas about `HandleBuffer` and `Received` say that a connection whose bytes
  begin with a frame gets that frame, waits for its rest with room for it, or closes.
* `StreamTypes`: `Spec => []TypeOK`, in which is that no copy overlaps and no free space underflows. It needs besides that
  what follows a oneway request is not longer than it, and no oneway request itself unless it is the last
  (`OnewayFits`; section 6 tells of the `memcpy` behind it). That the sessions of `rpc_stream` satisfy both
  hypotheses is an assumption TLC evaluates (`StreamsAssumption` of `MCAsyncRpc`).

`ThriftConnectionPoolProofs` proves, for any number of callers and connections, any minimum and maximum, and from
`ConnAssumption` (these are naturals), `NamesAssumption` and `FiniteAssumption` (threads and connections can be
counted):

* `PlaceCorrect`: `Spec => []PlaceInv`, and from it `Typed` (`TypeOK`) and `InOnePlace` (`OnePlace`). `OnePlace` counts
  the places of a connection; `PlaceInv` says in what place of the code a thread has one in its hand (`Hands`), that
  places are apart (`Apart`), that what is allocated or marked has its caller (`Allocated`), and how connections
  are filed (`Filed`).
* `Limited`: `Spec => []Bounded`. That a thread creates a connection only after it found none free does not
  bound their number by itself, since others have created or returned some meanwhile. `BoundInv` adds that the free
  connections, the threads that have or will create one (`Busy`) and the creations that a reclaiming has
  still to do are together at most `min_free_conn_` and the threads. The connections in hand are no more than the
  busy threads (`InHands`), and a new one is created only when none is closed, hence the bound (`OneMore`).

`SyncServerProofs` proves, from `LimitAssumption` and `BoundAssumption` (limit, workers and bounds are
numbers), for both servers:

* `Typed`: `Spec => []TypeOK`.
* `Limited`: `Spec => []WithinLimit`. `LimitInv` adds that room which `serve()` has found is there until it
  is used, as tasks only end meanwhile, and that there is at most one connection between `accept()` and
  its task, which is in no task yet.
* `OneLate`: `Spec => []OneLateAtMost`, about a `stop()` that comes when `serve()` has reset `stop_`; one before is
  forgotten (section 6). `LateInv` adds that after a late connection `serve()` does not get to `accept()` again
  before `stop_` is reset.
* `NoneLeft`: `Spec => ReturnsJoined`, about a `serve()` that returns with `stop_` set, but for the return when
  `listen()` fails (section 6). A threaded server waits for `tasks_` to be empty, the other for its manager;
  `TaskInv` adds that what runs in the one, and what waits in the other, is in `tasks`.

`EchoServerProofs` proves, for any number of services and connections and any `Limits`:

* `Counting`: `Spec => []CountedOnce`, from `ThreadAssumption` (each connection executes its own calls). Windows
  are compared count by count (`SameCounts`); that counting a call in one of two windows counts it in their sum
  (`CountInSum`), and that a new window adds nothing (`NewWindowZero`), carry the two steps that matter.
* `Quiet`: `Spec => []QuietOnReturn`, from `StopperAssumption` (`stop_impl` and the owner may stop the pool).
  `OnThreads` is inductive: a connection that executes a call is on a thread that runs, so is `stop_impl`, and
  before and after `run()` there are no threads.

* `EchoTypes`: `Spec => []TypeOK` and `OneAcceptAlive`: `Spec => []NoDangling`, from the assumptions of IoServicePool and
  AsyncServer (`PoolAssumption`: its size is a number; `StopperAssumption`; `ConnectionAssumption`: there is memory
  for each client's connection and one more). `NoDangling` compares `new_conn_` with a count of accepts, and is not
  inductive. `AcceptInv` has the cases: no accept and no handler of one; or the one accept in progress, for
  `new_conn_`; or its one handler, somewhere in the queue of the acceptor's service among those of stops, with the
  result in the state of the connection. `CountInv` says that connections are not used up, `DestroyedInv` what is left
  after the destructor, `CallInv` that a connection executes a call exactly while it serves, `WindowTypes` that
  no window has more good calls than calls.

`ThriftPoolProofs` proves, for any number of servers, pools, connections and callers and any set of local servers, from
`ServerAssumption` (servers can be counted, local ones are servers) and `NoneAssumption`:

* `PoolTypes` (`TypeOK`), `PoolsOnce` (`EachPoolOnce`), `PoolsOfHeldAlive` (`HeldAlive`), `NonePassedOver`
  (`NoServerSkipped`) and `NothingTakenFromQueued` (`QueuedOnlyShrinks`), all from one invariant, `PoolInv`, since
  they lean on each other. In it `Lists` says of single pools what `EachPoolOnce` counts; `LocalPool` that `localhost_pool_` is in use while the
  pool lives; `Chosen` that what `get()` has chosen stays in use, which the mutex is for (`Mutex`); `Held` that a connection
  has one holder and is allocated from a pool that exists; and `Looked` where in the list each round of
  `get()` was, counted back from `index_`, modulo the length.
* The lists are filtered by `Among`, which places an element by its rank. The lemmas `Ranks` and `AmongIs` say that
  the result has just the elements wanted, without repetition if there was none. `ListsChange` puts pools
  that exist into other places and new ones in use, of which `add_server` and `update_servers` are cases;
  `BackIs` says that what is taken back from the queue is one pool for a server; `NewLocalIs` what becomes of
  the local pool.

Only model-checked: all liveness (`CallsReturn`, `StatusSettles`, `CallsAndConnectionsEnd`, `StatusFollows`,
`DestructorReturns`, `AcceptedIsClosed`, `Relistens`, `StopTakesEffect`, `StopEndsServe`), which rests on fairness and so on
ENABLED and is out of reach of TLAPS. The two runs that end in a violation have no theorem. Every invariant and
action property that passes in a run is a theorem, those of AsyncRpc under the hypotheses named.

## 6. Where code and comments disagree

* A probe revives an endpoint that was deleted and forgotten during its connect (`asio_pool.cpp:411`, 443;
  the table at 124-132 and the comment at 444 say otherwise). Likewise `get()` overwrites any status by
  `kDisConnected` (692). Not in a run.
* `ServiceManager::get` uses stale pointers when a change keeps the number of backends (`service_stale`).
  Also, not in a run: backends that differ by locality only share a registration with the pool, so that
  replacing one by the other, or deleting it for one service, ends the registration (161, 208).
* A oneway call with asynchronous handlers is executed for ever (`rpc_oneway`). Also, not in a run: the
  `memcpy` at `async_connection.h:329` overlaps when more bytes follow a frame than it has; the sessions of
  `rpc_stream` keep the frames behind a oneway request to one of its size.
* The thread that deletes removed pools of a ThriftPool ends at its first pass with an empty queue, usually at
  once, and is not started again; told to stop while it runs, it never ends (`thrift_pool.h:1011`). So removed
  pools stay, and the destructor either leaves all pools or waits for ever. A pool may be deleted between the
  two parts of a `put()` into it (1003, 525). `get_health()` divides by zero without servers (1434). Not in
  runs: `ThriftPool` has these behaviours and its properties do not exclude them.
* A `stop()` that comes while the port of a synchronous server is closed for an overload can be lost: the
  interrupt finds a socket that does not listen, and if `serve()` has read `stop_` just before, it opens the
  port and waits in `accept()`. The comment at `threaded_server.cpp:282` promises otherwise. Not in a run:
  `StopTakesEffect` of SyncServer excepts a `stop()` both steps of which fall into this gap (`MayMissStop`);
  without the exception TLC finds the lost one.
* A `stop()` before `serve()` has reset `stop_` (`threaded_server.cpp:154`, `thread_pool_server.cpp:158`) is
  forgotten, and any number of connections is accepted after it. A threaded server that was stopped does not
  listen when it serves again. Not in runs: `OneLateAtMost` and `StopTakesEffect` are about a `stop()` that comes
  later, and `Relistens` allows for the other.
* A stopped `serve()` returns with tasks running when the port, closed for an overload, is to be opened again and
  `listen()` fails (`threaded_server.cpp:183`, `thread_pool_server.cpp:185`). `ReturnsJoined` excepts this return.
* A task of a threaded server whose thread fails to start stays in `tasks_` (`threaded_server.cpp:217-223`): it
  counts against the limit for ever, and a stopped `serve()` waits for it for ever (296). SyncServer has it as
  the state `unstarted` of a connection, and `StopTakesEffect` asks for a return only when there is none.
* `ThriftPool::get` looks for another pool only while it finds none connected: when the one it has settled on is
  closed again (`thrift_pool.h:1348`), or has no connection to give (1356), the local one included, it gives
  up though another may be connected. `NoServerSkipped` is about the search only.
* An error of an accept ends the accept loop of the asynchronous server for good, but its port stays open
  (`async_server.cpp:164`); clients then connect and wait. Not in a run: `NoDangling` excepts it.
* Two `shutdown` calls at once may dereference the null `server_` (`service_base_handler.cpp:47`), and a
  `stop()` of the pool during the loop of `run()` is undone (`io_service_pool.cpp:55`), or changes the vector
  `work_` together with it, which is undefined. Not in a run: `StopEndsServe` excepts the first two.
* Connections that are open when an asynchronous server stops are never deleted: nothing calls
  `ConnManager::del_all`. And a `serve()` that follows a stopped one finds the handler of the aborted accept
  still queued, which deletes the connection that the new accept is to fill. Not in the model: it serves once.
* AsyncFacebookBase has the status `STOPPED` from its construction on, and an asynchronous shutdown leaves it.
* The exception of a function that is void and called asynchronously is taken for success, as its reply is not
  read (`t_cpp_generator.cc.inl:582`); one of an asynchronous handler closes the connection and never reaches
  the client (`async_server.cpp`, `async_process`). Not in runs: `OwnReply` says which calls succeed.

## 7. Not modelled, and plan

Not modelled because they keep no state to speak of: the process statistics, errors and utilities, command
line tools, interface definitions, the vendored generator (what it generates is in AsyncRpc), build files,
tests and the benchmark. AsyncFacebookBase, but for its shutdown, has single fields under a mutex each.
ThriftPoolTss tries the prototypes of a vector that never changes, one after the other, for a connection of
the calling thread: threads share nothing but a random number generator, so that there is nothing to
interleave. In ThriftConnectionPool a setting of a timer is atomic, although `close()` (663), called by any
thread, sets the timer that the probe thread sets too, and a `deadline_timer` is not safe to share.

What is left, in order of importance:

1. ThriftConnectionPool as an implementation of an abstract pool, as AsioPool is of `ConnectionCustody`.
2. A second `serve()` of the asynchronous server.
3. What a ThriftPool promises, abstractly, over ThriftConnectionPools instead of what it uses of them.
