----------------------------- MODULE AsyncServer -----------------------------
(***************************************************************************)
(* AsyncThriftServer of async/async_server.cpp on an io_service_pool: the  *)
(* accept loop, the set of connections, serve(), stop() and the            *)
(* destructor.  A handler of asio, with all that it calls, is a step,      *)
(* but for stop_impl, which stops the pool step by step.  A service runs   *)
(* one handler at a time.  What a connection does between its frames is in *)
(* AsyncRpc; here it waits for a frame or serves one.                      *)
(*                                                                         *)
(* serve() is called once.  The pool may be stopped behind the server's    *)
(* back by its owner ("user").                                             *)
(***************************************************************************)
EXTENDS IoServicePool, SequencesExt, FiniteSets

CONSTANTS
  Connection, NoConn,  \* the Connection objects; the null pointer
  Limits               \* bounds: of [clients, stops, userStops, errors, ...], how many
                       \* clients connect, stops of the server and of the pool
                       \* come, and accepts fail

\* stop() of the pool is called by stop_impl and by the owner of the pool.
ASSUME StopperAssumption == {"impl", "user"} \subseteq Stopper

\* There is a Connection for every client and one more, for the accept that waits.
ASSUME ConnectionAssumption ==
  /\ NoConn \notin Connection /\ IsFiniteSet(Connection)
  /\ \A l \in Limits : l.clients \in Nat /\ l.clients < Cardinality(Connection)

VARIABLES
  new_conn_, set_,
  conn,        \* the state of each Connection, and
  service,     \* the service of its socket
  home,        \* the service of the acceptor, and
  listening,   \* whether it is open
  pending,     \* the connection that an accept in progress will connect
  queue,       \* of each service the handlers that are ready
  destroyed,   \* the server is
  limit,       \* one of Limits
  clients, backlog, stops, userStops, errors  \* counters

acceptVars == <<new_conn_, home, listening, pending>>
connVars == <<set_, conn, service>>
countVars == <<limit, clients, backlog, stops, userStops, errors>>
serverVars == <<acceptVars, connVars, queue, destroyed, countVars>>

ServerInit ==
  /\ new_conn_ = NoConn /\ set_ = {}
  /\ conn = [c \in Connection |-> "none"]
  /\ service = [c \in Connection |-> 0]
  /\ home = 0 /\ listening = FALSE /\ pending = NoConn
  /\ queue = [s \in Service |-> << >>]
  /\ destroyed = FALSE
  /\ limit \in Limits
  /\ clients = 0 /\ backlog = 0 /\ stops = 0 /\ userStops = 0 /\ errors = 0

Serving(s) == \E c \in Connection : conn[c] = "serving" /\ service[c] = s

\* The thread of s runs no handler, and may run one.
Ready(s) ==
  /\ s \in threads \ stopped
  /\ ~Serving(s)
  /\ s = 0 => stop["impl"] = StopIdle

\* What keeps the service from ending when it has no work.
Outstanding(s) ==
  \/ queue[s] # << >>
  \/ pending # NoConn /\ home = s
  \/ \E c \in set_ : service[c] = s

Post(s, handler) == queue' = [queue EXCEPT ![s] = Append(@, handler)]

Ended(c) == conn' = [conn EXCEPT ![c] = "deleted"]

Fresh == CHOOSE c \in Connection : conn[c] = "none"

\* Faulty variants of steps below.
KeepNewConn == Ended(new_conn_) /\ UNCHANGED new_conn_

-------------------------------------------------------------------------------
(* The accept loop *)

\* async_accept: a new connection on the next service is to be accepted.  On an
\* acceptor that is closed the accept fails at once.
AsyncAccept(started, next, open, q) ==
  /\ new_conn_' = Fresh
  /\ conn' = [started EXCEPT ![Fresh] = "new"]
  /\ service' = [service EXCEPT ![Fresh] = next]
  /\ pending' = IF open THEN Fresh ELSE NoConn
  /\ queue' = IF open THEN q ELSE [q EXCEPT ![home] = Append(@, "failed")]
  /\ next_io_service_' = Advance(next)

\* open_acceptor: the acceptor is on the next service, and its port open.
OpenAcceptor == home' = next_io_service_ /\ listening' = TRUE

\* serve(): open_acceptor and async_accept use the mutex; then the pool runs.
Serve ==
  /\ RunBegin /\ MutexFree /\ ~destroyed
  /\ OpenAcceptor
  /\ AsyncAccept(conn, Advance(next_io_service_), TRUE, queue)
  /\ UNCHANGED <<stopped, threads, undone, stop, getVars, set_, destroyed, countVars>>

\* bind() throws, and serve() with it.
ServeThrows ==
  /\ run = "none" /\ MutexFree /\ ~destroyed
  /\ next_io_service_' = Advance(next_io_service_)
  /\ run' = "returned"
  /\ UNCHANGED <<work_, stopped, threads, at, undone, stop, getVars, serverVars>>

\* The accept in progress is done, which the thread of the acceptor's service
\* notices between two handlers; the handler is ready.
Completes(handler) ==
  /\ pending # NoConn /\ Ready(home)
  /\ pending' = NoConn
  /\ Post(home, handler)

Connects ==
  /\ backlog > 0
  /\ Completes("accepted")
  /\ conn' = [conn EXCEPT ![pending] = "connected"]
  /\ backlog' = backlog - 1
  /\ UNCHANGED <<poolVars, new_conn_, home, listening, set_, service, destroyed,
                 limit, clients, stops, userStops, errors>>

\* For instance there are too many open files.
AcceptError ==
  /\ errors < limit.errors
  /\ errors' = errors + 1
  /\ Completes("failed")
  /\ UNCHANGED <<poolVars, new_conn_, home, listening, connVars, destroyed,
                 limit, clients, backlog, stops, userStops>>

NextHandler(s, handler) == Ready(s) /\ queue[s] # << >> /\ Head(queue[s]) = handler

Done(s) == [queue EXCEPT ![s] = Tail(@)]

\* ConnManager::start inserts the connection and makes it receive.
Start(c) == set_' = set_ \union ({c} \ {NoConn})

\* handle_accept without an error.
HandleAccept(s) ==
  /\ NextHandler(s, "accepted") /\ MutexFree
  /\ Start(new_conn_)
  /\ AsyncAccept([conn EXCEPT ![new_conn_] = "reading"], next_io_service_, listening, Done(s))
  /\ UNCHANGED <<runVars, stop, getVars, home, listening, destroyed, countVars>>

DeleteNewConn == Ended(new_conn_) /\ new_conn_' = NoConn

\* handle_accept with an error ends the accept loop, but does not close the port.
HandleAcceptError(s) ==
  /\ NextHandler(s, "failed")
  /\ DeleteNewConn
  /\ queue' = Done(s)
  /\ UNCHANGED <<poolVars, home, listening, pending, set_, service, destroyed, countVars>>

-------------------------------------------------------------------------------
(* stop() *)

\* AsyncThriftServer::stop(), by whatever thread.
PostStop == Post(ServiceAt(0), "stop_impl")

Stop ==
  /\ stops < limit.stops /\ ~destroyed
  /\ stops' = stops + 1
  /\ PostStop
  /\ UNCHANGED <<poolVars, acceptVars, connVars, destroyed, limit, clients, backlog, userStops, errors>>

\* close_async_accept: an accept in progress is aborted.
CloseAcceptor(q) ==
  /\ listening' = FALSE
  /\ pending' = NoConn
  /\ queue' = IF pending = NoConn THEN q ELSE [q EXCEPT ![home] = Append(@, "failed")]

StopImpl ==
  /\ NextHandler(0, "stop_impl")
  /\ CloseAcceptor(Done(0))
  /\ StopBegin("impl")
  /\ UNCHANGED <<runVars, next_io_service_, getVars, new_conn_, home, connVars, destroyed, countVars>>

UserStop ==
  /\ userStops < limit.userStops
  /\ userStops' = userStops + 1
  /\ StopBegin("user")
  /\ UNCHANGED <<runVars, next_io_service_, getVars, acceptVars, connVars, queue, destroyed,
                 limit, clients, backlog, stops, errors>>

-------------------------------------------------------------------------------
(* Connections *)

ClientConnect ==
  /\ listening /\ clients < limit.clients
  /\ clients' = clients + 1 /\ backlog' = backlog + 1
  /\ UNCHANGED <<poolVars, acceptVars, connVars, queue, destroyed, limit, stops, userStops, errors>>

\* A frame has come, and is being processed.
Frame(c) ==
  /\ conn[c] = "reading" /\ Ready(service[c])
  /\ conn' = [conn EXCEPT ![c] = "serving"]
  /\ UNCHANGED <<poolVars, acceptVars, set_, service, queue, destroyed, countVars>>

\* The reply is under way, and the next frame awaited.
Reply(c) ==
  /\ conn[c] = "serving"
  /\ conn' = [conn EXCEPT ![c] = "reading"]
  /\ UNCHANGED <<poolVars, acceptVars, set_, service, queue, destroyed, countVars>>

\* ConnManager::del, of the connection's destructor.
Del(c) == set_' = set_ \ {c}

\* on_close deletes the connection.
OnClose(c) ==
  /\ Del(c)
  /\ Ended(c)
  /\ UNCHANGED <<poolVars, acceptVars, service, queue, destroyed, countVars>>

\* ... when the client has closed, or when a call has thrown.
Hangup(c) == conn[c] = "reading" /\ Ready(service[c]) /\ OnClose(c)

\* A thread of the pool ends when it runs no handler.
ThreadExit(s) ==
  /\ ~Serving(s) /\ (s = 0 => stop["impl"] = StopIdle)
  /\ ThreadEnds(s, Outstanding(s))
  /\ UNCHANGED serverVars

\* The server is destroyed after serve(), with the connection to be accepted.
Destroy ==
  /\ run = "returned" /\ ~destroyed
  /\ destroyed' = TRUE
  /\ IF new_conn_ = NoConn THEN UNCHANGED <<conn, new_conn_>> ELSE DeleteNewConn
  /\ listening' = FALSE /\ pending' = NoConn
  /\ UNCHANGED <<poolVars, home, set_, service, queue, countVars>>

-------------------------------------------------------------------------------
\* Accepts whose handler has not run.
Accepting ==
  (IF pending = NoConn THEN 0 ELSE 1)
    + Cardinality({i \in DOMAIN queue[home] : queue[home][i] # "stop_impl"})

\* new_conn_ points to a connection exactly while one accept, for that
\* connection, is in progress or waits for its handler, so that no handler
\* deletes or starts another one, or none; the port is never open without an
\* accept, unless one has failed, nor an accept in progress on a closed port; and
\* the set has exactly the connections that were started and not deleted.
NoDangling ==
  /\ ~destroyed => Accepting = IF new_conn_ = NoConn THEN 0 ELSE 1
  /\ listening /\ errors = 0 => Accepting = 1
  /\ pending # NoConn => listening /\ pending = new_conn_ /\ conn[pending] = "new"
  /\ new_conn_ # NoConn => conn[new_conn_] \in {"new", "connected"}
  /\ "accepted" \in ToSet(queue[home]) /\ ~destroyed => conn[new_conn_] = "connected"
  /\ set_ = {c \in Connection : conn[c] \in {"reading", "serving"}}

\* serve() returns only when nothing of the server runs any more: no call is in
\* progress, on any service, and no stop() of the server either, although it is
\* one of the pool's threads that stops the others.
QuietOnReturn ==
  run = "returned" => /\ \A c \in Connection : conn[c] # "serving"
                      /\ stop["impl"] = StopIdle
=============================================================================
