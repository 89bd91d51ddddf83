------------------------- MODULE ThriftConnectionPool -------------------------
(***************************************************************************)
(* The synchronous connection pool of one server, sync/thrift_pool.h:      *)
(* connections that are free, allocated to a caller or closed, a status    *)
(* that a probe thread keeps up to date, and the reclaiming of surplus     *)
(* connections by the same thread.                                         *)
(*                                                                         *)
(* A step is a critical section of mutex_, or a network call, which the    *)
(* code makes outside of it.  Between the two a connection is in the hand  *)
(* of a thread, as the value of its variable `client'.                     *)
(*                                                                         *)
(* The sets are ordered by address and the code takes the first element;   *)
(* addresses being arbitrary, any element may be the first.                *)
(***************************************************************************)
EXTENDS Naturals, FiniteSets

CONSTANTS
  Caller,   \* threads that use the pool
  Prober,   \* probe_thread_
  Conn,     \* memory of ThriftConnection objects
  min_free_conn_, max_conn_,
  NoConn

ASSUME ConnAssumption == min_free_conn_ \in Nat /\ max_conn_ \in Nat
ASSUME NamesAssumption == Prober \notin Caller /\ NoConn \notin Conn
ASSUME FiniteAssumption == IsFiniteSet(Caller) /\ IsFiniteSet(Conn)

Thread == Caller \union {Prober}

\* The handlers of the probe thread, and get().
Task == {"get", "update_status", "quick_update_status", "reclaim"}

VARIABLES
  phase,      \* of the pool object: "running", "stopping", "destroyed"
  status_,
  free_connections_, allocated_connections_, closed_connections_,
  open,       \* connections whose transport is open
  in_use_,    \* connections so marked
  gone,       \* open connections that the server has closed
  up,         \* the server accepts connections and is ALIVE
  pc, task,   \* where a thread is, and in which function
  client,     \* the connection in the hand of a thread
  held,       \* the connection that get() gave to a caller
  ok,         \* the result of the status check in progress
  quick,      \* a close() has asked for quick_update_status
  create, drop_free, drop_closed  \* what reclaim_connections has still to do

setVars == <<free_connections_, allocated_connections_, closed_connections_>>
reclaimVars == <<create, drop_free, drop_closed>>
netVars == <<open, gone, up>>
vars == <<phase, status_, setVars, open, in_use_, gone, up, pc, task, client,
          held, ok, quick, reclaimVars>>

-------------------------------------------------------------------------------
Values(f) == {f[x] : x \in DOMAIN f}

\* The connections that exist.
Live == free_connections_ \union allocated_connections_ \union closed_connections_
          \union ((Values(client) \union Values(held)) \ {NoConn})

Goto(a, label) == pc' = [pc EXCEPT ![a] = label]

Hand(a, c) == client' = [client EXCEPT ![a] = c]

Minus(n, m) == IF n > m THEN n - m ELSE 0
Smaller(n, m) == IF n < m THEN n ELSE m

\* Faulty variants of helpers below.
FileAsFree(a) ==
  /\ free_connections_' = free_connections_ \union {client[a]}
  /\ UNCHANGED closed_connections_
NotReleased(a) == UNCHANGED in_use_
CreateAnyway(fs, ts) == min_free_conn_
StatusSticks(good) == status_' = IF good THEN "kConnected" ELSE status_
LeakOpen(a) ==
  /\ closed_connections_' = closed_connections_ \union ({client[a]} \ open)
  /\ UNCHANGED free_connections_

\* The first element of a set is erased from it and taken.
Take(S, a) == \E c \in S : S' = S \ {c} /\ Hand(a, c)

\* put_connection: filed by is_open(), which is looked at before the mutex is taken;
\* nobody else has the connection, so it is the same when it is filed.
PutConnection(a) ==
  IF client[a] \in open
    THEN /\ free_connections_' = free_connections_ \union {client[a]}
         /\ UNCHANGED closed_connections_
    ELSE /\ closed_connections_' = closed_connections_ \union {client[a]}
         /\ UNCHANGED free_connections_

\* ThriftConnection::put.
Release(a) == in_use_' = in_use_ \ {client[a]}

-------------------------------------------------------------------------------
\* The constructor opens the first connections, up to one that fails, then
\* starts the probe thread.
Init ==
  /\ phase = "running"
  /\ status_ = "kClosed"
  /\ \E S \in SUBSET Conn, c \in SUBSET Conn :
       /\ S \intersect c = {}
       /\ Cardinality(S) <= min_free_conn_
       /\ Cardinality(c) = IF Cardinality(S) < min_free_conn_ THEN 1 ELSE 0
       /\ free_connections_ = S /\ open = S
       /\ closed_connections_ = c
  /\ allocated_connections_ = {} /\ in_use_ = {}
  /\ gone = {}
  /\ up \in BOOLEAN
  /\ pc = [a \in Thread |-> "idle"]
  /\ task = [a \in Thread |-> "get"]
  /\ client = [a \in Thread |-> NoConn]
  /\ held = [a \in Caller |-> NoConn]
  /\ ok = FALSE /\ quick = FALSE
  /\ create = 0 /\ drop_free = 0 /\ drop_closed = 0

-------------------------------------------------------------------------------
(* Obtaining a connection: get(), update_status(), quick_update_status() *)

Start(a, t) ==
  /\ pc[a] = "idle" /\ phase = "running"
  /\ task' = [task EXCEPT ![a] = t]
  /\ Goto(a, "take")

Get(c) ==
  /\ held[c] = NoConn
  /\ Start(c, "get")
  /\ UNCHANGED <<phase, status_, setVars, in_use_, netVars, client, held, ok, quick, reclaimVars>>

\* The wait of update_status_timer_ ends, by its expiry or because
\* set_quick_update_status cancels it: the handlers take no error_code, so that a
\* wait that is cancelled calls its handler too, which sets the timer anew.  So
\* there is always a check to come, and the timer is no variable.
UpdateStatus ==
  /\ Start(Prober, "update_status")
  /\ UNCHANGED <<phase, status_, setVars, in_use_, netVars, client, held, ok, quick, reclaimVars>>

QuickUpdateStatus ==
  /\ quick
  /\ quick' = FALSE
  /\ Start(Prober, "quick_update_status")
  /\ UNCHANGED <<phase, status_, setVars, in_use_, netVars, client, held, ok, reclaimVars>>

\* A free connection if there is one.
TakeFree(a) ==
  /\ pc[a] = "take"
  /\ IF free_connections_ # {}
       THEN /\ Take(free_connections_, a)
            /\ Goto(a, IF task[a] = "get" THEN "got" ELSE "check")
       ELSE Goto(a, "create") /\ UNCHANGED <<free_connections_, client>>
  /\ UNCHANGED <<phase, status_, allocated_connections_, closed_connections_, in_use_,
                 netVars, task, held, ok, quick, reclaimVars>>

\* create_connection, in a critical section of its own: a closed connection if
\* there is one, a new one if not.
CreateConnection(a) ==
  /\ pc[a] = "create"
  /\ IF closed_connections_ # {}
       THEN Take(closed_connections_, a)
       ELSE (\E c \in Conn \ Live : Hand(a, c)) /\ UNCHANGED closed_connections_
  /\ Goto(a, "connect")
  /\ UNCHANGED <<phase, status_, free_connections_, allocated_connections_, in_use_,
                 netVars, task, held, ok, quick, reclaimVars>>

Connect(a) ==
  /\ pc[a] = "connect"
  /\ open' = IF up THEN open \union {client[a]} ELSE open
  /\ Goto(a, CASE task[a] = "get" -> "got"
               [] task[a] = "reclaim" -> "put_back"
               [] OTHER -> "check")
  /\ UNCHANGED <<phase, status_, setVars, in_use_, gone, up, task, client, held, ok, quick, reclaimVars>>

-------------------------------------------------------------------------------
(* The callers *)

\* The end of get(): an open connection is allocated, another one filed.
Got(c) ==
  /\ pc[c] = "got"
  /\ IF client[c] \in open /\ client[c] \notin in_use_
       THEN /\ in_use_' = in_use_ \union {client[c]}
            /\ allocated_connections_' = allocated_connections_ \union {client[c]}
            /\ held' = [held EXCEPT ![c] = client[c]]
            /\ UNCHANGED <<free_connections_, closed_connections_>>
       ELSE /\ PutConnection(c)
            /\ UNCHANGED <<in_use_, allocated_connections_, held>>
  /\ Hand(c, NoConn)
  /\ Goto(c, "idle")
  /\ UNCHANGED <<phase, status_, netVars, task, ok, quick, reclaimVars>>

\* put(), in two critical sections.
Put(c) ==
  /\ pc[c] = "idle" /\ held[c] # NoConn
  /\ allocated_connections_' = allocated_connections_ \ {held[c]}
  /\ Hand(c, held[c])
  /\ held' = [held EXCEPT ![c] = NoConn]
  /\ Goto(c, "put")
  /\ UNCHANGED <<phase, status_, free_connections_, closed_connections_, in_use_,
                 netVars, task, ok, quick, reclaimVars>>

PutBack(c) ==
  /\ pc[c] = "put"
  /\ Release(c)
  /\ PutConnection(c)
  /\ Hand(c, NoConn)
  /\ Goto(c, "idle")
  /\ UNCHANGED <<phase, status_, allocated_connections_, netVars, task, held, ok,
                 quick, reclaimVars>>

\* close(): the connection stays allocated until it is put back.
Close(c) ==
  /\ pc[c] = "idle" /\ held[c] # NoConn
  /\ open' = open \ {held[c]} /\ gone' = gone \ {held[c]}
  /\ quick' = TRUE
  /\ UNCHANGED <<phase, status_, setVars, in_use_, up, pc, task, client, held, ok, reclaimVars>>

-------------------------------------------------------------------------------
(* The probe thread *)

\* getStatus(), up to three times: a call that throws closes the connection.
Check ==
  LET c == client[Prober]
  IN /\ pc[Prober] = "check"
     /\ ok' = (c \in open /\ c \notin gone /\ up)
     /\ \/ UNCHANGED <<open, gone>> /\ c \notin gone
        \/ ~ok' /\ open' = open \ {c} /\ gone' = gone \ {c}
     /\ Goto(Prober, "put_back")
     /\ UNCHANGED <<phase, status_, setVars, in_use_, up, task, client, held, quick, reclaimVars>>

ProbePutBack ==
  /\ pc[Prober] = "put_back"
  /\ PutConnection(Prober)
  /\ Hand(Prober, NoConn)
  /\ Goto(Prober, IF task[Prober] = "reclaim" THEN "reclaim" ELSE "set_status")
  /\ UNCHANGED <<phase, status_, allocated_connections_, in_use_, netVars, task, held,
                 ok, quick, reclaimVars>>

NewStatus(good) == status_' = IF good THEN "kConnected" ELSE "kClosed"

SetStatus ==
  /\ pc[Prober] = "set_status"
  /\ NewStatus(ok)
  /\ Goto(Prober, "idle")
  /\ UNCHANGED <<phase, setVars, in_use_, netVars, task, client, held, ok, quick, reclaimVars>>

\* How many free connections reclaim_connections creates.
ToCreate(fs, ts) == IF ts >= max_conn_ THEN Minus(min_free_conn_, fs) ELSE 0

\* reclaim_conn_timer_ expires: the sizes are read once.
ReclaimConnections ==
  LET fs == Cardinality(free_connections_)
      cs == Cardinality(closed_connections_)
      ts == Cardinality(allocated_connections_) + fs + cs
      surplus == Minus(ts, max_conn_)
  IN /\ pc[Prober] = "idle" /\ phase = "running"
     /\ task' = [task EXCEPT ![Prober] = "reclaim"]
     /\ create' = ToCreate(fs, ts)
     /\ drop_closed' = Smaller(surplus, cs)
     /\ drop_free' = Smaller(Minus(surplus, cs), Minus(fs, min_free_conn_))
     /\ Goto(Prober, "reclaim")
     /\ UNCHANGED <<phase, status_, setVars, in_use_, netVars, client, held, ok, quick>>

ReclaimCreate ==
  /\ pc[Prober] = "reclaim"
  /\ create > 0
  /\ create' = create - 1
  /\ Goto(Prober, "create")
  /\ UNCHANGED <<phase, status_, setVars, in_use_, netVars, task, client, held, ok,
                 quick, drop_free, drop_closed>>

\* A surplus connection is destroyed; the loop ends when there are none left.
ReclaimFree ==
  /\ pc[Prober] = "reclaim" /\ create = 0
  /\ drop_free > 0
  /\ IF free_connections_ # {}
       THEN \E c \in free_connections_ :
              /\ free_connections_' = free_connections_ \ {c}
              /\ open' = open \ {c} /\ gone' = gone \ {c}
              /\ drop_free' = drop_free - 1
       ELSE drop_free' = 0 /\ UNCHANGED <<free_connections_, open, gone>>
  /\ UNCHANGED <<phase, status_, allocated_connections_, closed_connections_, in_use_, up,
                 pc, task, client, held, ok, quick, create, drop_closed>>

ReclaimClosed ==
  /\ pc[Prober] = "reclaim" /\ create = 0 /\ drop_free = 0
  /\ drop_closed > 0
  /\ IF closed_connections_ # {}
       THEN \E c \in closed_connections_ :
              /\ closed_connections_' = closed_connections_ \ {c}
              /\ drop_closed' = drop_closed - 1
       ELSE drop_closed' = 0 /\ UNCHANGED closed_connections_
  /\ UNCHANGED <<phase, status_, free_connections_, allocated_connections_, in_use_, netVars,
                 pc, task, client, held, ok, quick, create, drop_free>>

ReclaimDone ==
  /\ pc[Prober] = "reclaim" /\ create = 0 /\ drop_free = 0 /\ drop_closed = 0
  /\ Goto(Prober, "idle")
  /\ UNCHANGED <<phase, status_, setVars, in_use_, netVars, task, client, held, ok,
                 quick, reclaimVars>>

-------------------------------------------------------------------------------
\* The destructor.  Its contract is that the callers have put everything back;
\* it waits for the handler that the probe thread runs.
StopProbe ==
  /\ phase = "running"
  /\ \A c \in Caller : pc[c] = "idle" /\ held[c] = NoConn
  /\ phase' = "stopping"
  /\ UNCHANGED <<status_, setVars, in_use_, netVars, pc, task, client, held, ok, quick, reclaimVars>>

Destroy ==
  /\ phase = "stopping" /\ pc[Prober] = "idle"
  /\ phase' = "destroyed"
  /\ open' = open \ (free_connections_ \union closed_connections_)
  /\ gone' = gone \ (free_connections_ \union closed_connections_)
  /\ free_connections_' = {} /\ closed_connections_' = {}
  /\ UNCHANGED <<status_, allocated_connections_, in_use_, up, pc, task, client, held, ok,
                 quick, reclaimVars>>

\* The server stops or resumes, or closes a connection.
ServerTurn ==
  /\ up' = ~up
  /\ UNCHANGED <<phase, status_, setVars, in_use_, open, gone, pc, task, client, held, ok,
                 quick, reclaimVars>>

ServerClose(c) ==
  /\ c \in open \ gone
  /\ gone' = gone \union {c}
  /\ UNCHANGED <<phase, status_, setVars, in_use_, open, up, pc, task, client, held, ok,
                 quick, reclaimVars>>

-------------------------------------------------------------------------------
CallerStep(c) == Get(c) \/ Got(c) \/ Put(c) \/ PutBack(c) \/ Close(c)

Acquire(a) == TakeFree(a) \/ CreateConnection(a) \/ Connect(a)

\* What the probe thread does once a handler has started.
ProbeStep ==
  \/ Acquire(Prober) \/ Check \/ ProbePutBack \/ SetStatus
  \/ ReclaimCreate \/ ReclaimFree \/ ReclaimClosed \/ ReclaimDone

Next ==
  \/ \E c \in Caller : CallerStep(c) \/ Acquire(c)
  \/ UpdateStatus \/ QuickUpdateStatus \/ ReclaimConnections
  \/ ProbeStep
  \/ StopProbe \/ Destroy
  \/ ServerTurn
  \/ \E c \in Conn : ServerClose(c)

Spec == Init /\ [][Next]_vars

\* A handler that has started goes on, one whose timer expires is started
\* although others compete for the thread, and the destructor goes on.
FairSpec ==
  Spec /\ WF_vars(ProbeStep) /\ SF_vars(UpdateStatus) /\ WF_vars(Destroy)

-------------------------------------------------------------------------------
TypeOK ==
  /\ phase \in {"running", "stopping", "destroyed"}
  /\ status_ \in {"kConnected", "kClosed"}
  /\ free_connections_ \subseteq Conn /\ allocated_connections_ \subseteq Conn
  /\ closed_connections_ \subseteq Conn
  /\ open \subseteq Live /\ gone \subseteq open /\ in_use_ \subseteq Live
  /\ pc \in [Thread -> {"idle", "take", "create", "connect", "got", "check", "put",
                        "put_back", "set_status", "reclaim"}]
  /\ task \in [Thread -> Task]
  /\ client \in [Thread -> Conn \union {NoConn}]
  /\ held \in [Caller -> Conn \union {NoConn}]
  /\ {ok, quick, up} \subseteq BOOLEAN
  /\ {create, drop_free, drop_closed} \subseteq Nat

\* A connection is in one place: in one of the three sets, or in one hand.  The
\* allocated ones are those the callers hold, marked in use until they are put
\* back, and no two callers hold the same one.  The free ones are open and the
\* closed ones are not, although a connection is closed by callers, checks and
\* failing calls wherever it is then; and none of these is marked in use, so that
\* get() never fails on a free connection.
OnePlace ==
  /\ \A c \in Live :
       Cardinality({x \in {"free", "allocated", "closed"} :
                      c \in CASE x = "free" -> free_connections_
                              [] x = "allocated" -> allocated_connections_
                              [] OTHER -> closed_connections_})
         + Cardinality({a \in Thread : client[a] = c}) = 1
  /\ \A c \in allocated_connections_ :
       c \in in_use_ /\ Cardinality({a \in Caller : held[a] = c}) = 1
  /\ \A a \in Caller : held[a] # NoConn => held[a] \in allocated_connections_
  /\ free_connections_ \subseteq open
  /\ closed_connections_ \intersect open = {}
  /\ in_use_ \intersect (free_connections_ \union closed_connections_) = {}

\* reclaim_connections looks at sizes that are out of date when it acts; all the
\* same the connections never outnumber what the threads can hold at once and
\* min_free_conn_.
Bounded == Cardinality(Live) <= min_free_conn_ + Cardinality(Thread)

\* A server that is up for good and closes nothing more is found connected, and
\* one that is down for good is found closed.
StatusFollows ==
  /\ <>[](up /\ phase = "running") /\ <>[][gone' \subseteq gone]_gone
       => <>[](status_ = "kConnected")
  /\ <>[](~up /\ phase = "running") => <>[](status_ = "kClosed")

\* The destructor returns, and leaves no connection behind.
DestructorReturns ==
  phase = "stopping" ~> (phase = "destroyed" /\ Live = {} /\ open = {})
=============================================================================
