------------------------------ MODULE ThriftPool ------------------------------
(***************************************************************************)
(* ThriftPool of sync/thrift_pool.h: a ThriftConnectionPool per server,    *)
(* from which get() takes a connection to some connected server, and a     *)
(* queue of pools that wait to be destroyed until their connections have   *)
(* been put back.                                                          *)
(*                                                                         *)
(* Of a ThriftConnectionPool this module has what ThriftPool uses: its     *)
(* status, which its probe thread changes at any time, the connections     *)
(* allocated from it, and its memory.  Connections themselves are the      *)
(* subject of ThriftConnectionPool.                                        *)
(*                                                                         *)
(* A step is what happens between two accesses to such a status or set, or *)
(* between taking and leaving a mutex.  remove_server() and                *)
(* set_total_conn() are left out: they call set_max_conn, which does not   *)
(* exist, so that no program can use them.                                 *)
(* close() changes nothing here but, by a check it asks for, a status.     *)
(***************************************************************************)
EXTENDS Naturals, FiniteSets, SequencesExt

CONSTANTS
  Server,        \* host and port
  LocalServer,   \* those whose host is localhost_name_
  Pool,          \* memory of ThriftConnectionPool objects
  Conn,          \* memory of connections
  Caller,
  NoServer, NoPool, NoConn, NoCaller

ASSUME ServerAssumption ==
  IsFiniteSet(Server) /\ LocalServer \subseteq Server /\ NoServer \notin Server
ASSUME NoneAssumption == NoPool \notin Pool /\ NoConn \notin Conn /\ NoCaller \notin Caller

VARIABLES
  phase,      \* of the ThriftPool: "running", "clearing", "stopping", "destroyed"
  server,     \* of a pool object, NoServer when there is none
  status,     \* get_status() of a pool
  allocated,  \* allocated_connections_ of a pool
  pools_, index_, localhost_pool_, conn_pool_map_,
  remove_queue_, remove_thread_stop_flag_,
  remover,    \* the remove thread: "running" or "ended"
  mutex_,     \* the caller that holds it from one step to the next
  pc,         \* where a caller is: in get(), or in put()
  pool,       \* its variable of that name
  tried,      \* the pools whose status get() has looked at
  held        \* the connection a caller has

poolVars == <<server, status, allocated>>
listVars == <<pools_, localhost_pool_, remove_queue_>>
removeVars == <<phase, remove_thread_stop_flag_, remover>>
callVars == <<pc, pool, tried, held, mutex_, index_, conn_pool_map_>>
vars == <<poolVars, listVars, removeVars, callVars>>

PC == {"idle", "select", "found", "exhausted", "connect", "put"}

Exists(p) == server[p] # NoServer

\* The pools that get() chooses from, and those that wait.
Listed == ToSet(pools_)
Queued == ToSet(remove_queue_)

Servers(ps) == {server[p] : p \in ToSet(ps)}

\* The pools in ps that are in set S, in their order.
Among(ps, S) ==
  LET at == {i \in DOMAIN ps : ps[i] \in S}
  IN [k \in 1..Cardinality(at) |->
        ps[CHOOSE i \in at : Cardinality({j \in at : j < i}) = k - 1]]

Idle(c) == phase = "running" /\ pc[c] = "idle" /\ mutex_ = NoCaller

Goto(c, label) == pc' = [pc EXCEPT ![c] = label]

-------------------------------------------------------------------------------
\* Faulty variants of helpers below.
BackAll(S) == Among(remove_queue_, {p \in Pool : server[p] \in S})
KeepDangling(srv, gone, backAndNew) ==
  LET local == Among(backAndNew, {p \in Pool : srv[p] \in LocalServer})
  IN IF local # << >> THEN Last(local) ELSE localhost_pool_
SkipLast(n) == IF index_ + 1 < n THEN index_ ELSE 0
LockForgotten(c) == mutex_' = c
AllQueued == Queued

\* update_servers: what it takes back from the queue, one pool for a server.
Back(S) ==
  Among(remove_queue_,
        {p \in Pool :
           /\ server[p] \in S
           /\ \A i, j \in DOMAIN remove_queue_ :
                remove_queue_[j] = p /\ server[remove_queue_[i]] = server[p] => j <= i})

\* What it takes back leaves the queue.
Waiting(queue, back) == Among(queue, Pool \ ToSet(back))

\* The local pool after pools in gone were removed, and then others taken back
\* or made: each of these steps overwrites it.
NewLocal(srv, gone, backAndNew) ==
  LET Local(ps) == Among(ps, {p \in Pool : srv[p] \in LocalServer})
  IN IF Local(backAndNew) # << >> THEN Last(Local(backAndNew))
     ELSE IF Local(gone) # << >> THEN NoPool ELSE localhost_pool_

Index(n) == index_ % n

\* The end of guard on mutex_.
Unlock(c) == mutex_' = NoCaller

\* can_be_destroyed.
Destroyable == {p \in Queued : allocated[p] = {}}

-------------------------------------------------------------------------------
\* The constructor starts the remove thread.
Init ==
  /\ phase = "running"
  /\ server = [p \in Pool |-> NoServer]
  /\ status = [p \in Pool |-> "kClosed"]
  /\ allocated = [p \in Pool |-> {}]
  /\ pools_ = << >> /\ index_ = 0 /\ localhost_pool_ = NoPool
  /\ conn_pool_map_ = [x \in Conn |-> NoPool]
  /\ remove_queue_ = << >>
  /\ remove_thread_stop_flag_ = FALSE
  /\ remover = "running"
  /\ mutex_ = NoCaller
  /\ pc = [c \in Caller |-> "idle"]
  /\ pool = [c \in Caller |-> NoPool]
  /\ tried = [c \in Caller |-> << >>]
  /\ held = [c \in Caller |-> NoConn]

\* New objects in the memory of the pools ps, for the servers ss.
Construct(ps, ss) ==
  /\ \A i \in DOMAIN ps : ~Exists(ps[i])
  /\ server' = [p \in Pool |-> IF p \in ToSet(ps)
                                 THEN ss[CHOOSE i \in DOMAIN ps : ps[i] = p] ELSE server[p]]
  /\ status' = [p \in Pool |-> IF p \in ToSet(ps) THEN "kClosed" ELSE status[p]]
  /\ UNCHANGED allocated

AddServer(c, s) ==
  /\ Idle(c)
  /\ s \notin Servers(pools_)
  /\ \E p \in Pool :
       /\ Construct(<<p>>, <<s>>)
       /\ pools_' = Append(pools_, p)
       /\ localhost_pool_' = NewLocal(server', << >>, <<p>>)
  /\ UNCHANGED <<remove_queue_, removeVars, callVars>>

\* update_servers, for a list without repetitions, with both mutexes held.
UpdateServers(c, S) ==
  LET kept == Among(pools_, {p \in Pool : server[p] \in S})
      gone == Among(pools_, {p \in Pool : server[p] \notin S})
  IN /\ Idle(c)
     /\ LET queue == remove_queue_ \o gone
            back == Back(S \ Servers(kept))
            missing == S \ (Servers(kept) \union Servers(back))
        IN \E new \in SetToSeqs(missing) :
             \E ps \in {q \in [DOMAIN new -> Pool] : IsInjective(q)} :
               /\ Construct(ps, new)
               /\ pools_' = kept \o back \o ps
               /\ remove_queue_' = Waiting(queue, back)
               /\ localhost_pool_' = NewLocal(server', gone, back \o ps)
     /\ UNCHANGED <<removeVars, callVars>>

-------------------------------------------------------------------------------
(* get(), under mutex_ *)

\* The local pool if it is connected, else the first connected one from index_ on.
Get(c) ==
  /\ Idle(c)
  /\ held[c] = NoConn
  /\ IF localhost_pool_ # NoPool /\ status[localhost_pool_] = "kConnected"
       THEN pool' = [pool EXCEPT ![c] = localhost_pool_] /\ Goto(c, "connect")
       ELSE pools_ # << >> /\ Goto(c, "select") /\ UNCHANGED pool
  /\ mutex_' = c
  /\ UNCHANGED <<poolVars, listVars, removeVars, held, tried, index_, conn_pool_map_>>

\* One round of the loop.  It has as many as there are pools.
Select(c) ==
  LET i == Index(Len(pools_))
      p == pools_[i + 1]
  IN /\ pc[c] = "select"
     /\ index_' = i + 1
     /\ pool' = [pool EXCEPT ![c] = p]
     /\ tried' = [tried EXCEPT ![c] = Append(@, p)]
     /\ Goto(c, IF status[p] = "kConnected" THEN "found"
                ELSE IF Len(tried[c]) + 1 = Len(pools_) THEN "exhausted" ELSE "select")
     /\ UNCHANGED <<poolVars, listVars, removeVars, held, mutex_, conn_pool_map_>>

\* The variables of a call end with it.
Forget(c) == pool' = [pool EXCEPT ![c] = NoPool] /\ tried' = [tried EXCEPT ![c] = << >>]

\* The status is looked at once more.
Check(c) ==
  /\ pc[c] \in {"found", "exhausted"}
  /\ IF status[pool[c]] = "kConnected"
       THEN Goto(c, "connect") /\ UNCHANGED <<mutex_, pool, tried>>
       ELSE Goto(c, "idle") /\ Unlock(c) /\ Forget(c)
  /\ UNCHANGED <<poolVars, listVars, removeVars, held, index_, conn_pool_map_>>

\* pool->get() gives a connection, or none.
Connect(c) ==
  /\ pc[c] = "connect"
  /\ \/ \E x \in Conn :
          /\ conn_pool_map_[x] = NoPool
          /\ allocated' = [allocated EXCEPT ![pool[c]] = @ \union {x}]
          /\ conn_pool_map_' = [conn_pool_map_ EXCEPT ![x] = pool[c]]
          /\ held' = [held EXCEPT ![c] = x]
     \/ UNCHANGED <<allocated, conn_pool_map_, held>>
  /\ Forget(c) /\ Unlock(c) /\ Goto(c, "idle")
  /\ UNCHANGED <<server, status, listVars, removeVars, index_>>

-------------------------------------------------------------------------------
(* put(): pool->put() in its two critical sections, then the map *)

Put(c) ==
  /\ Idle(c)
  /\ held[c] # NoConn
  /\ pool' = [pool EXCEPT ![c] = conn_pool_map_[held[c]]]
  /\ allocated' = [allocated EXCEPT ![conn_pool_map_[held[c]]] = @ \ {held[c]}]
  /\ mutex_' = c
  /\ Goto(c, "put")
  /\ UNCHANGED <<server, status, listVars, removeVars, tried, held, index_, conn_pool_map_>>

PutBack(c) ==
  /\ pc[c] = "put"
  /\ conn_pool_map_' = [conn_pool_map_ EXCEPT ![held[c]] = NoPool]
  /\ held' = [held EXCEPT ![c] = NoConn]
  /\ Forget(c) /\ Unlock(c) /\ Goto(c, "idle")
  /\ UNCHANGED <<poolVars, listVars, removeVars, index_>>

-------------------------------------------------------------------------------
(* The remove thread and the destructor *)

\* One pass over the queue.  The thread ends after a pass that leaves nothing,
\* but only when it has not been told to stop.
RemovePass ==
  /\ remover = "running" /\ phase # "destroyed"
  /\ LET D == Destroyable
     IN /\ server' = [p \in Pool |-> IF p \in D THEN NoServer ELSE server[p]]
        /\ status' = [p \in Pool |-> IF p \in D THEN "kClosed" ELSE status[p]]
        /\ remove_queue_' = Among(remove_queue_, Pool \ D)
  /\ remover' = IF ~remove_thread_stop_flag_ /\ remove_queue_' = << >>
                  THEN "ended" ELSE "running"
  /\ UNCHANGED <<allocated, pools_, localhost_pool_, phase, remove_thread_stop_flag_, callVars>>

\* The destructor queues all pools ...
Clear ==
  /\ phase = "running" /\ mutex_ = NoCaller
  /\ \A c \in Caller : pc[c] = "idle"
  /\ phase' = "clearing"
  /\ remove_queue_' = remove_queue_ \o pools_
  /\ pools_' = << >>
  /\ UNCHANGED <<poolVars, localhost_pool_, remove_thread_stop_flag_, remover, callVars>>

\* ... tells the thread to stop ...
SetStopFlag ==
  /\ phase = "clearing"
  /\ phase' = "stopping"
  /\ remove_thread_stop_flag_' = TRUE
  /\ UNCHANGED <<poolVars, listVars, remover, callVars>>

\* ... and joins it.
Join ==
  /\ phase = "stopping" /\ remover = "ended"
  /\ phase' = "destroyed"
  /\ UNCHANGED <<poolVars, listVars, remove_thread_stop_flag_, remover, callVars>>

\* A probe thread finds its server connected or closed.
StatusChanges(p) ==
  /\ Exists(p)
  /\ status' = [status EXCEPT ![p] = IF @ = "kClosed" THEN "kConnected" ELSE "kClosed"]
  /\ UNCHANGED <<server, allocated, listVars, removeVars, callVars>>

-------------------------------------------------------------------------------
CallerStep(c) ==
  \/ \E s \in Server : AddServer(c, s)
  \/ \E S \in SUBSET Server : UpdateServers(c, S)
  \/ Get(c) \/ Select(c) \/ Check(c) \/ Connect(c)
  \/ Put(c) \/ PutBack(c)

Next ==
  \/ \E c \in Caller : CallerStep(c)
  \/ RemovePass \/ Clear \/ SetStopFlag \/ Join
  \/ \E p \in Pool : StatusChanges(p)

Spec == Init /\ [][Next]_vars

-------------------------------------------------------------------------------
\* The type of every variable; the mutex is held by a caller in the middle of
\* get() or put(), and by nobody between two calls.
TypeOK ==
  /\ phase \in {"running", "clearing", "stopping", "destroyed"}
  /\ server \in [Pool -> Server \union {NoServer}]
  /\ status \in [Pool -> {"kConnected", "kClosed"}]
  /\ allocated \in [Pool -> SUBSET Conn]
  /\ pools_ \in Seq(Pool) /\ remove_queue_ \in Seq(Pool)
  /\ index_ \in Nat
  /\ localhost_pool_ \in Pool \union {NoPool}
  /\ conn_pool_map_ \in [Conn -> Pool \union {NoPool}]
  /\ remove_thread_stop_flag_ \in BOOLEAN
  /\ remover \in {"running", "ended"}
  /\ pc \in [Caller -> PC]
  /\ pool \in [Caller -> Pool \union {NoPool}]
  /\ tried \in [Caller -> Seq(Pool)]
  /\ held \in [Caller -> Conn \union {NoConn}]
  /\ \A c \in Caller : pc[c] # "idle" <=> mutex_ = c

\* A pool that exists is in one place, in use or waiting to be deleted, and one
\* that was deleted is in none: update_servers moves pools both ways, the
\* remove thread deletes them and the destructor queues the rest.  And get()
\* never chooses between two pools of one server, though pools of a server that
\* was removed, added and removed again wait side by side (1190-1224).
EachPoolOnce ==
  LET all == pools_ \o remove_queue_
  IN /\ \A p \in Pool :
          Cardinality({i \in DOMAIN all : all[i] = p}) = IF Exists(p) THEN 1 ELSE 0
     /\ \A i, j \in DOMAIN pools_ : server[pools_[i]] = server[pools_[j]] => i = j

\* "We can not remove a ThriftConnectionPool of host if any client holds some
\* connections" (955): the pool of a connection that a caller has exists, knows
\* it, and is the one that conn_pool_map_ gives to put() and close().  It may be
\* gone while put() is in it.
HeldAlive ==
  \A c \in Caller : held[c] # NoConn =>
    LET p == conn_pool_map_[held[c]]
    IN /\ p # NoPool
       /\ pc[c] # "put" => Exists(p) /\ held[c] \in allocated[p]

\* The loop of get() ends without a connected pool only after it has looked at
\* every pool, though other calls have left index_ anywhere and the pools have
\* changed since (1338-1346).  That is one of three ways to give up: the pool it
\* settles on, the local one included, may be closed again when it is looked at
\* once more (1348), or have no connection to give (1356), and get() then looks
\* at no other.
NoServerSkipped ==
  \A c \in Caller : pc[c] = "exhausted" => ToSet(tried[c]) = Listed

\* No connection is taken from a pool that waits to be deleted: get() has chosen
\* a pool in use, the local one (1326) or another, and whatever is removed, taken
\* back or added, it stays in use until the connection is taken.
QueuedOnlyShrinks ==
  [][\A p \in Queued \intersect Queued' : allocated'[p] \subseteq allocated[p]]_vars
=============================================================================
