------------------------------- MODULE AsioPool -------------------------------
(***************************************************************************)
(* The client connection pool of async/asio_pool.cpp: per endpoint a       *)
(* status and a stack of idle connections, shared under one recursive      *)
(* mutex by the calling threads and by the background probe thread.        *)
(*                                                                         *)
(* A step of the model is a critical section of mutex_, or one call to     *)
(* socket_connect, which the code makes outside the mutex.  The mutex is   *)
(* held across steps only by add(vector), which probes before it unlocks.  *)
(*                                                                         *)
(* Abstractions: an endpoint that map_ does not hold is one whose status   *)
(* is kDeleted (operator[] creates it so and no operation tells the two    *)
(* apart); connections swapped out under the mutex are closed in the same  *)
(* step (the code closes them right after the unlock, when nobody else can *)
(* reach them); the counters of stats_ and the log are left out.           *)
(***************************************************************************)
EXTENDS Naturals, FiniteSets, SequencesExt

CONSTANTS
  EndPoint,    \* service addresses
  Caller,      \* application threads that use the pool
  Clearer,     \* those of them that also call clear()
  Prober,      \* the probe thread of the pool
  Socket,      \* identities of TCP connections, reused once closed
  MaxConn,     \* max_conn_per_endpoint, 0 for no limit
  MinConn,     \* min_conn_per_endpoint
  NoEndPoint, NoSocket, NoActor

ASSUME ConnAssumption == MaxConn \in Nat /\ MinConn \in Nat
ASSUME NamesAssumption ==
  /\ Clearer \subseteq Caller
  /\ Prober \notin Caller
  /\ NoActor \notin Caller \union {Prober}
  /\ NoEndPoint \notin EndPoint
  /\ NoSocket \notin Socket

Actor == Caller \union {Prober}

LiveStatus == {"kAdding", "kConnected", "kDisConnected"}
Status == LiveStatus \union {"kDeleting", "kDeleted"}

\* Where a thread is: idle between calls, inside get(), or inside __probe().
GetPC == {"get_connect", "get_failed", "get_connected"}
ProbePC == {"scan", "recheck", "connect", "probe_failed", "probe_connected",
            "fill", "fill_insert"}
PC == {"idle"} \union GetPC \union ProbePC

VARIABLES
  phase,     \* of the pool object
  status, pool,  \* map_: the status and the idle connections of an endpoint
  mutex,     \* the thread that keeps mutex_ from one step to the next
  pc,
  todo,      \* probe_map: the status of an endpoint still to probe, or "none"
  cur,       \* the endpoint a thread connects to
  conn,      \* socket_sp: the connection a thread has just made
  spare,     \* the connections made to fill the pool
  need,      \* need_conn
  held,      \* the connection get() gave to a caller
  up,        \* the endpoints whose server accepts connections
  remote,    \* the endpoint a connection is to, NoEndPoint once it is closed
  dead       \* the open connections that the server has closed

poolVars == <<phase, status, pool, mutex>>
probeVars == <<todo, spare, need>>
vars == <<phase, status, pool, mutex, pc, todo, cur, conn, spare, need, held,
          up, remote, dead>>

-------------------------------------------------------------------------------
\* Faulty variants of the helpers below, each a slip the code could have made:
\* the checks put one in the place of its helper and a property must notice.
MissingUnchecked(n) == MinConn - n
TrimNothing(p) == p
TrimOldest(p) ==
  IF MaxConn # 0 /\ Len(p) > MaxConn THEN SubSeq(p, Len(p) - MaxConn + 1, Len(p)) ELSE p
CloseNothing(S) == UNCHANGED <<remote, dead>>
CloseInPlace(E) ==
  /\ remote' = [s \in Socket |->
       IF \E e \in E : s \in ToSet(pool[e]) THEN NoEndPoint ELSE remote[s]]
  /\ UNCHANGED <<pool, dead>>
AcceptsAlways(e) == TRUE
ReAdded(E) == E
Revisit(a, e) ==
  todo' = [todo EXCEPT ![a][e] = IF status[e] = @ THEN "none" ELSE @]
ProbedOnce == {"kAdding"}

\* Guard of a critical section: mutex_ is free or, being recursive, ours.
CanLock(a) == mutex \in {NoActor, a}

\* pool.resize(max) when the pool is over its maximum: the newest go.
Trim(p) == IF MaxConn # 0 /\ Len(p) > MaxConn THEN SubSeq(p, 1, MaxConn) ELSE p

Trimmed(p) == ToSet(p) \ ToSet(Trim(p))

\* clear_pool, close() or the last reference dropped: S leaves the system.
Close(S) ==
  /\ remote' = [s \in Socket |-> IF s \in S THEN NoEndPoint ELSE remote[s]]
  /\ dead' = dead \ S

\* The pools of the endpoints in E are swapped out and closed.
DropPools(E) ==
  /\ pool' = [e \in EndPoint |-> IF e \in E THEN << >> ELSE pool[e]]
  /\ Close(UNION {ToSet(pool[e]) : e \in E})

\* The pool has a connection, and the newest one, pool.back(), is not closed by
\* its server (socket_is_closed).
Usable(e) == pool[e] # << >> /\ Last(pool[e]) \notin dead

\* Only the pool of a connected endpoint takes connections.
Accepts(e) == status[e] = "kConnected"

\* What a pool of n connections misses of its minimum (need_conn).
Missing(n) == IF n < MinConn THEN MinConn - n ELSE 0

\* The end of __probe releases the mutex that add(vector) still holds.
Unlock(a) == mutex' = IF mutex = a THEN NoActor ELSE mutex

SetStatus(e, st) == status' = [status EXCEPT ![e] = st]

Goto(a, label) == pc' = [pc EXCEPT ![a] = label]

\* A caller starts an operation: the pool is alive and the caller idle.
Calling(c) == phase = "running" /\ pc[c] = "idle" /\ CanLock(c)

-------------------------------------------------------------------------------
Init ==
  /\ phase = "new"
  /\ status = [e \in EndPoint |-> "kDeleted"]
  /\ pool = [e \in EndPoint |-> << >>]
  /\ mutex = NoActor
  /\ pc = [a \in Actor |-> "idle"]
  /\ todo = [a \in Actor |-> [e \in EndPoint |-> "none"]]
  /\ cur = [a \in Actor |-> NoEndPoint]
  /\ conn = [a \in Actor |-> NoSocket]
  /\ spare = [a \in Actor |-> << >>]
  /\ need = [a \in Actor |-> 0]
  /\ held = [c \in Caller |-> NoSocket]
  /\ up \in SUBSET EndPoint
  /\ remote = [s \in Socket |-> NoEndPoint]
  /\ dead = {}

-------------------------------------------------------------------------------
\* The constructor asserts min < max, then starts the probe thread.
Construct ==
  /\ phase = "new"
  /\ phase' = IF MinConn < MaxConn THEN "running" ELSE "aborted"
  /\ UNCHANGED <<status, pool, mutex, pc, cur, conn, probeVars, held, up,
                 remote, dead>>

\* The destructor, first half: probe_io_service_.stop().  Destroying the pool
\* is for its owner to do when no call is in progress.
StopProbe ==
  /\ phase = "running"
  /\ \A c \in Caller : pc[c] = "idle"
  /\ phase' = "stopping"
  /\ UNCHANGED <<status, pool, mutex, pc, cur, conn, probeVars, held, up,
                 remote, dead>>

\* The destructor, second half: once the probe in progress is over the probe
\* thread is joined and map_ cleared.
Destroy ==
  /\ phase = "stopping"
  /\ pc[Prober] = "idle"
  /\ phase' = "destroyed"
  /\ status' = [e \in EndPoint |-> "kDeleted"]
  /\ DropPools(EndPoint)
  /\ UNCHANGED <<mutex, pc, cur, conn, probeVars, held, up>>

-------------------------------------------------------------------------------
\* add(endpoint) and add(vector).  Both go on to quick_probe() in the calling
\* thread; only add(vector) still holds the mutex while it does.
ToAdd(E) == {e \in E : status[e] \in {"kDeleting", "kDeleted"}}

Register(E) ==
  /\ status' = [e \in EndPoint |-> IF e \in ToAdd(E) THEN "kAdding" ELSE status[e]]
  /\ DropPools(ToAdd(E))

Add(c, e) ==
  /\ Calling(c)
  /\ Register({e})
  /\ Goto(c, "scan")
  /\ UNCHANGED <<phase, mutex, cur, conn, probeVars, held, up>>

AddAll(c, E) ==
  /\ Calling(c)
  /\ Register(E)
  /\ mutex' = c
  /\ Goto(c, "scan")
  /\ UNCHANGED <<phase, cur, conn, probeVars, held, up>>

Del(c, e) ==
  /\ Calling(c)
  /\ status[e] \in LiveStatus
  /\ SetStatus(e, "kDeleting")
  /\ DropPools({e})
  /\ UNCHANGED <<phase, mutex, pc, cur, conn, probeVars, held, up>>

\* clear(): map_ is emptied; the connections go with their last reference.
Clear(c) ==
  /\ c \in Clearer
  /\ Calling(c)
  /\ status' = [e \in EndPoint |-> "kDeleted"]
  /\ DropPools(EndPoint)
  /\ UNCHANGED <<phase, mutex, pc, cur, conn, probeVars, held, up>>

-------------------------------------------------------------------------------
\* get(), first critical section: an idle connection that is still open is
\* handed out; otherwise the stale pool is dropped and a connection is tried.
GetPooled(c, e) ==
  /\ Calling(c)
  /\ held[c] = NoSocket
  /\ status[e] = "kConnected"
  /\ Usable(e)
  /\ held' = [held EXCEPT ![c] = Last(pool[e])]
  /\ pool' = [pool EXCEPT ![e] = Front(pool[e])]
  /\ UNCHANGED <<phase, status, mutex, pc, cur, conn, probeVars, up, remote, dead>>

GetMiss(c, e) ==
  /\ Calling(c)
  /\ held[c] = NoSocket
  /\ status[e] = "kConnected"
  /\ ~Usable(e)
  /\ DropPools({e})
  /\ cur' = [cur EXCEPT ![c] = e]
  /\ Goto(c, "get_connect")
  /\ UNCHANGED <<phase, status, mutex, conn, probeVars, held, up>>

\* get(), after a failed connect: the status is overwritten, whatever it is now.
GetFailed(c) ==
  /\ pc[c] = "get_failed"
  /\ CanLock(c)
  /\ SetStatus(cur[c], "kDisConnected")
  /\ DropPools({cur[c]})
  /\ cur' = [cur EXCEPT ![c] = NoEndPoint]
  /\ Goto(c, "idle")
  /\ UNCHANGED <<phase, mutex, conn, probeVars, held, up>>

\* get(), after a successful connect: the mutex is taken for stats_ only.
GetConnected(c) ==
  /\ pc[c] = "get_connected"
  /\ CanLock(c)
  /\ held' = [held EXCEPT ![c] = conn[c]]
  /\ conn' = [conn EXCEPT ![c] = NoSocket]
  /\ cur' = [cur EXCEPT ![c] = NoEndPoint]
  /\ Goto(c, "idle")
  /\ UNCHANGED <<poolVars, probeVars, up, remote, dead>>

\* put(): the connection goes to the pool of its remote endpoint, or is closed
\* when that pool is unusable or full.
Put(c) ==
  /\ Calling(c)
  /\ held[c] # NoSocket
  /\ LET e == remote[held[c]]
         p == Append(pool[e], held[c])
     IN IF Accepts(e)
          THEN pool' = [pool EXCEPT ![e] = Trim(p)] /\ Close(Trimmed(p))
          ELSE UNCHANGED pool /\ Close({held[c]})
  /\ held' = [held EXCEPT ![c] = NoSocket]
  /\ UNCHANGED <<phase, status, mutex, pc, cur, conn, probeVars, up>>

\* The caller closes its connection after a failed call instead of putting it
\* back; it needs neither the mutex nor the pool for that.
CallerClose(c) ==
  /\ pc[c] = "idle"
  /\ held[c] # NoSocket
  /\ held' = [held EXCEPT ![c] = NoSocket]
  /\ Close({held[c]})
  /\ UNCHANGED <<poolVars, pc, cur, conn, probeVars, up>>

-------------------------------------------------------------------------------
\* probe_timer_ expires: the probe thread starts a full probe.
ProbeTimer ==
  /\ phase = "running"
  /\ pc[Prober] = "idle"
  /\ Goto(Prober, "scan")
  /\ UNCHANGED <<poolVars, cur, conn, probeVars, held, up, remote, dead>>

\* Only the full probe of the probe thread looks at a connected endpoint; it
\* suspects one whose newest idle connection is closed or that has none.
Suspect(a, e) ==
  /\ a = Prober
  /\ status[e] = "kConnected"
  /\ ~Usable(e)

\* Every probe tries these, and finishes the deletion of those.
Unavailable == {"kAdding", "kDisConnected"}
Gone == {e \in EndPoint : status[e] = "kDeleting"}

\* __probe, phase 1: what there is to probe, and the deletion of the deleted.
Scan(a) ==
  LET stale == {e \in EndPoint : Suspect(a, e)}
  IN /\ pc[a] = "scan"
     /\ CanLock(a)
     /\ todo' = [todo EXCEPT ![a] =
          [e \in EndPoint |->
             IF e \in stale \/ status[e] \in Unavailable
               THEN status[e] ELSE "none"]]
     /\ status' = [e \in EndPoint |-> IF e \in Gone THEN "kDeleted" ELSE status[e]]
     /\ DropPools(Gone \union stale)
     /\ Goto(a, "recheck")
     /\ UNCHANGED <<phase, mutex, cur, conn, spare, need, held, up>>

\* The iterator moves on.
Visited(a, e) == todo' = [todo EXCEPT ![a][e] = "none"]

\* __probe, phase 2, one endpoint: skipped when its status has changed since.
\* The order of the map's keys is left open.
Recheck(a, e) ==
  /\ pc[a] = "recheck"
  /\ CanLock(a)
  /\ todo[a][e] # "none"
  /\ Visited(a, e)
  /\ IF status[e] = todo[a][e]
       THEN Goto(a, "connect") /\ cur' = [cur EXCEPT ![a] = e]
       ELSE UNCHANGED <<pc, cur>>
  /\ UNCHANGED <<poolVars, conn, spare, need, held, up, remote, dead>>

\* The connection failed: disconnected, unless it is being deleted.
ProbeFailed(a) ==
  /\ pc[a] = "probe_failed"
  /\ CanLock(a)
  /\ IF status[cur[a]] = "kDeleting"
       THEN UNCHANGED <<status, pool, remote, dead>>
       ELSE SetStatus(cur[a], "kDisConnected") /\ DropPools({cur[a]})
  /\ cur' = [cur EXCEPT ![a] = NoEndPoint]
  /\ Goto(a, "recheck")
  /\ UNCHANGED <<phase, mutex, conn, probeVars, held, up>>

\* The connection succeeded: connected, unless it is being deleted; the new
\* connection joins the pool, and a pool under its minimum is to be filled.
ProbeConnected(a) ==
  LET e == cur[a]
      p == Append(pool[e], conn[a])
      missing == IF status[e] = "kDeleting" THEN 0 ELSE Missing(Len(Trim(p)))
  IN /\ pc[a] = "probe_connected"
     /\ CanLock(a)
     /\ IF status[e] = "kDeleting"
          THEN UNCHANGED <<status, pool>> /\ Close({conn[a]})
          ELSE /\ SetStatus(e, "kConnected")
               /\ pool' = [pool EXCEPT ![e] = Trim(p)]
               /\ Close(Trimmed(p))
     /\ conn' = [conn EXCEPT ![a] = NoSocket]
     /\ need' = [need EXCEPT ![a] = missing]
     /\ cur' = [cur EXCEPT ![a] = IF missing # 0 THEN e ELSE NoEndPoint]
     /\ Goto(a, IF missing # 0 THEN "fill" ELSE "recheck")
     /\ UNCHANGED <<phase, mutex, todo, spare, held, up>>

\* The connections made to fill the pool join it if it is still connected.
FillInsert(a) ==
  LET e == cur[a]
      p == pool[e] \o spare[a]
  IN /\ pc[a] = "fill_insert"
     /\ CanLock(a)
     /\ IF Accepts(e)
          THEN pool' = [pool EXCEPT ![e] = Trim(p)] /\ Close(Trimmed(p))
          ELSE UNCHANGED pool /\ Close(ToSet(spare[a]))
     /\ spare' = [spare EXCEPT ![a] = << >>]
     /\ need' = [need EXCEPT ![a] = 0]
     /\ cur' = [cur EXCEPT ![a] = NoEndPoint]
     /\ Goto(a, "recheck")
     /\ UNCHANGED <<phase, status, mutex, todo, conn, held, up>>

\* __probe is over; add(vector) unlocks now.
ProbeDone(a) ==
  /\ pc[a] = "recheck"
  /\ \A e \in EndPoint : todo[a][e] = "none"
  /\ Goto(a, "idle")
  /\ Unlock(a)
  /\ UNCHANGED <<phase, status, pool, cur, conn, probeVars, held, up, remote, dead>>

-------------------------------------------------------------------------------
\* socket_connect, with or without the mutex.
ConnectPC == {"get_connect", "connect", "fill"}

ConnectOk(a) ==
  /\ pc[a] \in ConnectPC
  /\ cur[a] \in up
  /\ \E s \in Socket :
       /\ remote[s] = NoEndPoint
       /\ remote' = [remote EXCEPT ![s] = cur[a]]
       /\ IF pc[a] = "fill"
            THEN spare' = [spare EXCEPT ![a] = Append(@, s)] /\ UNCHANGED conn
            ELSE conn' = [conn EXCEPT ![a] = s] /\ UNCHANGED spare
  /\ Goto(a, CASE pc[a] = "get_connect" -> "get_connected"
               [] pc[a] = "connect" -> "probe_connected"
               [] OTHER -> IF Len(spare[a]) + 1 < need[a] THEN "fill"
                                                          ELSE "fill_insert")
  /\ UNCHANGED <<poolVars, todo, cur, need, held, up, dead>>

\* The server refuses or times out, or no descriptor is left.
ConnectFail(a) ==
  /\ pc[a] \in ConnectPC
  /\ cur[a] \notin up \/ \A s \in Socket : remote[s] # NoEndPoint
  /\ Goto(a, CASE pc[a] = "get_connect" -> "get_failed"
               [] pc[a] = "connect" -> "probe_failed"
               [] OTHER -> "fill_insert")
  /\ UNCHANGED <<poolVars, cur, conn, probeVars, held, up, remote, dead>>

-------------------------------------------------------------------------------
\* The servers: one stops or resumes accepting connections, or closes one.
ServerDown(e) ==
  /\ e \in up
  /\ up' = up \ {e}
  /\ UNCHANGED <<poolVars, pc, cur, conn, probeVars, held, remote, dead>>

ServerUp(e) ==
  /\ e \notin up
  /\ up' = up \union {e}
  /\ UNCHANGED <<poolVars, pc, cur, conn, probeVars, held, remote, dead>>

ServerClose(s) ==
  /\ remote[s] # NoEndPoint
  /\ s \notin dead
  /\ dead' = dead \union {s}
  /\ UNCHANGED <<poolVars, pc, cur, conn, probeVars, held, up, remote>>

-------------------------------------------------------------------------------
CallerStep(c) ==
  \/ \E e \in EndPoint : Add(c, e) \/ Del(c, e) \/ GetPooled(c, e) \/ GetMiss(c, e)
  \/ \E E \in SUBSET EndPoint : AddAll(c, E)
  \/ Clear(c)
  \/ GetFailed(c)
  \/ GetConnected(c)
  \/ Put(c)
  \/ CallerClose(c)

ProbeStep(a) ==
  \/ Scan(a)
  \/ \E e \in EndPoint : Recheck(a, e)
  \/ ProbeFailed(a)
  \/ ProbeConnected(a)
  \/ FillInsert(a)
  \/ ProbeDone(a)

ConnectStep(a) == ConnectOk(a) \/ ConnectFail(a)

ServerStep ==
  \/ \E e \in EndPoint : ServerDown(e) \/ ServerUp(e)
  \/ \E s \in Socket : ServerClose(s)

Next ==
  \/ Construct
  \/ StopProbe
  \/ Destroy
  \/ ProbeTimer
  \/ \E c \in Caller : CallerStep(c)
  \/ \E a \in Actor : ProbeStep(a) \/ ConnectStep(a)
  \/ ServerStep

Spec == Init /\ [][Next]_vars

\* The steps a running thread takes by itself: a connect returns or times out,
\* a free mutex is obtained, the probe timer expires.  No caller is ever made
\* to start a call, and no server to change.
Fairness ==
  /\ WF_vars(ProbeTimer) /\ WF_vars(Destroy)
  /\ \A a \in Actor : WF_vars(ProbeStep(a)) /\ WF_vars(ConnectStep(a))
  /\ \A c \in Caller : WF_vars(GetFailed(c) \/ GetConnected(c))

FairSpec == Spec /\ Fairness

-------------------------------------------------------------------------------
(* Safety *)

\* Every variable has its type.
TypeOK ==
  /\ phase \in {"new", "aborted", "running", "stopping", "destroyed"}
  /\ status \in [EndPoint -> Status]
  /\ pool \in [EndPoint -> Seq(Socket)]
  /\ mutex \in Caller \union {NoActor}
  /\ pc \in [Actor -> PC]
  /\ todo \in [Actor -> [EndPoint -> LiveStatus \union {"none"}]]
  /\ cur \in [Actor -> EndPoint \union {NoEndPoint}]
  /\ conn \in [Actor -> Socket \union {NoSocket}]
  /\ spare \in [Actor -> Seq(Socket)]
  /\ need \in [Actor -> Nat]
  /\ held \in [Caller -> Socket \union {NoSocket}]
  /\ up \in SUBSET EndPoint
  /\ remote \in [Socket -> EndPoint \union {NoEndPoint}]
  /\ dead \in SUBSET Socket

\* Idle connections are kept for connected endpoints only: whatever moves an
\* endpoint out of kConnected, from whichever thread, takes its pool along
\* (asio_pool.cpp:118: only a pool of this status is usable).
OnlyConnectedPools == \A e \in EndPoint : pool[e] # << >> => status[e] = "kConnected"

\* No interleaving of put() with the two insertions of a probe takes a pool
\* over max_conn_per_endpoint.
PoolBounded == MaxConn # 0 => \A e \in EndPoint : Len(pool[e]) <= MaxConn

\* Where connection s is kept.
Places(s) ==
  (UNION {{<<"pool", e, i>> : i \in {j \in DOMAIN pool[e] : pool[e][j] = s}} :
            e \in EndPoint})
  \union (UNION {{<<"spare", a, i>> : i \in {j \in DOMAIN spare[a] : spare[a][j] = s}} :
                   a \in Actor})
  \union {<<"conn", a>> : a \in {b \in Actor : conn[b] = s}}
  \union {<<"held", c>> : c \in {b \in Caller : held[b] = s}}

\* A connection is open exactly when one place has it, and one only: no two
\* callers ever share a connection, the pool never keeps one that a caller
\* uses, and none is lost while open, whatever get(), put(), del() and the
\* probes do to the pools in between.
SingleCustody ==
  \A s \in Socket : Cardinality(Places(s)) = IF remote[s] = NoEndPoint THEN 0 ELSE 1

\* A connection is filed under the endpoint it is connected to, although get()
\* and the probes take the endpoint from the call or from the snapshot of an
\* earlier critical section and put() from the connection.
FiledUnderPeer ==
  /\ \A e \in EndPoint : \A s \in ToSet(pool[e]) : remote[s] = e
  /\ \A a \in Actor : \A s \in ToSet(spare[a]) \union ({conn[a]} \ {NoSocket}) :
       remote[s] = cur[a]

-------------------------------------------------------------------------------
(* What a step may never do *)

\* The part of the table of asio_pool.cpp:124-132 that the code keeps: only an
\* add makes an endpoint kAdding, and it must have been deleted; only a live
\* endpoint becomes kDeleting, by del; only the probe that finds it kDeleting
\* makes it kDeleted, clear() and the destructor apart, which empty map_.
StatusMoves ==
  [][\A e \in EndPoint : status'[e] # status[e] =>
       /\ status'[e] = "kAdding" => status[e] \in {"kDeleting", "kDeleted"}
       /\ status'[e] = "kDeleting" => status[e] \in LiveStatus
       /\ status'[e] = "kDeleted" => \/ status[e] = "kDeleting"
                                     \/ \A d \in EndPoint : status'[d] = "kDeleted"
    ]_vars

-------------------------------------------------------------------------------
(* Liveness *)

MutexFree == <>[](mutex = NoActor)

\* add(vector), which probes under the mutex, does not keep it for ever; once
\* nobody calls add(vector) any more, every call and every probe returns; and so
\* does the destructor: the probe in progress ends and the thread is joined.
CallsReturn ==
  /\ \A c \in Caller : mutex = c ~> mutex # c
  /\ MutexFree => \A a \in Actor : []<>(pc[a] = "idle")
  /\ phase = "stopping" ~> phase = "destroyed"

\* An endpoint being deleted becomes kDeleted (or something else); a registered
\* one whose server accepts connections for good ends up connected and stays so,
\* whatever its status was; and one whose server is gone with all its connections
\* does not stay connected.
StatusSettles ==
  \A e \in EndPoint :
    /\ MutexFree => (status[e] = "kDeleting" ~> status[e] # "kDeleting")
    /\ MutexFree /\ <>[](phase = "running" /\ e \in up /\ status[e] \in LiveStatus)
         => <>[](status[e] = "kConnected")
    /\ MutexFree /\ <>[](phase = "running" /\ e \notin up
                         /\ \A s \in Socket : remote[s] = e => s \in dead)
         => <>[](status[e] # "kConnected")
=============================================================================
