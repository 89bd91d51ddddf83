--------------------------- MODULE IoServicePool ---------------------------
(***************************************************************************)
(* The io_service_pool of async/io_service_pool.cpp: services, one thread  *)
(* each, that run() creates and joins, stop() ends and get_io_service()    *)
(* hands out in turn.  A step is an access to what the threads share; only *)
(* get_io_service() uses the mutex.                                        *)
(*                                                                         *)
(* The module has the state and the steps of a pool.  What its services    *)
(* run is up to the module that extends it.                                *)
(***************************************************************************)
EXTENDS Naturals

CONSTANTS
  PoolSize,  \* the argument of the constructor
  Stopper    \* who may call stop(); each is in one call at a time

ASSUME PoolAssumption == PoolSize \in Nat

Size == IF PoolSize = 0 THEN 1 ELSE PoolSize
Service == 0..(Size - 1)

VARIABLES
  work_,             \* the services kept from ending for lack of work
  next_io_service_,
  stopped,           \* the services stopped and not reset since
  threads,           \* the services whose thread is in io_service::run()
  run, at,           \* where run() is, and the service its loop is at
  stop,              \* how far each call of stop() is
  index, getting,    \* the local variable of get_io_service(), and where it is
  undone             \* run() has reset a service that was stopped

runVars == <<work_, stopped, threads, run, at, undone>>
getVars == <<index, getting>>
poolVars == <<runVars, next_io_service_, stop, getVars>>

StopIdle == Size + 2

PoolInit ==
  /\ work_ = {} /\ next_io_service_ = 0
  /\ stopped = {} /\ threads = {}
  /\ run = "none" /\ at = 0
  /\ stop = [t \in Stopper |-> StopIdle]
  /\ index = 0 /\ getting = "idle"
  /\ undone = FALSE

\* Nobody holds mutex_.
MutexFree == getting = "idle"

\* Faulty variants of helpers and steps below.
WrapLate(next) == IF next > Size THEN 0 ELSE next
JoinFirst == run = "join" /\ 0 \notin threads

\* The first and the last part of get_io_service().
Wrap(next) == IF next = Size THEN 0 ELSE next
Advance(n) == Wrap(n + 1)

\* get_io_service(i).
ServiceAt(i) == i % Size

-------------------------------------------------------------------------------
(* run() *)

RunBegin ==
  /\ run = "none"
  /\ run' = "work" /\ at' = 0
  /\ work_' = {}

\* The loop that gives a service work to do ...
RunWork ==
  /\ run = "work"
  /\ work_' = work_ \union {at}
  /\ run' = "reset"
  /\ UNCHANGED <<stopped, threads, at, undone, next_io_service_, stop, getVars>>

\* ... and resets it.
RunReset ==
  /\ run = "reset"
  /\ stopped' = stopped \ {at}
  /\ undone' = (undone \/ at \in stopped)
  /\ IF at + 1 < Size
       THEN run' = "work" /\ at' = at + 1 /\ UNCHANGED next_io_service_
       ELSE run' = "create" /\ at' = 0 /\ next_io_service_' = 0
  /\ UNCHANGED <<work_, threads, stop, getVars>>

RunCreate ==
  /\ run = "create"
  /\ threads' = threads \union {at}
  /\ IF at + 1 < Size THEN at' = at + 1 /\ UNCHANGED run
                      ELSE at' = 0 /\ run' = "join"
  /\ UNCHANGED <<work_, stopped, undone, next_io_service_, stop, getVars>>

\* join_all() waits for every thread.
AllJoined == run = "join" /\ threads = {}

RunReturn ==
  /\ AllJoined
  /\ run' = "returned"
  /\ UNCHANGED <<work_, stopped, threads, at, undone, next_io_service_, stop, getVars>>

\* A thread leaves io_service::run() when its service is stopped, or has no
\* work and nothing outstanding.
ThreadEnds(s, outstanding) ==
  /\ s \in threads
  /\ s \in stopped \/ (s \notin work_ /\ ~outstanding)
  /\ threads' = threads \ {s}
  /\ UNCHANGED <<work_, stopped, run, at, undone, next_io_service_, stop, getVars>>

-------------------------------------------------------------------------------
(* stop() *)

StopBegin(t) == stop[t] = StopIdle /\ stop' = [stop EXCEPT ![t] = 0]

\* The steps of a stop() of t: no work, each service stopped, the index reset.
PoolStop(t) ==
  /\ stop' = [stop EXCEPT ![t] = @ + 1]
  /\ \/ stop[t] = 0 /\ work_' = {} /\ UNCHANGED <<stopped, next_io_service_>>
     \/ stop[t] \in 1..Size /\ stopped' = stopped \union {stop[t] - 1} /\ UNCHANGED <<work_, next_io_service_>>
     \/ stop[t] = Size + 1 /\ next_io_service_' = 0 /\ UNCHANGED <<work_, stopped>>
  /\ UNCHANGED <<threads, run, at, undone, getVars>>

-------------------------------------------------------------------------------
(* get_io_service(), under the mutex, by a thread of the application *)

GetIndex ==
  /\ MutexFree
  /\ index' = next_io_service_ /\ getting' = "increment"
  /\ UNCHANGED <<runVars, next_io_service_, stop>>

\* The word may be written by run() or stop() between the read and the write of
\* the increment, and before it is compared.
GetIncrement ==
  /\ getting = "increment"
  /\ \E n \in {index, next_io_service_} : next_io_service_' = n + 1
  /\ getting' = "wrap"
  /\ UNCHANGED <<runVars, stop, index>>

GetWrap ==
  /\ getting = "wrap"
  /\ next_io_service_' = Wrap(next_io_service_)
  /\ getting' = "idle"
  /\ UNCHANGED <<runVars, stop, index>>

-------------------------------------------------------------------------------
\* The type of every variable.  The service get_io_service() hands out is one of
\* the pool's: run() and stop() write next_io_service_ without the mutex at any
\* moment of the reading, counting and wrapping, but never take it out of range.
PoolTypeOK ==
  /\ work_ \subseteq Service /\ stopped \subseteq Service /\ threads \subseteq Service
  /\ run \in {"none", "work", "reset", "create", "join", "returned"}
  /\ at \in Service
  /\ stop \in [Stopper -> 0..StopIdle]
  /\ getting \in {"idle", "increment", "wrap"} /\ index \in Service
  /\ next_io_service_ \in 0..Size
  /\ getting # "wrap" => next_io_service_ \in Service
  /\ undone \in BOOLEAN
=============================================================================
