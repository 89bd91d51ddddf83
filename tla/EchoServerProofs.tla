--------------------------- MODULE EchoServerProofs ---------------------------
(***************************************************************************)
(* Theorems about EchoServer for every number of services, every set of    *)
(* connections and every bound.                                            *)
(***************************************************************************)
EXTENDS EchoServer, FiniteSetTheorems, SequenceTheorems, TLAPS

-------------------------------------------------------------------------------
\* The windows of statistics

Window == [rpc_qps : [Function -> Nat], rpc_ok_qps : [Function -> Nat]]

\* Besides, a call that is to be counted is one of a function.
WindowInv ==
  /\ sstatus_rt_ \in Window /\ served \in Window /\ reported \in Window
  /\ \A c \in Connection : call[c].fname \in Function
  /\ DOMAIN call = Connection
  /\ CountedOnce

\* Two windows are the same when all their counts are.
LEMMA SameCounts ==
  ASSUME NEW v \in Window, NEW w \in Window,
         \A f \in Function : v.rpc_qps[f] = w.rpc_qps[f] /\ v.rpc_ok_qps[f] = w.rpc_ok_qps[f]
  PROVE  v = w
<1>1. v.rpc_qps = w.rpc_qps /\ v.rpc_ok_qps = w.rpc_ok_qps
  BY DEF Window
<1> QED
  BY <1>1 DEF Window

LEMMA PlusCounts ==
  ASSUME NEW v \in Window, NEW w \in Window
  PROVE  /\ Plus(v, w) \in Window
         /\ \A f \in Function : /\ Plus(v, w).rpc_qps[f] = v.rpc_qps[f] + w.rpc_qps[f]
                                /\ Plus(v, w).rpc_ok_qps[f] = v.rpc_ok_qps[f] + w.rpc_ok_qps[f]
<1>1. DOMAIN v = {"rpc_qps", "rpc_ok_qps"}
  BY DEF Window
<1>2. /\ v.rpc_qps \in [Function -> Nat] /\ v.rpc_ok_qps \in [Function -> Nat]
      /\ w.rpc_qps \in [Function -> Nat] /\ w.rpc_ok_qps \in [Function -> Nat]
  BY DEF Window
<1>3. Plus(v, w) = [rpc_qps |-> [f \in Function |-> v.rpc_qps[f] + w.rpc_qps[f]],
                    rpc_ok_qps |-> [f \in Function |-> v.rpc_ok_qps[f] + w.rpc_ok_qps[f]]]
  BY <1>1 DEF Plus
<1>4. /\ [f \in Function |-> v.rpc_qps[f] + w.rpc_qps[f]] \in [Function -> Nat]
      /\ [f \in Function |-> v.rpc_ok_qps[f] + w.rpc_ok_qps[f]] \in [Function -> Nat]
  BY <1>2
<1> QED
  BY <1>3, <1>4 DEF Window

LEMMA CountedCounts ==
  ASSUME NEW w \in Window, NEW f \in Function, NEW ok \in BOOLEAN
  PROVE  /\ Counted(w, f, ok) \in Window
         /\ \A g \in Function :
              /\ Counted(w, f, ok).rpc_qps[g] = IF g = f THEN w.rpc_qps[g] + 1 ELSE w.rpc_qps[g]
              /\ Counted(w, f, ok).rpc_ok_qps[g]
                   = IF g = f /\ ok THEN w.rpc_ok_qps[g] + 1 ELSE w.rpc_ok_qps[g]
<1>1. w.rpc_qps \in [Function -> Nat] /\ w.rpc_ok_qps \in [Function -> Nat]
  BY DEF Window
<1> DEFINE qps == [w.rpc_qps EXCEPT ![f] = @ + 1]
           good == IF ok THEN [w.rpc_ok_qps EXCEPT ![f] = @ + 1] ELSE w.rpc_ok_qps
<1>2. Counted(w, f, ok) = [rpc_qps |-> qps, rpc_ok_qps |-> good]
  BY DEF Counted
<1>3. /\ qps \in [Function -> Nat]
      /\ \A g \in Function : qps[g] = IF g = f THEN w.rpc_qps[g] + 1 ELSE w.rpc_qps[g]
  BY <1>1
<1>4. /\ good \in [Function -> Nat]
      /\ \A g \in Function :
           good[g] = IF g = f /\ ok THEN w.rpc_ok_qps[g] + 1 ELSE w.rpc_ok_qps[g]
  <2>1. CASE ok
    BY <1>1, <2>1
  <2>2. CASE ~ok
    BY <1>1, <2>2
  <2> QED
    BY <2>1, <2>2
<1> HIDE DEF qps, good
<1>5. Counted(w, f, ok) \in Window
  BY <1>2, <1>3, <1>4 DEF Window
<1>6. Counted(w, f, ok).rpc_qps = qps /\ Counted(w, f, ok).rpc_ok_qps = good
  BY <1>2
<1> QED
  BY <1>3, <1>4, <1>5, <1>6

\* Counting a call in two windows counts it in their sums.
LEMMA CountInSum ==
  ASSUME NEW v \in Window, NEW w \in Window, NEW f \in Function, NEW ok \in BOOLEAN
  PROVE  Counted(Plus(v, w), f, ok) = Plus(v, Counted(w, f, ok))
<1> DEFINE sum == Counted(Plus(v, w), f, ok)
           other == Plus(v, Counted(w, f, ok))
<1>1. /\ v.rpc_qps \in [Function -> Nat] /\ v.rpc_ok_qps \in [Function -> Nat]
      /\ w.rpc_qps \in [Function -> Nat] /\ w.rpc_ok_qps \in [Function -> Nat]
  BY DEF Window
<1>2. /\ sum \in Window
      /\ \A g \in Function :
           /\ sum.rpc_qps[g] = IF g = f THEN (v.rpc_qps[g] + w.rpc_qps[g]) + 1
                                        ELSE v.rpc_qps[g] + w.rpc_qps[g]
           /\ sum.rpc_ok_qps[g] = IF g = f /\ ok THEN (v.rpc_ok_qps[g] + w.rpc_ok_qps[g]) + 1
                                                 ELSE v.rpc_ok_qps[g] + w.rpc_ok_qps[g]
  BY PlusCounts, CountedCounts
<1>3. /\ other \in Window
      /\ \A g \in Function :
           /\ other.rpc_qps[g] = v.rpc_qps[g] + Counted(w, f, ok).rpc_qps[g]
           /\ other.rpc_ok_qps[g] = v.rpc_ok_qps[g] + Counted(w, f, ok).rpc_ok_qps[g]
  BY PlusCounts, CountedCounts
<1> HIDE DEF sum, other
<1>4. ASSUME NEW g \in Function
      PROVE  sum.rpc_qps[g] = other.rpc_qps[g] /\ sum.rpc_ok_qps[g] = other.rpc_ok_qps[g]
  <2>1. /\ v.rpc_qps[g] \in Nat /\ v.rpc_ok_qps[g] \in Nat
        /\ w.rpc_qps[g] \in Nat /\ w.rpc_ok_qps[g] \in Nat
    BY <1>1
  <2>2. sum.rpc_qps[g] = other.rpc_qps[g]
    <3>1. CASE g = f
      BY <1>2, <1>3, <2>1, <3>1, CountedCounts
    <3>2. CASE g # f
      BY <1>2, <1>3, <2>1, <3>2, CountedCounts
    <3> QED
      BY <3>1, <3>2
  <2>3. sum.rpc_ok_qps[g] = other.rpc_ok_qps[g]
    <3>0. Counted(w, f, ok).rpc_ok_qps[g]
            = IF g = f /\ ok THEN w.rpc_ok_qps[g] + 1 ELSE w.rpc_ok_qps[g]
      BY CountedCounts
    <3>1. CASE g = f /\ ok
      <4>1. Counted(w, f, ok).rpc_ok_qps[g] = w.rpc_ok_qps[g] + 1
        BY <3>0, <3>1
      <4>2. sum.rpc_ok_qps[g] = (v.rpc_ok_qps[g] + w.rpc_ok_qps[g]) + 1
        BY <1>2, <3>1
      <4> QED
        BY <1>3, <2>1, <4>1, <4>2
    <3>2. CASE ~(g = f /\ ok)
      BY <1>2, <1>3, <2>1, <3>2, CountedCounts
    <3> QED
      BY <3>1, <3>2
  <2> QED
    BY <2>2, <2>3
<1> QED
  BY <1>2, <1>3, <1>4, SameCounts DEF sum, other

LEMMA NewWindowZero ==
  /\ NewWindow \in Window
  /\ \A w \in Window : Plus(w, NewWindow) = w
<1>1. NewWindow \in Window
  BY DEF NewWindow, Window
<1>2. ASSUME NEW w \in Window PROVE Plus(w, NewWindow) = w
  <2>1. /\ Plus(w, NewWindow) \in Window
        /\ \A f \in Function : Plus(w, NewWindow).rpc_qps[f] = w.rpc_qps[f] + 0
                              /\ Plus(w, NewWindow).rpc_ok_qps[f] = w.rpc_ok_qps[f] + 0
    BY <1>1, PlusCounts DEF NewWindow
  <2>2. w.rpc_qps \in [Function -> Nat] /\ w.rpc_ok_qps \in [Function -> Nat]
    BY DEF Window
  <2> QED
    BY <2>1, <2>2, SameCounts
<1> QED
  BY <1>1, <1>2

\* A call that goes on from one place to another stays one of its function.
LEMMA CallGoes ==
  ASSUME WindowInv, NEW c, NEW where, Goto(c, where)
  PROVE  DOMAIN call' = Connection /\ \A d \in Connection : call'[d].fname \in Function
BY DEF WindowInv, Goto

\* A call is replaced by one of f.
Sets(c, f) == \E where : call' = [call EXCEPT ![c] = [at |-> where, fname |-> f]]

\* Only the end of a call and the update change a window.
LEMMA WindowStep == WindowInv /\ [Next]_vars => WindowInv'
<1> SUFFICES ASSUME WindowInv, [Next]_vars PROVE WindowInv'
  OBVIOUS
<1>1. ASSUME UNCHANGED windowVars,
             \/ UNCHANGED call \/ (\E c, where : Goto(c, where))
             \/ (\E c : \E f \in Function : Sets(c, f))
      PROVE  WindowInv'
  <2>1. DOMAIN call' = Connection /\ \A c \in Connection : call'[c].fname \in Function
    <3>1. CASE UNCHANGED call
      BY <3>1 DEF WindowInv
    <3>2. ASSUME NEW c, NEW where, Goto(c, where)
          PROVE  DOMAIN call' = Connection /\ \A d \in Connection : call'[d].fname \in Function
      BY <3>2, CallGoes
    <3>3. ASSUME NEW c, NEW f \in Function, Sets(c, f)
          PROVE  DOMAIN call' = Connection /\ \A d \in Connection : call'[d].fname \in Function
      BY <3>3 DEF WindowInv, Sets
    <3> QED
      BY <1>1, <3>1, <3>2, <3>3
  <2> QED
    BY <1>1, <2>1 DEF WindowInv, CountedOnce, windowVars, Plus
<1>2. ASSUME NEW c \in Connection, Count(c) PROVE WindowInv'
  <2>1. PICK ok \in BOOLEAN :
          /\ sstatus_rt_' = Counted(sstatus_rt_, call[c].fname, ok)
          /\ served' = Counted(served, call[c].fname, ok)
    BY <1>2 DEF Count
  <2>2. reported' = reported /\ Goto(c, "done")
    BY <1>2 DEF Count
  <2>3. call[c].fname \in Function
    BY DEF WindowInv
  <2>4. served = Plus(reported, sstatus_rt_)
    BY DEF WindowInv, CountedOnce
  <2>5. /\ sstatus_rt_' \in Window /\ served' \in Window /\ reported' \in Window
        /\ served' = Plus(reported', sstatus_rt_')
    BY <2>1, <2>2, <2>3, <2>4, CountedCounts, CountInSum DEF WindowInv
  <2> QED
    BY <2>2, <2>5, CallGoes DEF WindowInv, CountedOnce
<1>3. CASE SetUpdate
  <2>1. /\ sstatus_rt_' = NewWindow /\ reported' = Plus(reported, sstatus_rt_)
        /\ served' = served /\ call' = call
    BY <1>3 DEF SetUpdate, Swap
  <2>2. served = Plus(reported, sstatus_rt_)
    BY DEF WindowInv, CountedOnce
  <2>3. served' = Plus(reported', sstatus_rt_') /\ reported' \in Window
    BY <2>1, <2>2, NewWindowZero, PlusCounts DEF WindowInv
  <2> QED
    BY <2>1, <2>3, NewWindowZero DEF WindowInv, CountedOnce
<1>4. ASSUME NEW c \in Connection,
             \/ CallFunction(c) \/ SetStopped(c) \/ CheckServer(c) \/ CallStop(c)
             \/ ResetServer(c) \/ Throws(c)
      PROVE  WindowInv'
  <2>1. UNCHANGED windowVars /\ \E where : Goto(c, where)
    BY <1>4 DEF CallFunction, SetStopped, CheckServer, CallStop, ResetServer, Throws, Leave
  <2> QED
    BY <1>1, <2>1
<1>5. ASSUME NEW c \in Connection, EndCall(c) \/ \E f \in Function : BeginCall(c, f)
      PROVE  WindowInv'
  <2>1. UNCHANGED windowVars
    BY <1>5 DEF EndCall, BeginCall
  <2>2. CASE EndCall(c)
    <3>1. "echo" \in Function
      BY DEF Function
    <3>2. call' = [call EXCEPT ![c] = [at |-> "none", fname |-> "echo"]]
      BY <2>2 DEF EndCall, NoCall
    <3>3. Sets(c, "echo")
      BY <3>2 DEF Sets
    <3> QED
      BY <1>1, <2>1, <3>1, <3>3
  <2>3. ASSUME NEW f \in Function, BeginCall(c, f) PROVE WindowInv'
    <3>1. Sets(c, f)
      BY <2>3, Zenon DEF BeginCall, Sets
    <3> QED
      BY <1>1, <2>1, <3>1
  <2> QED
    BY <1>5, <2>2, <2>3
<1>6. ASSUME UNCHANGED baseVars \/ DestroyBase PROVE WindowInv'
  BY <1>1, <1>6 DEF baseVars, DestroyBase
<1>7. ASSUME NEW c \in Connection, Begin(c) \/ CallStep(c) \/ Base(Throws(c)) \/ Server(Hangup(c))
      PROVE  WindowInv'
  <2>1. CASE Begin(c)
    BY <1>5, <2>1 DEF Begin
  <2>2. CASE CallStep(c)
    BY <1>2, <1>4, <1>5, <2>2 DEF CallStep, Base, CallsStop, End
  <2>3. CASE Base(Throws(c))
    BY <1>4, <2>3 DEF Base
  <2>4. CASE Server(Hangup(c))
    BY <1>6, <2>4 DEF Server
  <2> QED
    BY <1>7, <2>1, <2>2, <2>3, <2>4
<1>8. ASSUME \/ Server(Serve) \/ Server(ServeThrows) \/ RunStep
             \/ \E s \in Service : HandlerStep(s)
             \/ Server(Connects) \/ Server(AcceptError) \/ Server(ClientConnect)
             \/ Server(Stop) \/ Server(UserStop) \/ \E t \in Stopper : StopStep(t)
             \/ Pool(GetIndex) \/ GetStep
             \/ UNCHANGED vars
      PROVE  WindowInv'
  <2>1. UNCHANGED baseVars
    BY <1>8 DEF Server, Pool, RunStep, HandlerStep, StopStep, GetStep, vars
  <2> QED
    BY <1>6, <2>1
<1>9. ASSUME Base(SetUpdate) \/ (Destroy /\ DestroyBase) PROVE WindowInv'
  BY <1>3, <1>6, <1>9 DEF Base
<1> QED
  BY <1>7, <1>8, <1>9 DEF Next

\* Every call that returns is counted once, for any number of connections, calls
\* and updates (service_base_processor.h).
THEOREM Counting == Spec => []CountedOnce
<1>1. Init => WindowInv
  <2> SUFFICES ASSUME Init PROVE WindowInv
    OBVIOUS
  <2>1. /\ sstatus_rt_ = NewWindow /\ served = NewWindow /\ reported = NewWindow
        /\ call = [c \in Thread |-> NoCall]
    BY DEF Init, BaseInit, ProcessorInit
  <2>2. NoCall.fname \in Function
    BY DEF NoCall, Function
  <2> QED
    BY <2>1, <2>2, NewWindowZero, ThreadAssumption DEF WindowInv, CountedOnce
<1>2. WindowInv => CountedOnce
  BY DEF WindowInv
<1> QED
  BY <1>1, <1>2, WindowStep, PTL DEF Spec

-------------------------------------------------------------------------------
\* Who runs what

\* run() is inside its threads' lives, a connection executes a call on a thread,
\* and stop_impl stops the pool on the thread of the first service.
OnThreads ==
  /\ run \in {"none", "returned"} => threads = {}
  /\ \A c \in Connection : conn[c] = "serving" => service[c] \in threads
  /\ stop["impl"] # StopIdle => 0 \in threads

QuietInv ==
  /\ DOMAIN conn = Connection /\ DOMAIN service = Connection /\ DOMAIN stop = Stopper
  /\ OnThreads

quietVars == <<run, threads, conn, service, stop>>

LEMMA QuietStutter == QuietInv /\ UNCHANGED quietVars => QuietInv'
BY DEF QuietInv, OnThreads, quietVars

\* A connection that is not made to serve leaves the rest as it is.
LEMMA QuietConn ==
  ASSUME QuietInv, NEW c, NEW state, state # "serving",
         conn' = [conn EXCEPT ![c] = state], UNCHANGED <<run, threads, service, stop>>
  PROVE  QuietInv'
BY DEF QuietInv, OnThreads

\* An accept gives a service to a connection that does not serve, after another
\* one was perhaps started.
LEMMA QuietAccept ==
  ASSUME QuietInv, NEW started, NEW next, NEW open, NEW q,
         AsyncAccept(started, next, open, q),
         DOMAIN started = Connection,
         \A c \in Connection : started[c] = "serving" => conn[c] = "serving",
         run' \in {"none", "returned"} => run \in {"none", "returned"},
         UNCHANGED <<threads, stop>>
  PROVE  QuietInv'
<1>1. /\ conn' = [started EXCEPT ![Fresh] = "new"]
      /\ service' = [service EXCEPT ![Fresh] = next]
  BY DEF AsyncAccept
<1>2. DOMAIN conn' = Connection /\ DOMAIN service' = Connection /\ DOMAIN stop' = Stopper
  BY <1>1 DEF QuietInv
<1>3. ASSUME NEW c \in Connection, conn'[c] = "serving" PROVE service'[c] \in threads'
  <2>1. c # Fresh /\ started[c] = "serving"
    BY <1>1, <1>3
  <2> QED
    BY <1>1, <2>1 DEF QuietInv, OnThreads
<1> QED
  BY <1>2, <1>3 DEF QuietInv, OnThreads

\* The steps of run().
LEMMA QuietRun == QuietInv /\ (RunWork \/ RunReset \/ RunCreate \/ RunReturn)
                    /\ UNCHANGED serverVars => QuietInv'
<1> SUFFICES ASSUME QuietInv, RunWork \/ RunReset \/ RunCreate \/ RunReturn,
                    UNCHANGED <<conn, service>>
             PROVE  QuietInv'
  BY DEF serverVars, connVars
<1>1. CASE RunWork
  BY <1>1 DEF RunWork, QuietInv, OnThreads
<1>2. CASE RunReset
  BY <1>2 DEF RunReset, QuietInv, OnThreads
<1>3. CASE RunCreate
  BY <1>3 DEF RunCreate, QuietInv, OnThreads
<1>4. CASE RunReturn
  BY <1>4 DEF RunReturn, AllJoined, QuietInv, OnThreads
<1> QED
  BY <1>1, <1>2, <1>3, <1>4

\* What begins and ends a call changes the state of one connection.
LEMMA QuietCalls ==
  ASSUME QuietInv, NEW c \in Connection, Begin(c) \/ CallsStop(c) \/ End(c) \/ Server(Hangup(c))
  PROVE  QuietInv'
<1>1. CASE Begin(c)
  <2>1. Frame(c)
    BY <1>1 DEF Begin
  <2>2. /\ conn' = [conn EXCEPT ![c] = "serving"] /\ service[c] \in threads
        /\ UNCHANGED <<run, threads, service, stop>>
    BY <2>1 DEF Frame, Ready, poolVars, runVars
  <2> QED
    BY <2>2 DEF QuietInv, OnThreads
<1>2. CASE CallsStop(c)
  BY <1>2, QuietStutter DEF CallsStop, quietVars, poolVars, runVars, connVars
<1>3. CASE Reply(c) \/ OnClose(c)
  <2>1. /\ \E state \in {"reading", "deleted"} : conn' = [conn EXCEPT ![c] = state]
        /\ UNCHANGED <<run, threads, service, stop>>
    BY <1>3 DEF Reply, OnClose, Ended, poolVars, runVars
  <2> QED
    BY <2>1, QuietConn
<1> QED
  BY <1>1, <1>2, <1>3 DEF End, Server, Hangup

\* The handlers of a service, and the end of its thread.
LEMMA QuietHandlers ==
  ASSUME QuietInv, NEW s \in Service, HandlerStep(s)
  PROVE  QuietInv'
<1>1. CASE HandleAccept(s)
  <2> DEFINE started == [conn EXCEPT ![new_conn_] = "reading"]
  <2>1. AsyncAccept(started, next_io_service_, listening, Done(s)) /\ UNCHANGED <<run, threads, stop>>
    BY <1>1 DEF HandleAccept, runVars
  <2>2. /\ DOMAIN started = Connection
        /\ \A c \in Connection : started[c] = "serving" => conn[c] = "serving"
    BY DEF QuietInv
  <2> HIDE DEF started
  <2> QED
    BY <2>1, <2>2, QuietAccept
<1>2. CASE HandleAcceptError(s)
  <2>1. /\ conn' = [conn EXCEPT ![new_conn_] = "deleted"]
        /\ UNCHANGED <<run, threads, service, stop>>
    BY <1>2 DEF HandleAcceptError, DeleteNewConn, Ended, poolVars, runVars
  <2> QED
    BY <2>1, QuietConn
<1>3. CASE s = 0 /\ StopImpl
  <2>1. 0 \in threads /\ UNCHANGED <<run, threads, conn, service>>
    BY <1>3 DEF StopImpl, NextHandler, Ready, runVars, connVars
  <2>2. DOMAIN stop' = DOMAIN stop
    BY <1>3 DEF StopImpl, StopBegin
  <2> QED
    BY <2>1, <2>2 DEF QuietInv, OnThreads
<1>4. CASE ThreadExit(s)
  <2>1. ~Serving(s) /\ (s = 0 => stop["impl"] = StopIdle)
    BY <1>4 DEF ThreadExit
  <2>2. threads' = threads \ {s} /\ UNCHANGED <<run, stop, conn, service>>
    BY <1>4 DEF ThreadExit, ThreadEnds, serverVars, connVars
  <2> QED
    BY <2>1, <2>2 DEF QuietInv, OnThreads, Serving
<1> QED
  BY <1>1, <1>2, <1>3, <1>4 DEF HandlerStep, Server

\* A stop() of the pool goes on, whosever it is.
LEMMA QuietStop ==
  ASSUME QuietInv, NEW t \in Stopper, StopStep(t)
  PROVE  QuietInv'
<1>1. /\ stop[t] # StopIdle
      /\ stop' = [stop EXCEPT ![t] = @ + 1]
      /\ UNCHANGED <<run, threads, conn, service>>
  BY DEF StopStep, Pool, PoolStop, serverVars, connVars
<1> QED
  BY <1>1 DEF QuietInv, OnThreads

LEMMA QuietStep == QuietInv /\ [Next]_vars => QuietInv'
<1> SUFFICES ASSUME QuietInv, [Next]_vars PROVE QuietInv'
  OBVIOUS
<1>1. CASE Server(Serve)
  <2>1. /\ AsyncAccept(conn, Advance(next_io_service_), TRUE, queue)
        /\ run \in {"none", "returned"} /\ UNCHANGED <<threads, stop>>
    BY <1>1 DEF Server, Serve, RunBegin
  <2>2. DOMAIN conn = Connection
    BY DEF QuietInv
  <2> QED
    BY <2>1, <2>2, QuietAccept
<1>2. CASE Server(ServeThrows)
  <2>1. run = "none" /\ run' = "returned" /\ UNCHANGED <<threads, stop, conn, service>>
    BY <1>2 DEF Server, ServeThrows, serverVars, connVars
  <2> QED
    BY <2>1 DEF QuietInv, OnThreads
<1>3. CASE RunStep
  BY <1>3, QuietRun DEF RunStep, Pool
<1>4. ASSUME NEW s \in Service, HandlerStep(s) PROVE QuietInv'
  BY <1>4, QuietHandlers
<1>5. CASE Server(Connects)
  <2>1. conn' = [conn EXCEPT ![pending] = "connected"] /\ UNCHANGED <<run, threads, service, stop>>
    BY <1>5 DEF Server, Connects, poolVars, runVars
  <2> QED
    BY <2>1, QuietConn
<1>6. CASE Server(AcceptError) \/ Server(ClientConnect) \/ Server(Stop)
  BY <1>6, QuietStutter
     DEF Server, AcceptError, ClientConnect, Stop, quietVars, poolVars, runVars, connVars
<1>7. CASE Server(UserStop)
  <2>1. stop' = [stop EXCEPT !["user"] = 0] /\ UNCHANGED <<run, threads, conn, service>>
    BY <1>7 DEF Server, UserStop, StopBegin, runVars, connVars
  <2> QED
    BY <2>1 DEF QuietInv, OnThreads
<1>8. ASSUME NEW t \in Stopper, StopStep(t) PROVE QuietInv'
  BY <1>8, QuietStop
<1>9. CASE Pool(GetIndex) \/ GetStep
  BY <1>9, QuietStutter
     DEF Pool, GetStep, GetIndex, GetIncrement, GetWrap, quietVars, runVars, serverVars, connVars
<1>10. ASSUME NEW c \in Connection, Begin(c) \/ CallsStop(c) \/ End(c) \/ Server(Hangup(c))
       PROVE  QuietInv'
  BY <1>10, QuietCalls
<1>11. ASSUME UNCHANGED <<poolVars, serverVars>> PROVE QuietInv'
  BY <1>11, QuietStutter DEF quietVars, poolVars, runVars, serverVars, connVars
<1>12. ASSUME NEW c \in Connection, CallStep(c) \/ Base(Throws(c)) PROVE QuietInv'
  BY <1>10, <1>11, <1>12 DEF CallStep, Base
<1>13. CASE Base(SetUpdate)
  BY <1>11, <1>13 DEF Base
<1>14. CASE Destroy
  <2>1. /\ UNCHANGED conn \/ conn' = [conn EXCEPT ![new_conn_] = "deleted"]
        /\ UNCHANGED <<run, threads, service, stop>>
    BY <1>14 DEF Destroy, DeleteNewConn, Ended, poolVars, runVars
  <2> QED
    BY <2>1, QuietConn, QuietStutter DEF quietVars
<1>15. CASE UNCHANGED vars
  BY <1>11, <1>15 DEF vars
<1> QED
  BY <1>1, <1>2, <1>3, <1>4, <1>5, <1>6, <1>7, <1>8, <1>9, <1>10, <1>12, <1>13, <1>14, <1>15
     DEF Next

LEMMA QuietInit == Init => QuietInv
<1> SUFFICES ASSUME Init PROVE QuietInv
  OBVIOUS
<1>1. /\ threads = {} /\ stop = [t \in Stopper |-> StopIdle]
      /\ conn = [c \in Connection |-> "none"] /\ service = [c \in Connection |-> 0]
  BY DEF Init, PoolInit, ServerInit
<1>2. stop["impl"] = StopIdle
  BY <1>1, StopperAssumption
<1> QED
  BY <1>1, <1>2 DEF QuietInv, OnThreads

\* serve() returns when no connection executes a call and no stop() of the server
\* is under way, for any number of services and connections (io_service_pool.cpp,
\* async_server.cpp).
THEOREM Quiet == Spec => []QuietOnReturn
<1>1. QuietInv => QuietOnReturn
  BY DEF QuietInv, OnThreads, QuietOnReturn
<1> QED
  BY <1>1, QuietInit, QuietStep, PTL DEF Spec

-------------------------------------------------------------------------------
(* The types of the pool. *)

LEMMA SizePositive == Size \in Nat /\ Size > 0 /\ Service = 0..(Size - 1) /\ 0 \in Service
BY PoolAssumption DEF Size, Service

LEMMA AdvanceService == ASSUME NEW n \in Service PROVE Advance(n) \in Service
BY SizePositive DEF Advance, Wrap

\* What run() does.
LEMMA PoolRun ==
  ASSUME PoolTypeOK, RunWork \/ RunReset \/ RunCreate \/ RunReturn
  PROVE  PoolTypeOK'
<1>1. CASE RunWork
  BY <1>1, SizePositive DEF RunWork, PoolTypeOK, getVars
<1>2. CASE RunReset
  <2>1. stopped' = stopped \ {at} /\ undone' \in BOOLEAN
        /\ UNCHANGED <<work_, threads, stop, index, getting>>
    BY <1>2 DEF RunReset, getVars, PoolTypeOK
  <2>2. /\ run' \in {"work", "create"} /\ at' \in Service
        /\ next_io_service_' \in {next_io_service_, 0}
    BY <1>2, SizePositive DEF RunReset, PoolTypeOK
  <2> QED
    BY <2>1, <2>2, SizePositive DEF PoolTypeOK
<1>3. CASE RunCreate
  <2>1. threads' = threads \union {at}
        /\ UNCHANGED <<work_, stopped, undone, next_io_service_, stop, index, getting>>
    BY <1>3 DEF RunCreate, getVars
  <2>2. run' \in {"create", "join"} /\ at' \in Service
    BY <1>3, SizePositive DEF RunCreate, PoolTypeOK
  <2> QED
    BY <2>1, <2>2 DEF PoolTypeOK
<1>4. CASE RunReturn
  BY <1>4 DEF RunReturn, PoolTypeOK, getVars
<1> QED
  BY <1>1, <1>2, <1>3, <1>4

\* What a stop() does, and get_io_service().
LEMMA PoolStops ==
  ASSUME PoolTypeOK, NEW t \in Stopper, stop[t] # StopIdle, PoolStop(t)
  PROVE  PoolTypeOK'
<1>1. StopIdle = Size + 2 /\ stop[t] \in 0..(Size + 1)
  BY SizePositive DEF StopIdle, PoolTypeOK
<1>2. stop' \in [Stopper -> 0..StopIdle]
  BY <1>1, SizePositive DEF PoolStop, PoolTypeOK
<1>3. /\ work_' \subseteq Service /\ stopped' \subseteq Service
      /\ next_io_service_' \in {next_io_service_, 0}
  <2>1. work_ \subseteq Service /\ stopped \subseteq Service
    BY DEF PoolTypeOK
  <2>2. CASE stop[t] \in 1..Size /\ stopped' = stopped \union {stop[t] - 1}
             /\ UNCHANGED <<work_, next_io_service_>>
    <3> DEFINE i == stop[t]
    <3>1. i \in 1..Size
      BY <2>2
    <3> HIDE DEF i
    <3>2. i - 1 \in Service
      BY <3>1, SizePositive
    <3> QED
      BY <2>1, <2>2, <3>2 DEF i
  <2>3. CASE stop[t] = 0 /\ work_' = {} /\ UNCHANGED <<stopped, next_io_service_>>
    BY <2>1, <2>3
  <2>4. CASE stop[t] = Size + 1 /\ next_io_service_' = 0 /\ UNCHANGED <<work_, stopped>>
    BY <2>1, <2>4
  <2> QED
    BY <2>2, <2>3, <2>4 DEF PoolStop
<1> QED
  BY <1>2, <1>3, SizePositive DEF PoolStop, PoolTypeOK, getVars

LEMMA PoolStopBegins ==
  ASSUME PoolTypeOK, NEW t \in Stopper, StopBegin(t),
         UNCHANGED <<runVars, next_io_service_, getVars>>
  PROVE  PoolTypeOK'
<1>1. stop' \in [Stopper -> 0..StopIdle]
  <2>1. StopIdle \in Nat /\ 0 \in 0..StopIdle
    BY SizePositive DEF StopIdle
  <2> QED
    BY <2>1 DEF StopBegin, PoolTypeOK
<1> QED
  BY <1>1 DEF PoolTypeOK, runVars, getVars

LEMMA PoolGets ==
  ASSUME PoolTypeOK, GetIndex \/ GetIncrement \/ GetWrap
  PROVE  PoolTypeOK'
<1>1. CASE GetIndex
  BY <1>1, SizePositive DEF GetIndex, MutexFree, PoolTypeOK, runVars
<1>2. CASE GetIncrement
  BY <1>2, SizePositive DEF GetIncrement, PoolTypeOK, runVars
<1>3. CASE GetWrap
  BY <1>3, SizePositive DEF GetWrap, Wrap, PoolTypeOK, runVars
<1> QED
  BY <1>1, <1>2, <1>3

LEMMA PoolSame == PoolTypeOK /\ UNCHANGED poolVars => PoolTypeOK'
BY DEF PoolTypeOK, poolVars, runVars, getVars

\* What an accept does to the pool.
LEMMA PoolAccept ==
  ASSUME PoolTypeOK, MutexFree, NEW n \in Service, next_io_service_' = Advance(n),
         UNCHANGED <<runVars, stop, getVars>>
  PROVE  PoolTypeOK'
<1>1. next_io_service_' \in Service /\ next_io_service_' \in 0..Size
  BY AdvanceService, SizePositive
<1> QED
  BY <1>1 DEF PoolTypeOK, runVars, getVars

LEMMA PoolStep == PoolTypeOK /\ [Next]_vars => PoolTypeOK'
<1> SUFFICES ASSUME PoolTypeOK, [Next]_vars PROVE PoolTypeOK'
  OBVIOUS
<1>0. MutexFree => next_io_service_ \in Service
  BY DEF MutexFree, PoolTypeOK
<1>1. CASE Server(Serve)
  <2>1. /\ MutexFree /\ next_io_service_' = Advance(Advance(next_io_service_))
        /\ run' = "work" /\ at' = 0 /\ work_' = {}
        /\ UNCHANGED <<stopped, threads, undone, stop, index, getting>>
    BY <1>1 DEF Server, Serve, RunBegin, AsyncAccept, getVars
  <2>2. next_io_service_' \in Service
    BY <1>0, <2>1, AdvanceService
  <2> QED
    BY <2>1, <2>2, SizePositive DEF PoolTypeOK
<1>2. CASE Server(ServeThrows)
  <2>1. next_io_service_' \in Service
    BY <1>0, <1>2, AdvanceService DEF Server, ServeThrows
  <2> QED
    BY <1>2, <2>1, SizePositive DEF Server, ServeThrows, PoolTypeOK, getVars
<1>3. CASE RunStep
  BY <1>3, PoolRun DEF RunStep, Pool
<1>4. ASSUME NEW s \in Service, HandlerStep(s) PROVE PoolTypeOK'
  <2>1. CASE HandleAccept(s)
    BY <1>0, <2>1, PoolAccept DEF HandleAccept, AsyncAccept
  <2>2. CASE HandleAcceptError(s)
    BY <2>2, PoolSame DEF HandleAcceptError
  <2>3. CASE StopImpl
    BY <2>3, StopperAssumption, PoolStopBegins DEF StopImpl
  <2>4. CASE ThreadExit(s)
    BY <2>4 DEF ThreadExit, ThreadEnds, PoolTypeOK, getVars
  <2> QED
    BY <1>4, <2>1, <2>2, <2>3, <2>4 DEF HandlerStep, Server
<1>5. CASE Server(Connects) \/ Server(AcceptError) \/ Server(ClientConnect) \/ Server(Stop)
  BY <1>5, PoolSame DEF Server, Connects, AcceptError, ClientConnect, Stop
<1>6. CASE Server(UserStop)
  BY <1>6, StopperAssumption, PoolStopBegins DEF Server, UserStop
<1>7. ASSUME NEW t \in Stopper, StopStep(t) PROVE PoolTypeOK'
  BY <1>7, PoolStops DEF StopStep, Pool
<1>8. CASE Pool(GetIndex) \/ GetStep
  BY <1>8, PoolGets DEF Pool, GetStep
<1>9. ASSUME NEW c \in Connection,
             Begin(c) \/ CallStep(c) \/ Base(Throws(c)) \/ Server(Hangup(c))
      PROVE  PoolTypeOK'
  BY <1>9, PoolSame
     DEF Begin, Frame, CallStep, CallsStop, End, Reply, OnClose, Base, Server, Hangup
<1>10. CASE Base(SetUpdate)
  BY <1>10, PoolSame DEF Base
<1>11. CASE Destroy
  BY <1>11, PoolSame DEF Destroy
<1>12. CASE UNCHANGED vars
  BY <1>12, PoolSame DEF vars
<1> QED
  BY <1>1, <1>2, <1>3, <1>4, <1>5, <1>6, <1>7, <1>8, <1>9, <1>10, <1>11, <1>12 DEF Next

-------------------------------------------------------------------------------
(* The handlers in a queue. *)

Handler == {"accepted", "failed", "stop_impl"}

\* No handler of an accept is in the queue, or one, with result h.
NoAccept(q) == \A i \in 1..Len(q) : q[i] = "stop_impl"
OneAccept(q, h) ==
  \E i \in 1..Len(q) : q[i] = h /\ \A j \in 1..Len(q) : j # i => q[j] = "stop_impl"

LEMMA QueueAppend ==
  ASSUME NEW q \in Seq(Handler), NEW h \in Handler
  PROVE  /\ Append(q, h) \in Seq(Handler)
         /\ NoAccept(q) =>
              IF h = "stop_impl" THEN NoAccept(Append(q, h)) ELSE OneAccept(Append(q, h), h)
         /\ h = "stop_impl" =>
              \A g \in Handler : OneAccept(q, g) => OneAccept(Append(q, h), g)
<1> DEFINE r == Append(q, h)
           n == Len(q)
<1>1. /\ r \in Seq(Handler) /\ n \in Nat /\ Len(r) = n + 1
      /\ r[n + 1] = h /\ \A i \in 1..n : r[i] = q[i]
  BY AppendProperties, LenProperties
<1> HIDE DEF r
<1>2. NoAccept(q) => IF h = "stop_impl" THEN NoAccept(r) ELSE OneAccept(r, h)
  <2> SUFFICES ASSUME NoAccept(q)
               PROVE  IF h = "stop_impl" THEN NoAccept(r) ELSE OneAccept(r, h)
    OBVIOUS
  <2>1. \A i \in 1..n : r[i] = "stop_impl"
    BY <1>1 DEF NoAccept
  <2> HIDE DEF n
  <2>2. n + 1 \in 1..Len(r) /\ \A i \in 1..Len(r) : i # n + 1 => r[i] = "stop_impl"
    BY <1>1, <2>1
  <2> QED
    BY <1>1, <2>2 DEF NoAccept, OneAccept
<1>3. ASSUME h = "stop_impl", NEW g \in Handler, OneAccept(q, g) PROVE OneAccept(r, g)
  <2>1. PICK i \in 1..n : q[i] = g /\ \A j \in 1..n : j # i => q[j] = "stop_impl"
    BY <1>3 DEF OneAccept
  <2> HIDE DEF n
  <2>2. i \in 1..Len(r) /\ r[i] = g /\ \A j \in 1..Len(r) : j # i => r[j] = "stop_impl"
    BY <1>1, <1>3, <2>1
  <2> QED
    BY <2>2 DEF OneAccept
<1> QED
  BY <1>1, <1>2, <1>3 DEF r

LEMMA QueueTail ==
  ASSUME NEW q \in Seq(Handler), q # << >>
  PROVE  /\ Tail(q) \in Seq(Handler)
         /\ NoAccept(q) => Head(q) = "stop_impl" /\ NoAccept(Tail(q))
         /\ \A g \in Handler \ {"stop_impl"} : OneAccept(q, g) =>
              IF Head(q) = "stop_impl" THEN OneAccept(Tail(q), g)
                                       ELSE Head(q) = g /\ NoAccept(Tail(q))
<1> DEFINE r == Tail(q)
           n == Len(q)
<1>1. /\ r \in Seq(Handler) /\ n \in Nat /\ n > 0 /\ Len(r) = n - 1
      /\ Head(q) = q[1] /\ \A i \in 1..(n - 1) : r[i] = q[i + 1]
  <2>1. q[1] = Head(q) /\ n \in Nat /\ n # 0
    BY LenProperties, EmptySeq
  <2> QED
    BY <2>1, HeadTailProperties
<1> HIDE DEF r
<1>2. NoAccept(q) => Head(q) = "stop_impl" /\ NoAccept(r)
  <2> SUFFICES ASSUME \A i \in 1..n : q[i] = "stop_impl"
               PROVE  q[1] = "stop_impl" /\ \A i \in 1..(n - 1) : r[i] = "stop_impl"
    BY <1>1 DEF NoAccept
  <2> HIDE DEF n
  <2> QED
    BY <1>1
<1>3. ASSUME NEW g \in Handler \ {"stop_impl"}, OneAccept(q, g)
      PROVE  IF Head(q) = "stop_impl" THEN OneAccept(r, g) ELSE Head(q) = g /\ NoAccept(r)
  <2>1. PICK i \in 1..n : q[i] = g /\ \A j \in 1..n : j # i => q[j] = "stop_impl"
    BY <1>3 DEF OneAccept
  <2> HIDE DEF n
  <2>2. CASE i = 1
    <3>1. Head(q) = g /\ \A j \in 1..Len(r) : r[j] = "stop_impl"
      BY <1>1, <2>1, <2>2
    <3> QED
      BY <3>1 DEF NoAccept
  <2>3. CASE i # 1
    <3>1. Head(q) = "stop_impl"
      BY <1>1, <2>1, <2>3
    <3>2. i - 1 \in 1..Len(r) /\ r[i - 1] = g
      BY <1>1, <2>1, <2>3
    <3>3. ASSUME NEW j \in 1..Len(r), j # i - 1 PROVE r[j] = "stop_impl"
      <4>1. j + 1 \in 1..n /\ j + 1 # i /\ r[j] = q[j + 1]
        BY <1>1, <2>1, <3>3
      <4> QED
        BY <2>1, <4>1
    <3> QED
      BY <3>1, <3>2, <3>3 DEF OneAccept
  <2> QED
    BY <2>2, <2>3
<1> QED
  BY <1>1, <1>2, <1>3 DEF r

\* The handlers of accepts are counted.
Accepts(q) == Cardinality({i \in DOMAIN q : q[i] # "stop_impl"})

LEMMA QueueCount ==
  ASSUME NEW q \in Seq(Handler)
  PROVE  /\ NoAccept(q) => Accepts(q) = 0 /\ ToSet(q) \subseteq {"stop_impl"}
         /\ \A g \in Handler \ {"stop_impl"} : OneAccept(q, g) =>
              Accepts(q) = 1 /\ ToSet(q) \subseteq {g, "stop_impl"}
<1> DEFINE S == {i \in DOMAIN q : q[i] # "stop_impl"}
<1>1. DOMAIN q = 1..Len(q) /\ ToSet(q) = {q[i] : i \in 1..Len(q)}
  BY LenProperties DEF ToSet
<1>2. NoAccept(q) => S = {} /\ ToSet(q) \subseteq {"stop_impl"}
  BY <1>1 DEF NoAccept
<1>3. ASSUME NEW g \in Handler \ {"stop_impl"}, OneAccept(q, g)
      PROVE  /\ \E i : S = {i}
             /\ ToSet(q) \subseteq {g, "stop_impl"}
  <2>1. PICK i \in 1..Len(q) : q[i] = g /\ \A j \in 1..Len(q) : j # i => q[j] = "stop_impl"
    BY <1>3 DEF OneAccept
  <2>2. S = {i}
    BY <1>1, <2>1
  <2> QED
    BY <1>1, <2>1, <2>2
<1> HIDE DEF S
<1>4. S = {} => Cardinality(S) = 0
  BY FS_EmptySet
<1>5. (\E i : S = {i}) => Cardinality(S) = 1
  BY FS_Singleton
<1> QED
  BY <1>2, <1>3, <1>4, <1>5 DEF S, Accepts

-------------------------------------------------------------------------------
(* The server and its accept. *)

State == {"none", "new", "connected", "reading", "serving", "deleted"}

ServerTypes ==
  /\ new_conn_ \in Connection \union {NoConn} /\ set_ \subseteq Connection
  /\ conn \in [Connection -> State]
  /\ service \in [Connection -> Service] /\ home \in Service
  /\ listening \in BOOLEAN /\ destroyed \in BOOLEAN
  /\ queue \in [Service -> Seq(Handler)]
  /\ limit \in Limits /\ clients \in Nat /\ backlog \in Nat /\ errors \in Nat
  /\ clients <= limit.clients

\* An accept is in progress, or has the result h, of which the handler has not run.
InProgress(conns, accept, q) ==
  pending = accept /\ listening /\ conns[accept] = "new" /\ NoAccept(q)
Completed(conns, accept, q) ==
  /\ pending = NoConn
  /\ \/ conns[accept] = "connected" /\ OneAccept(q, "accepted")
     \/ conns[accept] = "new" /\ OneAccept(q, "failed") /\ (listening => errors > 0)

\* There is such an accept for new_conn_, and none when it is null.
AcceptInv ==
  /\ \A s \in Service \ {home} : NoAccept(queue[s])
  /\ \/ new_conn_ = NoConn /\ pending = NoConn /\ NoAccept(queue[home])
     \/ new_conn_ # NoConn /\ InProgress(conn, new_conn_, queue[home])
     \/ new_conn_ # NoConn /\ Completed(conn, new_conn_, queue[home])
  /\ listening /\ errors = 0 => new_conn_ # NoConn

DestroyedInv == run = "returned" /\ ~listening /\ pending = NoConn /\ new_conn_ = NoConn

SetInv == set_ = {c \in Connection : conn[c] \in {"reading", "serving"}}

\* No more connections are made than clients connected, and one.
Used == {c \in Connection : conn[c] # "none"}
Accepted == new_conn_ # NoConn /\ conn[new_conn_] = "connected"
CountInv ==
  /\ run = "none" => Used = {} /\ backlog = 0 /\ ~listening
  /\ Cardinality(Used) + backlog + (IF Accepted THEN 1 ELSE 0) <= clients + 1

ServerInv ==
  /\ ServerTypes /\ SetInv
  /\ IF destroyed THEN DestroyedInv ELSE AcceptInv /\ CountInv

LEMMA UsedFinite == IsFiniteSet(Used) /\ Cardinality(Used) \in Nat
<1>1. Used \subseteq Connection
  BY DEF Used
<1>2. IsFiniteSet(Used)
  BY <1>1, ConnectionAssumption, FS_Subset
<1> QED
  BY <1>2, FS_CardinalityType

LEMMA ServerImplies == ServerInv => NoDangling
<1> SUFFICES ASSUME ServerInv PROVE NoDangling
  OBVIOUS
<1>1. queue[home] \in Seq(Handler) /\ listening \in BOOLEAN /\ destroyed \in BOOLEAN
  BY DEF ServerInv, ServerTypes
<1>2. set_ = {c \in Connection : conn[c] \in {"reading", "serving"}}
  BY DEF ServerInv, SetInv
<1>3. CASE destroyed
  BY <1>2, <1>3 DEF ServerInv, DestroyedInv, NoDangling
<1>4. CASE ~destroyed
  <2> DEFINE n == Accepts(queue[home])
  <2>0. Accepting = (IF pending = NoConn THEN 0 ELSE 1) + n
    BY DEF Accepting, Accepts
  <2>1. /\ NoAccept(queue[home]) => n = 0 /\ "accepted" \notin ToSet(queue[home])
        /\ OneAccept(queue[home], "accepted") => n = 1
        /\ OneAccept(queue[home], "failed") => n = 1 /\ "accepted" \notin ToSet(queue[home])
    BY <1>1, QueueCount DEF Handler
  <2>2. AcceptInv
    BY <1>4 DEF ServerInv
  <2> HIDE DEF n
  <2>3. CASE new_conn_ = NoConn /\ pending = NoConn /\ NoAccept(queue[home])
    BY <1>2, <1>4, <2>0, <2>1, <2>2, <2>3 DEF AcceptInv, NoDangling
  <2>4. CASE new_conn_ # NoConn /\ InProgress(conn, new_conn_, queue[home])
    BY <1>2, <1>4, <2>0, <2>1, <2>2, <2>4 DEF InProgress, NoDangling
  <2>5. CASE new_conn_ # NoConn /\ Completed(conn, new_conn_, queue[home])
    BY <1>2, <1>4, <2>0, <2>1, <2>2, <2>5 DEF Completed, NoDangling
  <2> QED
    BY <2>2, <2>3, <2>4, <2>5 DEF AcceptInv
<1> QED
  BY <1>3, <1>4

-------------------------------------------------------------------------------
(* What the steps do to it. *)

\* A step of the pool.
LEMMA ServerSame ==
  ASSUME ServerInv, UNCHANGED serverVars,
         run' = "none" => run = "none", run = "returned" => run' = "returned"
  PROVE  ServerInv'
<1>1. /\ UNCHANGED <<new_conn_, home, listening, pending, set_, conn, service, queue, destroyed>>
      /\ UNCHANGED <<limit, clients, backlog, errors>>
  BY DEF serverVars, acceptVars, connVars, countVars
<1>2. ServerTypes' /\ SetInv'
  BY <1>1 DEF ServerInv, ServerTypes, SetInv
<1>3. DestroyedInv => DestroyedInv'
  BY <1>1 DEF DestroyedInv
<1>4. AcceptInv => AcceptInv'
  BY <1>1 DEF AcceptInv, InProgress, Completed
<1>5. CountInv => CountInv'
  BY <1>1 DEF CountInv, Used, Accepted
<1> QED
  BY <1>1, <1>2, <1>3, <1>4, <1>5 DEF ServerInv

\* A handler of stop_impl comes.
LEMMA ServerPost ==
  ASSUME ServerInv, NEW t \in Service, Post(t, "stop_impl"),
         UNCHANGED <<run, acceptVars, connVars, destroyed, limit, clients, backlog, errors>>
  PROVE  ServerInv'
<1>1. UNCHANGED <<run, new_conn_, home, listening, pending, set_, conn, service, destroyed,
                  limit, clients, backlog, errors>>
  BY DEF acceptVars, connVars
<1>2. queue \in [Service -> Seq(Handler)] /\ home \in Service /\ "stop_impl" \in Handler
  BY DEF ServerInv, ServerTypes, Handler
<1>3. /\ queue'[t] = Append(queue[t], "stop_impl")
      /\ \A s \in Service \ {t} : queue'[s] = queue[s]
      /\ queue' \in [Service -> Seq(Handler)]
  BY <1>2, QueueAppend DEF Post
<1>4. ServerTypes' /\ SetInv'
  BY <1>1, <1>3 DEF ServerInv, ServerTypes, SetInv
<1>5. DestroyedInv => DestroyedInv'
  BY <1>1 DEF DestroyedInv
<1>6. /\ \A s \in Service : NoAccept(queue[s]) => NoAccept(queue'[s])
      /\ \A s \in Service : \A h \in Handler :
           OneAccept(queue[s], h) => OneAccept(queue'[s], h)
  <2>1. /\ NoAccept(queue[t]) => NoAccept(queue'[t])
        /\ \A h \in Handler : OneAccept(queue[t], h) => OneAccept(queue'[t], h)
    BY <1>2, <1>3, QueueAppend
  <2> QED
    BY <1>3, <2>1
<1>7. AcceptInv => AcceptInv'
  BY <1>1, <1>2, <1>6 DEF AcceptInv, InProgress, Completed, Handler
<1>8. CountInv => CountInv'
  BY <1>1 DEF CountInv, Used, Accepted
<1> QED
  BY <1>1, <1>4, <1>5, <1>7, <1>8 DEF ServerInv

\* A connection that was started begins or ends a call, or is deleted.
LEMMA ServerConn ==
  ASSUME ServerInv, NEW c \in Connection, conn[c] \in {"reading", "serving"},
         NEW state \in {"reading", "serving", "deleted"},
         conn' = [conn EXCEPT ![c] = state],
         set_' = IF state = "deleted" THEN set_ \ {c} ELSE set_,
         UNCHANGED <<run, acceptVars, service, queue, destroyed, countVars>>
  PROVE  ServerInv'
<1>1. UNCHANGED <<run, new_conn_, home, listening, pending, service, queue, destroyed,
                  limit, clients, backlog, errors>>
  BY DEF acceptVars, countVars
<1>2. conn \in [Connection -> State]
  BY DEF ServerInv, ServerTypes
<1>3. conn' \in [Connection -> State]
  BY <1>2 DEF State
<1>4. conn'[c] = state /\ \A d \in Connection \ {c} : conn'[d] = conn[d]
  BY <1>2
<1>5. ServerTypes'
  BY <1>1, <1>3 DEF ServerInv, ServerTypes
<1>6. SetInv'
  BY <1>4 DEF ServerInv, SetInv
<1>7. DestroyedInv => DestroyedInv'
  BY <1>1 DEF DestroyedInv
<1>8. ASSUME AcceptInv, CountInv PROVE AcceptInv' /\ CountInv'
  <2>1. new_conn_ # NoConn => /\ new_conn_ \in Connection
                              /\ conn[new_conn_] \in {"new", "connected"}
    BY <1>8 DEF AcceptInv, InProgress, Completed, ServerInv, ServerTypes
  <2>2. new_conn_ # NoConn => conn'[new_conn_] = conn[new_conn_]
    BY <1>4, <2>1
  <2>3. AcceptInv'
    BY <1>1, <1>8, <2>2 DEF AcceptInv, InProgress, Completed
  <2>4. Used' = Used
    BY <1>4 DEF Used
  <2>5. Accepted' = Accepted
    BY <1>1, <2>2 DEF Accepted
  <2> QED
    BY <1>1, <1>8, <2>3, <2>4, <2>5 DEF CountInv
<1> QED
  BY <1>1, <1>5, <1>6, <1>7, <1>8 DEF ServerInv

\* There is a connection that was not made yet.
LEMMA FreshIs ==
  ASSUME ServerTypes, Cardinality(Used) <= clients
  PROVE  Fresh \in Connection /\ conn[Fresh] = "none"
<1>1. limit.clients \in Nat /\ limit.clients < Cardinality(Connection)
  BY ConnectionAssumption DEF ServerTypes
<1>2. clients \in Nat /\ clients <= limit.clients
  BY DEF ServerTypes
<1>3. Used \subseteq Connection
  BY DEF Used
<1>4. Cardinality(Connection) \in Nat
  BY ConnectionAssumption, FS_CardinalityType
<1>5. Used # Connection
  BY <1>1, <1>2, <1>4, UsedFinite
<1> QED
  BY <1>3, <1>5 DEF Used, Fresh

\* A new accept, when none is in progress.
LEMMA ServerAccepts ==
  ASSUME ServerTypes, Cardinality(Used) + backlog <= clients,
         NEW started \in [Connection -> State],
         \A c \in Connection : started[c] = "none" <=> conn[c] = "none",
         NEW next \in Service, NEW open \in BOOLEAN, NEW q \in [Service -> Seq(Handler)],
         AsyncAccept(started, next, open, q),
         \A s \in Service : NoAccept(q[s]),
         listening' = open, home' \in Service, open \/ home' = home, run' # "none",
         UNCHANGED <<destroyed, limit, clients, backlog, errors>>,
         set_' = {c \in Connection : started[c] \in {"reading", "serving"}}
  PROVE  ServerTypes' /\ SetInv' /\ AcceptInv' /\ CountInv'
<1>1. clients \in Nat /\ backlog \in Nat /\ home \in Service
  BY DEF ServerTypes
<1>2. Cardinality(Used) <= clients
  BY <1>1, UsedFinite
<1>3. Fresh \in Connection /\ conn[Fresh] = "none"
  BY <1>2, FreshIs
<1>4. /\ new_conn_' = Fresh
      /\ conn' = [started EXCEPT ![Fresh] = "new"]
      /\ service' = [service EXCEPT ![Fresh] = next]
      /\ pending' = IF open THEN Fresh ELSE NoConn
      /\ queue' = IF open THEN q ELSE [q EXCEPT ![home] = Append(@, "failed")]
  BY DEF AsyncAccept
<1> DEFINE f == Fresh
<1>5. f \in Connection /\ f # NoConn /\ started[f] = "none"
  BY <1>3, ConnectionAssumption
<1> HIDE DEF f
<1>6. conn'[f] = "new" /\ \A c \in Connection \ {f} : conn'[c] = started[c]
  BY <1>4, <1>5 DEF f
<1>7. conn' \in [Connection -> State]
  BY <1>4 DEF State
<1>8. /\ queue' \in [Service -> Seq(Handler)]
      /\ IF open THEN queue' = q
         ELSE OneAccept(queue'[home], "failed") /\ \A s \in Service \ {home} : NoAccept(queue'[s])
  <2>1. "failed" \in Handler /\ q[home] \in Seq(Handler)
    BY <1>1 DEF Handler
  <2>2. /\ Append(q[home], "failed") \in Seq(Handler)
        /\ OneAccept(Append(q[home], "failed"), "failed")
    BY <1>1, <2>1, QueueAppend
  <2>3. CASE open
    BY <1>4, <2>3
  <2>4. CASE ~open
    BY <1>1, <1>4, <2>2, <2>4
  <2> QED
    BY <2>3, <2>4
<1>9. ServerTypes'
  <2>1. service' \in [Connection -> Service]
    BY <1>4 DEF ServerTypes
  <2>2. set_' \subseteq Connection /\ new_conn_' \in Connection
    BY <1>3, <1>4
  <2> QED
    BY <1>7, <1>8, <2>1, <2>2 DEF ServerTypes
<1>10. SetInv'
  BY <1>5, <1>6 DEF SetInv
<1>11. AcceptInv'
  <2>1. CASE open
    BY <1>4, <1>5, <1>6, <1>8, <2>1 DEF AcceptInv, InProgress, f
  <2>2. CASE ~open
    BY <1>4, <1>5, <1>6, <1>8, <2>2 DEF AcceptInv, Completed, f
  <2> QED
    BY <2>1, <2>2
<1>12. CountInv'
  <2>1. Used' = Used \union {f} /\ f \notin Used
    BY <1>3, <1>5, <1>6 DEF Used, f
  <2>2. Cardinality(Used') = Cardinality(Used) + 1
    BY <2>1, UsedFinite, FS_AddElement
  <2>3. ~Accepted'
    BY <1>4, <1>6 DEF Accepted, f
  <2>4. Cardinality(Used') + backlog' <= clients' + 1
    BY <1>1, <2>2, UsedFinite
  <2> QED
    BY <1>1, <2>2, <2>3, <2>4, UsedFinite DEF CountInv
<1> QED
  BY <1>9, <1>10, <1>11, <1>12

\* serve() opens the acceptor.
LEMMA ServerServe == ASSUME ServerInv, PoolTypeOK, Serve PROVE ServerInv'
<1>1. /\ run = "none" /\ ~destroyed /\ MutexFree /\ run' = "work"
      /\ home' = next_io_service_ /\ listening' = TRUE
      /\ AsyncAccept(conn, Advance(next_io_service_), TRUE, queue)
      /\ UNCHANGED <<set_, destroyed, limit, clients, backlog, errors>>
  BY DEF Serve, RunBegin, OpenAcceptor, countVars
<1>2. ServerTypes /\ SetInv /\ AcceptInv /\ CountInv
  BY <1>1 DEF ServerInv
<1>3. Used = {} /\ backlog = 0 /\ \A c \in Connection : conn[c] = "none"
  BY <1>1, <1>2 DEF CountInv, Used
<1>4. new_conn_ = NoConn
  BY <1>2, <1>3 DEF AcceptInv, InProgress, Completed, ServerTypes
<1>5. \A s \in Service : NoAccept(queue[s])
  BY <1>2, <1>4 DEF AcceptInv
<1>6. Cardinality(Used) + backlog <= clients
  BY <1>2, <1>3, FS_EmptySet DEF ServerTypes
<1>7. next_io_service_ \in Service /\ Advance(next_io_service_) \in Service
  BY <1>1, AdvanceService DEF MutexFree, PoolTypeOK
<1>8. /\ conn \in [Connection -> State] /\ queue \in [Service -> Seq(Handler)]
      /\ set_' = {c \in Connection : conn[c] \in {"reading", "serving"}}
  BY <1>1, <1>2 DEF ServerTypes, SetInv
<1>9. ServerTypes' /\ SetInv' /\ AcceptInv' /\ CountInv'
  BY <1>1, <1>2, <1>5, <1>6, <1>7, <1>8, ServerAccepts
<1> QED
  BY <1>1, <1>9 DEF ServerInv

\* A handler runs on a thread, while serve() does.
LEMMA HandlerRuns ==
  ASSUME QuietInv, ServerInv, NEW s \in Service, NEW h, NextHandler(s, h)
  PROVE  ~destroyed /\ AcceptInv /\ CountInv /\ run # "none"
<1>1. s \in threads
  BY DEF NextHandler, Ready
<1>2. run \notin {"none", "returned"}
  BY <1>1 DEF QuietInv, OnThreads
<1> QED
  BY <1>2 DEF ServerInv, DestroyedInv

\* The handler of an accept is that of the accept for new_conn_, and was the only
\* one.
LEMMA AcceptHandler ==
  ASSUME ServerTypes, AcceptInv, NEW s \in Service, NEW h \in {"accepted", "failed"},
         NextHandler(s, h)
  PROVE  /\ s = home /\ new_conn_ \in Connection /\ pending = NoConn
         /\ conn[new_conn_] = IF h = "accepted" THEN "connected" ELSE "new"
         /\ h = "failed" => (listening => errors > 0)
         /\ Done(s) \in [Service -> Seq(Handler)]
         /\ \A t \in Service : NoAccept(Done(s)[t])
<1>1. queue \in [Service -> Seq(Handler)] /\ home \in Service
  BY DEF ServerTypes
<1>2. queue[s] \in Seq(Handler) /\ queue[s] # << >> /\ Head(queue[s]) = h
  BY <1>1 DEF NextHandler
<1>3. ~NoAccept(queue[s])
  BY <1>2, QueueTail
<1>4. s = home /\ new_conn_ # NoConn /\ Completed(conn, new_conn_, queue[s])
  BY <1>3 DEF AcceptInv, InProgress
<1>5. PICK g \in {"accepted", "failed"} :
        /\ OneAccept(queue[s], g) /\ pending = NoConn
        /\ conn[new_conn_] = IF g = "accepted" THEN "connected" ELSE "new"
        /\ g = "failed" => (listening => errors > 0)
  BY <1>4 DEF Completed
<1>6. g = h /\ NoAccept(Tail(queue[s])) /\ Tail(queue[s]) \in Seq(Handler)
  <2>1. g \in Handler \ {"stop_impl"}
    BY DEF Handler
  <2> QED
    BY <1>2, <1>5, <2>1, QueueTail
<1>7. /\ Done(s) \in [Service -> Seq(Handler)]
      /\ \A t \in Service : Done(s)[t] = IF t = s THEN Tail(queue[s]) ELSE queue[t]
  BY <1>1, <1>6 DEF Done
<1>8. \A t \in Service : NoAccept(Done(s)[t])
  BY <1>4, <1>6, <1>7 DEF AcceptInv
<1> QED
  BY <1>4, <1>5, <1>6, <1>7, <1>8 DEF ServerTypes

LEMMA ServerHandleAccept ==
  ASSUME QuietInv, PoolTypeOK, ServerInv, NEW s \in Service, HandleAccept(s)
  PROVE  ServerInv'
<1> DEFINE started == [conn EXCEPT ![new_conn_] = "reading"]
<1>1. /\ NextHandler(s, "accepted") /\ MutexFree
      /\ set_' = set_ \union ({new_conn_} \ {NoConn})
      /\ AsyncAccept(started, next_io_service_, listening, Done(s))
      /\ UNCHANGED <<run, home, listening, destroyed, limit, clients, backlog, errors>>
  BY DEF HandleAccept, Start, runVars, countVars
<1>2. ~destroyed /\ AcceptInv /\ CountInv /\ run # "none" /\ ServerTypes /\ SetInv
  BY <1>1, HandlerRuns DEF ServerInv
<1>3. /\ new_conn_ \in Connection /\ conn[new_conn_] = "connected"
      /\ Done(s) \in [Service -> Seq(Handler)]
      /\ \A t \in Service : NoAccept(Done(s)[t])
  BY <1>1, <1>2, AcceptHandler
<1>4. conn \in [Connection -> State] /\ home \in Service /\ listening \in BOOLEAN
  BY <1>2 DEF ServerTypes
<1>5. /\ started \in [Connection -> State]
      /\ started[new_conn_] = "reading"
      /\ \A c \in Connection \ {new_conn_} : started[c] = conn[c]
  BY <1>3, <1>4 DEF State
<1> HIDE DEF started
<1>6. new_conn_ # NoConn
  BY <1>3, ConnectionAssumption
<1>7. /\ \A c \in Connection : started[c] = "none" <=> conn[c] = "none"
      /\ set_' = {c \in Connection : started[c] \in {"reading", "serving"}}
  BY <1>1, <1>2, <1>3, <1>5, <1>6 DEF SetInv
<1>8. Cardinality(Used) + backlog <= clients
  <2>1. Accepted
    BY <1>3, <1>6 DEF Accepted
  <2>2. Cardinality(Used) + backlog + 1 <= clients + 1 /\ clients \in Nat /\ backlog \in Nat
    BY <1>2, <2>1 DEF CountInv, ServerTypes
  <2> QED
    BY <2>2, UsedFinite
<1>9. next_io_service_ \in Service
  BY <1>1 DEF MutexFree, PoolTypeOK
<1>10. ServerTypes' /\ SetInv' /\ AcceptInv' /\ CountInv'
  <2>1. /\ listening' = listening /\ home' \in Service /\ home' = home /\ run' # "none"
        /\ UNCHANGED <<destroyed, limit, clients, backlog, errors>>
    BY <1>1, <1>2, <1>4
  <2> DEFINE q == Done(s)
             next == next_io_service_
  <2>2. /\ AsyncAccept(started, next, listening, q) /\ next \in Service
        /\ q \in [Service -> Seq(Handler)] /\ \A t \in Service : NoAccept(q[t])
    BY <1>1, <1>3, <1>9
  <2> HIDE DEF q, next
  <2> QED
    BY <1>2, <1>4, <1>5, <1>7, <1>8, <2>1, <2>2, ServerAccepts
<1> QED
  BY <1>1, <1>2, <1>10 DEF ServerInv

LEMMA ServerHandleError ==
  ASSUME QuietInv, ServerInv, NEW s \in Service, HandleAcceptError(s)
  PROVE  ServerInv'
<1>1. /\ NextHandler(s, "failed") /\ new_conn_' = NoConn
      /\ conn' = [conn EXCEPT ![new_conn_] = "deleted"] /\ queue' = Done(s)
      /\ UNCHANGED <<run, home, listening, pending, set_, service, destroyed,
                     limit, clients, backlog, errors>>
  BY DEF HandleAcceptError, DeleteNewConn, Ended, poolVars, runVars, countVars
<1>2. ~destroyed /\ AcceptInv /\ CountInv /\ run # "none" /\ ServerTypes /\ SetInv
  BY <1>1, HandlerRuns DEF ServerInv
<1>3. /\ new_conn_ \in Connection /\ conn[new_conn_] = "new" /\ pending = NoConn
      /\ listening => errors > 0
      /\ Done(s) \in [Service -> Seq(Handler)]
      /\ \A t \in Service : NoAccept(Done(s)[t])
  BY <1>1, <1>2, AcceptHandler
<1>4. conn \in [Connection -> State] /\ home \in Service /\ errors \in Nat
  BY <1>2 DEF ServerTypes
<1>5. /\ conn' \in [Connection -> State]
      /\ conn'[new_conn_] = "deleted"
      /\ \A c \in Connection \ {new_conn_} : conn'[c] = conn[c]
  BY <1>1, <1>3, <1>4 DEF State
<1>6. ServerTypes'
  BY <1>1, <1>2, <1>3, <1>5 DEF ServerTypes
<1>7. SetInv'
  BY <1>1, <1>2, <1>3, <1>5 DEF SetInv
<1>8. AcceptInv'
  <2>1. listening' => errors' # 0
    BY <1>1, <1>3, <1>4
  <2> QED
    BY <1>1, <1>3, <1>4, <2>1 DEF AcceptInv
<1>9. CountInv'
  <2>1. Used' = Used /\ ~Accepted' /\ ~Accepted
    BY <1>1, <1>3, <1>5 DEF Used, Accepted
  <2> QED
    BY <1>1, <1>2, <2>1 DEF CountInv
<1> QED
  BY <1>1, <1>2, <1>6, <1>7, <1>8, <1>9 DEF ServerInv

\* stop_impl closes the acceptor, which makes an accept in progress fail.
LEMMA ServerStopImpl ==
  ASSUME QuietInv, ServerInv, StopImpl
  PROVE  ServerInv'
<1>1. /\ NextHandler(0, "stop_impl") /\ listening' = FALSE /\ pending' = NoConn
      /\ queue' = IF pending = NoConn THEN Done(0)
                  ELSE [Done(0) EXCEPT ![home] = Append(@, "failed")]
      /\ UNCHANGED <<run, home, new_conn_, conn, set_, service, destroyed,
                     limit, clients, backlog, errors>>
  BY DEF StopImpl, CloseAcceptor, runVars, connVars, countVars
<1>2. ~destroyed /\ AcceptInv /\ CountInv /\ run # "none" /\ ServerTypes /\ SetInv
  BY <1>1, SizePositive, HandlerRuns DEF ServerInv
<1>3. queue \in [Service -> Seq(Handler)] /\ home \in Service
  BY <1>2 DEF ServerTypes
<1>4. /\ Tail(queue[0]) \in Seq(Handler)
      /\ NoAccept(queue[0]) => NoAccept(Tail(queue[0]))
      /\ \A h \in {"accepted", "failed"} :
           OneAccept(queue[0], h) => OneAccept(Tail(queue[0]), h)
  <2>1. queue[0] \in Seq(Handler) /\ queue[0] # << >> /\ Head(queue[0]) = "stop_impl"
    BY <1>1, <1>3, SizePositive DEF NextHandler
  <2> QED
    BY <2>1, QueueTail DEF Handler
<1> DEFINE done == Done(0)
<1>5. /\ done \in [Service -> Seq(Handler)]
      /\ \A s \in Service : NoAccept(queue[s]) => NoAccept(done[s])
      /\ \A s \in Service : \A h \in {"accepted", "failed"} :
           OneAccept(queue[s], h) => OneAccept(done[s], h)
  <2>1. /\ done \in [Service -> Seq(Handler)]
        /\ \A s \in Service : done[s] = IF s = 0 THEN Tail(queue[0]) ELSE queue[s]
    BY <1>3, <1>4, SizePositive DEF Done
  <2> HIDE DEF done
  <2> QED
    BY <1>4, <2>1
<1> HIDE DEF done
<1>6. CountInv' /\ SetInv'
  BY <1>1, <1>2 DEF CountInv, Used, Accepted, SetInv
<1>7. CASE pending = NoConn
  <2>1. queue' = done
    BY <1>1, <1>7 DEF done
  <2>2. ServerTypes'
    BY <1>1, <1>2, <1>5, <2>1 DEF ServerTypes
  <2>3. AcceptInv'
    <3>1. \A s \in Service \ {home} : NoAccept(done[s])
      BY <1>2, <1>5 DEF AcceptInv
    <3>2. CASE new_conn_ = NoConn /\ NoAccept(queue[home])
      BY <1>1, <1>3, <1>5, <2>1, <3>1, <3>2 DEF AcceptInv
    <3>3. CASE new_conn_ # NoConn /\ Completed(conn, new_conn_, queue[home])
      <4>1. Completed(conn, new_conn_, queue[home])'
        BY <1>1, <1>3, <1>5, <2>1, <3>3 DEF Completed
      <4> QED
        BY <1>1, <2>1, <3>1, <3>3, <4>1 DEF AcceptInv
    <3>4. ~(new_conn_ # NoConn /\ InProgress(conn, new_conn_, queue[home]))
      BY <1>7 DEF InProgress
    <3> QED
      BY <1>2, <3>2, <3>3, <3>4 DEF AcceptInv
  <2> QED
    BY <1>1, <1>2, <1>6, <2>2, <2>3 DEF ServerInv
<1>8. CASE pending # NoConn
  <2>1. queue' = [done EXCEPT ![home] = Append(@, "failed")]
    BY <1>1, <1>8 DEF done
  <2>2. new_conn_ # NoConn /\ conn[new_conn_] = "new" /\ NoAccept(queue[home])
    BY <1>2, <1>8 DEF AcceptInv, InProgress, Completed
  <2>3. /\ Append(done[home], "failed") \in Seq(Handler)
        /\ OneAccept(Append(done[home], "failed"), "failed")
    <3>1. done[home] \in Seq(Handler) /\ NoAccept(done[home]) /\ "failed" \in Handler
      BY <1>3, <1>5, <2>2 DEF Handler
    <3> QED
      BY <3>1, QueueAppend
  <2>4. /\ queue' \in [Service -> Seq(Handler)]
        /\ OneAccept(queue'[home], "failed")
        /\ \A s \in Service \ {home} : queue'[s] = done[s]
    BY <1>3, <1>5, <2>1, <2>3
  <2>5. ServerTypes'
    BY <1>1, <1>2, <2>4 DEF ServerTypes
  <2>6. AcceptInv'
    <3>1. \A s \in Service \ {home} : NoAccept(queue'[s])
      BY <1>2, <1>5, <2>4 DEF AcceptInv
    <3>2. Completed(conn, new_conn_, queue[home])'
      BY <1>1, <2>2, <2>4 DEF Completed
    <3> QED
      BY <1>1, <2>2, <3>1, <3>2 DEF AcceptInv
  <2> QED
    BY <1>1, <1>2, <1>6, <2>5, <2>6 DEF ServerInv
<1> QED
  BY <1>7, <1>8

\* The accept in progress is done.
LEMMA ServerCompletes ==
  ASSUME ServerInv, Server(Connects) \/ Server(AcceptError)
  PROVE  ServerInv'
<1>1. /\ pending # NoConn /\ pending' = NoConn
      /\ UNCHANGED <<run, new_conn_, home, listening, set_, service, destroyed, limit, clients>>
      /\ \/ /\ queue' = [queue EXCEPT ![home] = Append(@, "accepted")]
            /\ conn' = [conn EXCEPT ![pending] = "connected"]
            /\ backlog > 0 /\ backlog' = backlog - 1 /\ errors' = errors
         \/ /\ queue' = [queue EXCEPT ![home] = Append(@, "failed")]
            /\ errors' = errors + 1 /\ UNCHANGED <<conn, backlog>>
  BY DEF Server, Connects, AcceptError, Completes, Post, poolVars, runVars, connVars
<1>2. ~destroyed /\ AcceptInv /\ CountInv /\ ServerTypes /\ SetInv
  BY <1>1 DEF ServerInv, DestroyedInv
<1>3. /\ new_conn_ # NoConn /\ new_conn_ = pending /\ conn[new_conn_] = "new" /\ listening
      /\ NoAccept(queue[home]) /\ \A s \in Service : NoAccept(queue[s])
      /\ new_conn_ \in Connection
  BY <1>1, <1>2 DEF AcceptInv, InProgress, Completed, ServerTypes
<1>4. /\ conn \in [Connection -> State] /\ home \in Service /\ errors \in Nat
      /\ backlog \in Nat /\ clients \in Nat /\ queue \in [Service -> Seq(Handler)]
  BY <1>2 DEF ServerTypes
<1>5. \A g \in {"accepted", "failed"} :
        /\ Append(queue[home], g) \in Seq(Handler)
        /\ OneAccept(Append(queue[home], g), g)
  BY <1>3, <1>4, QueueAppend DEF Handler
<1>6. run # "none"
  BY <1>2, <1>3 DEF CountInv
<1>7. ASSUME NEW g \in {"accepted", "failed"},
             queue' = [queue EXCEPT ![home] = Append(@, g)]
      PROVE  /\ queue' \in [Service -> Seq(Handler)]
             /\ OneAccept(queue'[home], g)
             /\ \A s \in Service \ {home} : NoAccept(queue'[s])
  BY <1>3, <1>4, <1>5, <1>7
<1>8. CASE /\ queue' = [queue EXCEPT ![home] = Append(@, "accepted")]
           /\ conn' = [conn EXCEPT ![pending] = "connected"]
           /\ backlog > 0 /\ backlog' = backlog - 1 /\ errors' = errors
  <2>1. /\ queue' \in [Service -> Seq(Handler)]
        /\ OneAccept(queue'[home], "accepted")
        /\ \A s \in Service \ {home} : NoAccept(queue'[s])
    BY <1>7, <1>8
  <2>2. /\ conn' \in [Connection -> State] /\ conn'[new_conn_] = "connected"
        /\ \A c \in Connection \ {new_conn_} : conn'[c] = conn[c]
    BY <1>3, <1>4, <1>8 DEF State
  <2>3. ServerTypes'
    BY <1>1, <1>2, <1>4, <1>8, <2>1, <2>2 DEF ServerTypes
  <2>4. SetInv'
    BY <1>1, <1>2, <1>3, <2>2 DEF SetInv
  <2>5. AcceptInv'
    BY <1>1, <1>3, <2>1, <2>2 DEF AcceptInv, Completed
  <2>6. CountInv'
    <3>1. Used' = Used /\ ~Accepted
      BY <1>3, <2>2 DEF Used, Accepted
    <3>2. Cardinality(Used) + backlog <= clients + 1
      BY <1>2, <1>4, <3>1, UsedFinite DEF CountInv
    <3>3. Cardinality(Used) + (backlog - 1) + 1 <= clients + 1
      BY <1>4, <3>2, UsedFinite
    <3>4. Cardinality(Used') + backlog' + (IF Accepted' THEN 1 ELSE 0) <= clients' + 1
      BY <1>1, <1>4, <1>8, <3>1, <3>2, <3>3, UsedFinite
    <3> QED
      BY <1>1, <1>6, <3>4 DEF CountInv
  <2> QED
    BY <1>1, <1>2, <2>3, <2>4, <2>5, <2>6 DEF ServerInv
<1>9. CASE /\ queue' = [queue EXCEPT ![home] = Append(@, "failed")]
           /\ errors' = errors + 1 /\ UNCHANGED <<conn, backlog>>
  <2>1. /\ queue' \in [Service -> Seq(Handler)]
        /\ OneAccept(queue'[home], "failed")
        /\ \A s \in Service \ {home} : NoAccept(queue'[s])
    BY <1>7, <1>9
  <2>2. errors' \in Nat /\ errors' > 0
    BY <1>4, <1>9
  <2>3. ServerTypes' /\ SetInv'
    BY <1>1, <1>2, <1>9, <2>1, <2>2 DEF ServerTypes, SetInv
  <2>4. AcceptInv'
    BY <1>1, <1>3, <1>9, <2>1, <2>2 DEF AcceptInv, Completed
  <2>5. CountInv'
    BY <1>1, <1>2, <1>9 DEF CountInv, Used, Accepted
  <2> QED
    BY <1>1, <1>2, <2>3, <2>4, <2>5 DEF ServerInv
<1> QED
  BY <1>1, <1>8, <1>9

LEMMA ServerDestroy == ASSUME ServerInv, Destroy PROVE ServerInv'
<1>1. /\ run = "returned" /\ ~destroyed /\ destroyed' = TRUE /\ listening' = FALSE
      /\ pending' = NoConn /\ new_conn_' = NoConn
      /\ UNCHANGED conn \/ (new_conn_ # NoConn /\ conn' = [conn EXCEPT ![new_conn_] = "deleted"])
      /\ UNCHANGED <<run, home, set_, service, queue, limit, clients, backlog, errors>>
  BY DEF Destroy, DeleteNewConn, Ended, poolVars, runVars, countVars
<1>2. AcceptInv /\ ServerTypes /\ SetInv
  BY <1>1 DEF ServerInv
<1>3. new_conn_ # NoConn =>
        new_conn_ \in Connection /\ conn[new_conn_] \in {"new", "connected"}
  BY <1>2 DEF AcceptInv, InProgress, Completed, ServerTypes
<1>4. conn' \in [Connection -> State]
  BY <1>1, <1>2 DEF ServerTypes, State
<1>5. ServerTypes'
  BY <1>1, <1>2, <1>4 DEF ServerTypes
<1>6. SetInv'
  <2>1. \A c \in Connection : conn'[c] \in {"reading", "serving"} <=> conn[c] \in {"reading", "serving"}
    BY <1>1, <1>2, <1>3 DEF ServerTypes
  <2> QED
    BY <1>1, <1>2, <2>1 DEF SetInv
<1> QED
  BY <1>1, <1>5, <1>6 DEF ServerInv, DestroyedInv

LEMMA ServerConnect == ASSUME ServerInv, ClientConnect PROVE ServerInv'
<1>1. /\ listening /\ clients < limit.clients
      /\ clients' = clients + 1 /\ backlog' = backlog + 1
      /\ UNCHANGED <<run, new_conn_, home, listening, pending, set_, conn, service, queue,
                     destroyed, limit, errors>>
  BY DEF ClientConnect, poolVars, runVars, acceptVars, connVars
<1>2. ~destroyed /\ AcceptInv /\ CountInv /\ ServerTypes /\ SetInv
  BY <1>1 DEF ServerInv, DestroyedInv
<1>3. limit.clients \in Nat /\ clients \in Nat /\ backlog \in Nat
  BY <1>2, ConnectionAssumption DEF ServerTypes
<1>4. ServerTypes' /\ SetInv'
  BY <1>1, <1>2, <1>3 DEF ServerTypes, SetInv
<1>5. AcceptInv'
  BY <1>1, <1>2 DEF AcceptInv, InProgress, Completed
<1>6. CountInv'
  <2>1. Used' = Used /\ Accepted' = Accepted
    BY <1>1 DEF Used, Accepted
  <2> DEFINE a == IF Accepted THEN 1 ELSE 0
  <2>2. Cardinality(Used) + backlog + a <= clients + 1 /\ run # "none" /\ a \in Nat
    BY <1>1, <1>2 DEF CountInv
  <2>3. (IF Accepted' THEN 1 ELSE 0) = a
    BY <2>1
  <2> HIDE DEF a
  <2>4. Cardinality(Used) + (backlog + 1) + a <= (clients + 1) + 1
    BY <1>3, <2>2, UsedFinite
  <2> QED
    BY <1>1, <2>1, <2>2, <2>3, <2>4 DEF CountInv
<1> QED
  BY <1>1, <1>2, <1>4, <1>5, <1>6 DEF ServerInv

LEMMA ServiceZero == ServiceAt(0) \in Service
BY SizePositive DEF ServiceAt

\* Calls begin and end, and stop the server.
LEMMA ServerCalls ==
  ASSUME ServerInv, NEW c \in Connection,
         Begin(c) \/ CallsStop(c) \/ End(c) \/ Server(Hangup(c)), call[c].at # "none" => conn[c] = "serving"
  PROVE  ServerInv'
<1>1. CASE Begin(c)
  <2>1. /\ conn[c] = "reading" /\ conn' = [conn EXCEPT ![c] = "serving"]
        /\ UNCHANGED <<run, acceptVars, set_, service, queue, destroyed, countVars>>
    BY <1>1 DEF Begin, Frame, poolVars, runVars
  <2> QED
    BY <2>1, ServerConn
<1>2. CASE CallsStop(c)
  <2>1. UNCHANGED <<run, acceptVars, connVars, destroyed, limit, clients, backlog, errors>>
    BY <1>2 DEF CallsStop, poolVars, runVars, countVars
  <2>2. CASE Post(ServiceAt(0), "stop_impl")
    BY <2>1, <2>2, ServiceZero, ServerPost
  <2>3. CASE UNCHANGED queue
    <3>1. UNCHANGED serverVars /\ UNCHANGED run
      BY <1>2, <2>3 DEF CallsStop, serverVars, poolVars, runVars
    <3> QED
      BY <3>1, ServerSame
  <2> QED
    BY <1>2, <2>2, <2>3 DEF CallsStop, PostStop
<1>3. CASE Reply(c)
  <2>1. /\ conn[c] = "serving" /\ conn' = [conn EXCEPT ![c] = "reading"]
        /\ UNCHANGED <<run, acceptVars, set_, service, queue, destroyed, countVars>>
    BY <1>3 DEF Reply, poolVars, runVars
  <2> QED
    BY <2>1, ServerConn
<1>4. CASE OnClose(c) /\ conn[c] \in {"reading", "serving"}
  <2>1. /\ conn' = [conn EXCEPT ![c] = "deleted"] /\ set_' = set_ \ {c}
        /\ UNCHANGED <<run, acceptVars, service, queue, destroyed, countVars>>
    BY <1>4 DEF OnClose, Del, Ended, poolVars, runVars
  <2> QED
    BY <1>4, <2>1, ServerConn
<1>5. End(c) => conn[c] = "serving" /\ (Reply(c) \/ OnClose(c))
  BY DEF End, EndCall
<1>6. Server(Hangup(c)) => conn[c] = "reading" /\ OnClose(c)
  BY DEF Server, Hangup
<1> QED
  BY <1>1, <1>2, <1>3, <1>4, <1>5, <1>6

-------------------------------------------------------------------------------
(* The calls of the connections. *)

Place == {"none", "function", "status", "check", "stop", "reset", "count", "done", "thrown"}

CallTypes == call \in [Connection -> [at : Place, fname : Function]]

\* A connection executes a call while it serves.
ServesInv == \A c \in Connection : call[c].at # "none" <=> conn[c] = "serving"

CallInv == CallTypes /\ ServesInv

\* Only Begin and End change whether a call is executed.
LEMMA CallGoesOn ==
  ASSUME CallInv, NEW c \in Connection, call[c].at # "none", NEW where \in Place \ {"none"},
         Goto(c, where), UNCHANGED conn
  PROVE  CallInv'
<1>1. call' \in [Connection -> [at : Place, fname : Function]]
  BY DEF CallInv, CallTypes, Goto
<1>2. call'[c].at = where /\ \A d \in Connection \ {c} : call'[d] = call[d]
  BY DEF CallInv, CallTypes, Goto
<1> QED
  BY <1>1, <1>2 DEF CallInv, CallTypes, ServesInv

LEMMA CallSame ==
  ASSUME CallInv, UNCHANGED call,
         \A c \in Connection : conn'[c] = "serving" <=> conn[c] = "serving"
  PROVE  CallInv'
BY DEF CallInv, CallTypes, ServesInv

\* A connection with an accept does not serve.
LEMMA CallAccept ==
  ASSUME CallInv, ServerTypes, UNCHANGED call,
         NEW c, c # NoConn => conn[c] \in {"new", "connected"}, NEW state \in State \ {"serving"},
         c \in Connection \union {NoConn}, conn' = [conn EXCEPT ![c] = state]
  PROVE  CallInv'
<1>1. \A d \in Connection : conn'[d] = "serving" <=> conn[d] = "serving"
  BY ConnectionAssumption DEF ServerTypes
<1> QED
  BY <1>1, CallSame

\* There is a fresh connection, which does not serve either.
LEMMA CallAccepts ==
  ASSUME CallInv, ServerTypes, UNCHANGED call, Cardinality(Used) <= clients,
         NEW started \in [Connection -> State],
         \A c \in Connection : started[c] = "serving" <=> conn[c] = "serving",
         conn' = [started EXCEPT ![Fresh] = "new"]
  PROVE  CallInv'
<1>1. Fresh \in Connection /\ conn[Fresh] = "none"
  BY FreshIs
<1>2. \A d \in Connection : conn'[d] = "serving" <=> conn[d] = "serving"
  <2> DEFINE f == Fresh
  <2>1. f \in Connection /\ conn[f] = "none" /\ conn' = [started EXCEPT ![f] = "new"]
    BY <1>1
  <2> HIDE DEF f
  <2> QED
    BY <2>1
<1> QED
  BY <1>2, CallSame

\* No more connections are used than clients have connected before an accept begins.
LEMMA UsedFew ==
  ASSUME ServerTypes, CountInv, run = "none" \/ Accepted
  PROVE  Cardinality(Used) <= clients
<1>1. clients \in Nat /\ backlog \in Nat
  BY DEF ServerTypes
<1>2. CASE run = "none"
  BY <1>1, <1>2, FS_EmptySet DEF CountInv
<1>3. CASE Accepted
  <2>1. Cardinality(Used) + backlog + 1 <= clients + 1
    BY <1>3 DEF CountInv
  <2> QED
    BY <1>1, <2>1, UsedFinite
<1> QED
  BY <1>2, <1>3

\* What a thread does inside a call.
LEMMA CallInside ==
  ASSUME CallInv, NEW c \in Connection, UNCHANGED conn,
         \/ CallFunction(c) \/ SetStopped(c) \/ CheckServer(c) \/ CallStop(c)
         \/ ResetServer(c) \/ Count(c) \/ Throws(c)
  PROVE  CallInv'
<1>1. call[c].at # "none"
  BY DEF CallFunction, SetStopped, CheckServer, CallStop, ResetServer, Count, Throws
<1>2. \E where \in Place \ {"none"} : Goto(c, where)
  BY DEF CallFunction, SetStopped, CheckServer, CallStop, ResetServer, Count, Throws, Leave,
         Place
<1> QED
  BY <1>1, <1>2, CallGoesOn

\* The handlers of a service.
LEMMA CallHandlers ==
  ASSUME CallInv, QuietInv, ServerInv, NEW s \in Service, HandlerStep(s)
  PROVE  CallInv'
<1>0. UNCHANGED call
  BY DEF HandlerStep, Server, baseVars
<1>1. CASE HandleAccept(s)
  <2> DEFINE started == [conn EXCEPT ![new_conn_] = "reading"]
  <2>1. NextHandler(s, "accepted") /\ conn' = [started EXCEPT ![Fresh] = "new"]
    BY <1>1 DEF HandleAccept, AsyncAccept
  <2>2. ServerTypes /\ AcceptInv /\ CountInv
    BY <2>1, HandlerRuns DEF ServerInv
  <2>3. new_conn_ \in Connection /\ conn[new_conn_] = "connected"
    BY <2>1, <2>2, AcceptHandler
  <2>4. Cardinality(Used) <= clients
    BY <2>2, <2>3, UsedFew, ConnectionAssumption DEF Accepted
  <2>5. /\ started \in [Connection -> State]
        /\ \A c \in Connection : started[c] = "serving" <=> conn[c] = "serving"
    BY <2>2, <2>3 DEF ServerTypes, State
  <2> HIDE DEF started
  <2> QED
    BY <1>0, <2>1, <2>2, <2>4, <2>5, CallAccepts
<1>2. CASE HandleAcceptError(s)
  <2>1. NextHandler(s, "failed") /\ conn' = [conn EXCEPT ![new_conn_] = "deleted"]
    BY <1>2 DEF HandleAcceptError, DeleteNewConn, Ended
  <2>2. ServerTypes /\ AcceptInv
    BY <2>1, HandlerRuns DEF ServerInv
  <2>3. new_conn_ \in Connection /\ conn[new_conn_] = "new"
    BY <2>1, <2>2, AcceptHandler
  <2> QED
    BY <1>0, <2>1, <2>2, <2>3, CallAccept DEF State
<1>3. CASE StopImpl \/ ThreadExit(s)
  BY <1>0, <1>3, CallSame DEF StopImpl, ThreadExit, connVars, serverVars
<1> QED
  BY <1>1, <1>2, <1>3 DEF HandlerStep, Server

\* A call begins, goes on and ends.
LEMMA CallCalls ==
  ASSUME CallInv, ServerInv, NEW c \in Connection,
         Begin(c) \/ CallStep(c) \/ Base(Throws(c)) \/ Server(Hangup(c))
  PROVE  CallInv'
<1>0. /\ conn \in [Connection -> State]
      /\ call \in [Connection -> [at : Place, fname : Function]]
  BY DEF ServerInv, ServerTypes, CallInv, CallTypes
<1>1. CASE Begin(c)
  <2>1. PICK f \in Function : BeginCall(c, f)
    BY <1>1 DEF Begin
  <2>2. \E where \in Place \ {"none"} : call' = [call EXCEPT ![c] = [at |-> where, fname |-> f]]
    <3> DEFINE where == IF f = "echo" THEN "function"
                        ELSE IF async_rpc THEN "check" ELSE "status"
    <3>1. where \in Place \ {"none"}
      BY DEF Place
    <3>2. call' = [call EXCEPT ![c] = [at |-> where, fname |-> f]]
      BY <2>1 DEF BeginCall
    <3> HIDE DEF where
    <3> QED
      BY <3>1, <3>2
  <2>3. conn' = [conn EXCEPT ![c] = "serving"]
    BY <1>1 DEF Begin, Frame
  <2>4. /\ call' \in [Connection -> [at : Place, fname : Function]]
        /\ call'[c].at # "none" /\ \A d \in Connection \ {c} : call'[d] = call[d]
    BY <1>0, <2>2
  <2> QED
    BY <1>0, <2>3, <2>4 DEF CallInv, CallTypes, ServesInv
<1>2. CASE End(c)
  <2>1. call' = [call EXCEPT ![c] = NoCall]
    BY <1>2 DEF End, EndCall
  <2>2. \E state \in {"reading", "deleted"} : conn' = [conn EXCEPT ![c] = state]
    BY <1>2 DEF End, Reply, OnClose, Ended
  <2>3. NoCall \in [at : Place, fname : Function] /\ NoCall.at = "none"
    BY DEF NoCall, Place, Function
  <2>4. /\ call' \in [Connection -> [at : Place, fname : Function]]
        /\ call'[c].at = "none" /\ \A d \in Connection \ {c} : call'[d] = call[d]
    BY <1>0, <2>1, <2>3
  <2> QED
    BY <1>0, <2>2, <2>4 DEF CallInv, CallTypes, ServesInv
<1>3. CASE Server(Hangup(c))
  <2>1. conn[c] = "reading" /\ conn' = [conn EXCEPT ![c] = "deleted"] /\ UNCHANGED call
    BY <1>3 DEF Server, Hangup, OnClose, Ended, baseVars
  <2> QED
    BY <1>0, <2>1, CallSame
<1>4. CASE CallsStop(c)
  BY <1>4, CallInside DEF CallsStop, connVars
<1>5. CASE Base(Throws(c)) \/ (CallStep(c) /\ ~CallsStop(c) /\ ~End(c))
  <2>1. UNCHANGED conn
    BY <1>5 DEF CallStep, Base, serverVars, connVars
  <2> QED
    BY <1>5, <2>1, CallInside DEF CallStep, Base
<1> QED
  BY <1>1, <1>2, <1>3, <1>4, <1>5

LEMMA CallInvStep == CallInv /\ QuietInv /\ ServerInv /\ [Next]_vars => CallInv'
<1> SUFFICES ASSUME CallInv, QuietInv, ServerInv, [Next]_vars PROVE CallInv'
  OBVIOUS
<1>1. CASE Server(Serve)
  <2>1. /\ run = "none" /\ ~destroyed /\ UNCHANGED call
        /\ conn' = [conn EXCEPT ![Fresh] = "new"]
    BY <1>1 DEF Server, Serve, RunBegin, AsyncAccept, baseVars
  <2>2. ServerTypes /\ CountInv
    BY <2>1 DEF ServerInv
  <2>3. Cardinality(Used) <= clients /\ conn \in [Connection -> State]
    BY <2>1, <2>2, UsedFew DEF ServerTypes
  <2> QED
    BY <2>1, <2>2, <2>3, CallAccepts
<1>2. ASSUME NEW s \in Service, HandlerStep(s) PROVE CallInv'
  BY <1>2, CallHandlers
<1>3. CASE Server(Connects)
  <2>1. /\ pending # NoConn /\ UNCHANGED call /\ conn' = [conn EXCEPT ![pending] = "connected"]
    BY <1>3 DEF Server, Connects, Completes, baseVars
  <2>2. ServerTypes /\ pending \in Connection /\ conn[pending] = "new"
    BY <2>1 DEF ServerInv, DestroyedInv, AcceptInv, InProgress, Completed, ServerTypes
  <2> QED
    BY <2>1, <2>2, CallAccept DEF State
<1>4. ASSUME NEW c \in Connection,
             Begin(c) \/ CallStep(c) \/ Base(Throws(c)) \/ Server(Hangup(c))
      PROVE  CallInv'
  BY <1>4, CallCalls
<1>5. CASE Destroy /\ DestroyBase
  <2>1. /\ UNCHANGED call /\ ~destroyed
        /\ UNCHANGED conn \/ (new_conn_ # NoConn /\ conn' = [conn EXCEPT ![new_conn_] = "deleted"])
    BY <1>5 DEF Destroy, DeleteNewConn, Ended, DestroyBase
  <2>2. /\ ServerTypes
        /\ new_conn_ # NoConn => conn[new_conn_] \in {"new", "connected"}
    BY <2>1 DEF ServerInv, AcceptInv, InProgress, Completed
  <2>3. new_conn_ \in Connection \union {NoConn}
    BY <2>2 DEF ServerTypes
  <2> QED
    BY <2>1, <2>2, <2>3, CallAccept, CallSame DEF State
<1>6. ASSUME \/ Server(ServeThrows) \/ RunStep \/ Server(AcceptError) \/ Server(ClientConnect)
             \/ Server(Stop) \/ Server(UserStop) \/ \E t \in Stopper : StopStep(t)
             \/ Pool(GetIndex) \/ GetStep \/ Base(SetUpdate) \/ UNCHANGED vars
      PROVE  CallInv'
  <2>1. UNCHANGED <<call, conn>>
    BY <1>6
       DEF Server, ServeThrows, RunStep, AcceptError, ClientConnect, Stop, UserStop, StopStep,
           Pool, GetStep, Base, SetUpdate, vars, baseVars, serverVars, connVars
  <2> QED
    BY <2>1, CallSame
<1> QED
  BY <1>1, <1>2, <1>3, <1>4, <1>5, <1>6 DEF Next

LEMMA ServerStep ==
  ServerInv /\ CallInv /\ QuietInv /\ PoolTypeOK /\ [Next]_vars => ServerInv'
<1> SUFFICES ASSUME ServerInv, CallInv, QuietInv, PoolTypeOK, [Next]_vars PROVE ServerInv'
  OBVIOUS
<1>1. CASE Server(Serve)
  BY <1>1, ServerServe DEF Server
<1>2. ASSUME NEW s \in Service, HandlerStep(s) PROVE ServerInv'
  <2>1. CASE HandleAccept(s)
    BY <2>1, ServerHandleAccept
  <2>2. CASE HandleAcceptError(s)
    BY <2>2, ServerHandleError
  <2>3. CASE StopImpl
    BY <2>3, ServerStopImpl
  <2>4. CASE ThreadExit(s)
    BY <2>4, ServerSame DEF ThreadExit, ThreadEnds
  <2> QED
    BY <1>2, <2>1, <2>2, <2>3, <2>4 DEF HandlerStep, Server
<1>3. CASE Server(Connects) \/ Server(AcceptError)
  BY <1>3, ServerCompletes
<1>4. CASE Server(ClientConnect)
  BY <1>4, ServerConnect DEF Server
<1>5. CASE Server(Stop)
  <2>1. Post(ServiceAt(0), "stop_impl")
    BY <1>5 DEF Server, Stop, PostStop
  <2>2. UNCHANGED <<run, acceptVars, connVars, destroyed, limit, clients, backlog, errors>>
    BY <1>5 DEF Server, Stop, poolVars, runVars
  <2> QED
    BY <2>1, <2>2, ServiceZero, ServerPost
<1>6. CASE Server(UserStop)
  <2>1. UNCHANGED <<new_conn_, home, listening, pending, set_, conn, service, queue, destroyed,
                    limit, clients, backlog, errors, run>>
    BY <1>6 DEF Server, UserStop, runVars, acceptVars, connVars
  <2>2. ServerTypes' /\ SetInv'
    BY <2>1 DEF ServerInv, ServerTypes, SetInv
  <2>3. DestroyedInv => DestroyedInv'
    BY <2>1 DEF DestroyedInv
  <2>4. AcceptInv => AcceptInv'
    BY <2>1 DEF AcceptInv, InProgress, Completed
  <2>5. CountInv => CountInv'
    BY <2>1 DEF CountInv, Used, Accepted
  <2> QED
    BY <2>1, <2>2, <2>3, <2>4, <2>5 DEF ServerInv
<1>7. ASSUME NEW c \in Connection, Begin(c) \/ CallsStop(c) \/ End(c) \/ Server(Hangup(c))
      PROVE  ServerInv'
  <2>1. call[c].at # "none" => conn[c] = "serving"
    BY DEF CallInv, ServesInv
  <2> QED
    BY <1>7, <2>1, ServerCalls
<1>8. CASE Destroy
  BY <1>8, ServerDestroy
<1>9. CASE RunStep
  <2>1. UNCHANGED serverVars /\ run \notin {"none", "returned"} /\ run' # "none"
    BY <1>9 DEF RunStep, Pool, RunWork, RunReset, RunCreate, RunReturn, AllJoined
  <2> QED
    BY <2>1, ServerSame
<1>10. CASE Server(ServeThrows)
  <2>1. UNCHANGED serverVars /\ run = "none" /\ run' = "returned"
    BY <1>10 DEF Server, ServeThrows
  <2> QED
    BY <2>1, ServerSame
<1>11. CASE (\E t \in Stopper : StopStep(t)) \/ Pool(GetIndex) \/ GetStep
  <2>1. UNCHANGED serverVars /\ UNCHANGED run
    BY <1>11 DEF StopStep, PoolStop, Pool, GetStep, GetIndex, GetIncrement, GetWrap, runVars
  <2> QED
    BY <2>1, ServerSame
<1>12. ASSUME NEW c \in Connection, (CallStep(c) /\ ~CallsStop(c) /\ ~End(c)) \/ Base(Throws(c))
       PROVE  ServerInv'
  BY <1>12, ServerSame DEF CallStep, Base, poolVars, runVars
<1>13. CASE Base(SetUpdate) \/ UNCHANGED vars
  BY <1>13, ServerSame DEF Base, vars, poolVars, runVars
<1>14. ASSUME NEW c \in Connection, CallStep(c) PROVE ServerInv'
  BY <1>7, <1>12, <1>14
<1> QED
  BY <1>1, <1>2, <1>3, <1>4, <1>5, <1>6, <1>7, <1>8, <1>9, <1>10, <1>11, <1>12, <1>13, <1>14
     DEF Next

-------------------------------------------------------------------------------
(* The types of what executes the calls. *)

BaseTypes ==
  /\ status_ \in {"ALIVE", "STOPPED", "DEAD"}
  /\ async_rpc \in BOOLEAN /\ server_ \in BOOLEAN /\ crashed \in BOOLEAN
  /\ called \in [Function -> Nat]

GoodWindow(w) == w \in Window /\ \A f \in Function : w.rpc_ok_qps[f] <= w.rpc_qps[f]

WindowTypes == \A w \in {sstatus_rt_, published, served, reported} : GoodWindow(w)

LEMMA GoodPlus ==
  ASSUME NEW v, NEW w, GoodWindow(v), GoodWindow(w)
  PROVE  GoodWindow(Plus(v, w))
<1>1. v \in Window /\ w \in Window
  BY DEF GoodWindow
<1>2. /\ Plus(v, w) \in Window
      /\ \A f \in Function : /\ Plus(v, w).rpc_qps[f] = v.rpc_qps[f] + w.rpc_qps[f]
                             /\ Plus(v, w).rpc_ok_qps[f] = v.rpc_ok_qps[f] + w.rpc_ok_qps[f]
  BY <1>1, PlusCounts
<1>3. ASSUME NEW f \in Function
      PROVE  Plus(v, w).rpc_ok_qps[f] <= Plus(v, w).rpc_qps[f]
  <2>1. /\ v.rpc_qps[f] \in Nat /\ v.rpc_ok_qps[f] \in Nat /\ v.rpc_ok_qps[f] <= v.rpc_qps[f]
        /\ w.rpc_qps[f] \in Nat /\ w.rpc_ok_qps[f] \in Nat /\ w.rpc_ok_qps[f] <= w.rpc_qps[f]
    BY <1>1 DEF GoodWindow, Window
  <2> QED
    BY <1>2, <2>1
<1> QED
  BY <1>2, <1>3 DEF GoodWindow

LEMMA GoodCounted ==
  ASSUME NEW w, GoodWindow(w), NEW f \in Function, NEW ok \in BOOLEAN
  PROVE  GoodWindow(Counted(w, f, ok))
<1>1. w \in Window
  BY DEF GoodWindow
<1>2. /\ Counted(w, f, ok) \in Window
      /\ \A g \in Function :
           /\ Counted(w, f, ok).rpc_qps[g] = IF g = f THEN w.rpc_qps[g] + 1 ELSE w.rpc_qps[g]
           /\ Counted(w, f, ok).rpc_ok_qps[g]
                = IF g = f /\ ok THEN w.rpc_ok_qps[g] + 1 ELSE w.rpc_ok_qps[g]
  BY <1>1, CountedCounts
<1>3. ASSUME NEW g \in Function
      PROVE  Counted(w, f, ok).rpc_ok_qps[g] <= Counted(w, f, ok).rpc_qps[g]
  <2>1. w.rpc_qps[g] \in Nat /\ w.rpc_ok_qps[g] \in Nat /\ w.rpc_ok_qps[g] <= w.rpc_qps[g]
    BY <1>1 DEF GoodWindow, Window
  <2> DEFINE all == w.rpc_qps[g]
             good == w.rpc_ok_qps[g]
  <2>2. /\ Counted(w, f, ok).rpc_qps[g] = IF g = f THEN all + 1 ELSE all
        /\ Counted(w, f, ok).rpc_ok_qps[g] = IF g = f /\ ok THEN good + 1 ELSE good
    BY <1>2
  <2>3. all \in Nat /\ good \in Nat /\ good <= all
    BY <2>1
  <2> HIDE DEF all, good
  <2> QED
    BY <2>2, <2>3
<1> QED
  BY <1>2, <1>3 DEF GoodWindow

LEMMA GoodNew == GoodWindow(NewWindow)
<1>1. NewWindow \in Window /\ \A f \in Function : NewWindow.rpc_qps[f] = 0 /\ NewWindow.rpc_ok_qps[f] = 0
  BY DEF NewWindow, Window
<1> QED
  BY <1>1 DEF GoodWindow

LEMMA BaseStep ==
  BaseTypes /\ WindowTypes /\ CallInv /\ [Next]_vars => BaseTypes' /\ WindowTypes'
<1> SUFFICES ASSUME BaseTypes, WindowTypes, CallInv, [Next]_vars
             PROVE  BaseTypes' /\ WindowTypes'
  OBVIOUS
<1>1. ASSUME UNCHANGED baseVars PROVE BaseTypes' /\ WindowTypes'
  BY <1>1 DEF baseVars, shutdownVars, windowVars, BaseTypes, WindowTypes
<1>2. ASSUME NEW c \in Connection, Count(c) PROVE BaseTypes' /\ WindowTypes'
  <2>1. call[c].fname \in Function
    BY DEF CallInv, CallTypes
  <2>2. PICK ok \in BOOLEAN :
          /\ sstatus_rt_' = Counted(sstatus_rt_, call[c].fname, ok)
          /\ served' = Counted(served, call[c].fname, ok)
    BY <1>2 DEF Count
  <2>3. UNCHANGED <<async_rpc, shutdownVars, published, reported, called>>
    BY <1>2 DEF Count
  <2>4. GoodWindow(sstatus_rt_') /\ GoodWindow(served')
    BY <2>1, <2>2, GoodCounted DEF WindowTypes
  <2> QED
    BY <2>3, <2>4 DEF BaseTypes, WindowTypes, shutdownVars
<1>3. CASE SetUpdate
  <2>1. /\ published' = sstatus_rt_ /\ sstatus_rt_' = NewWindow
        /\ reported' = Plus(reported, sstatus_rt_) /\ served' = served
        /\ UNCHANGED <<async_rpc, shutdownVars, called>>
    BY <1>3 DEF SetUpdate, Swap
  <2>2. /\ GoodWindow(sstatus_rt_) /\ GoodWindow(reported) /\ GoodWindow(served)
    BY DEF WindowTypes
  <2>3. GoodWindow(sstatus_rt_') /\ GoodWindow(reported')
    BY <2>1, <2>2, GoodNew, GoodPlus
  <2>4. WindowTypes'
    BY <2>1, <2>2, <2>3 DEF WindowTypes
  <2> QED
    BY <2>1, <2>4 DEF BaseTypes, shutdownVars
<1>4. ASSUME NEW c \in Connection,
             \/ CallFunction(c) \/ SetStopped(c) \/ CheckServer(c) \/ CallStop(c)
             \/ ResetServer(c) \/ Throws(c) \/ EndCall(c)
      PROVE  BaseTypes' /\ WindowTypes'
  <2>1. UNCHANGED windowVars
    BY <1>4 DEF CallFunction, SetStopped, CheckServer, CallStop, ResetServer, Throws, EndCall
  <2>2. /\ status_' \in {status_, "STOPPED"} /\ server_' \in BOOLEAN /\ crashed' \in BOOLEAN
        /\ UNCHANGED <<async_rpc, called>>
    BY <1>4
       DEF CallFunction, SetStopped, CheckServer, CallStop, ResetServer, Throws, EndCall,
           shutdownVars, BaseTypes
  <2> QED
    BY <2>1, <2>2 DEF BaseTypes, WindowTypes, windowVars
<1>5. ASSUME NEW c \in Connection, NEW f \in Function, BeginCall(c, f)
      PROVE  BaseTypes' /\ WindowTypes'
  BY <1>5 DEF BeginCall, BaseTypes, WindowTypes, shutdownVars, windowVars
<1>6. CASE DestroyBase
  BY <1>6 DEF DestroyBase, BaseTypes, WindowTypes, windowVars
<1>7. ASSUME NEW c \in Connection,
             Begin(c) \/ CallStep(c) \/ Base(Throws(c)) \/ Server(Hangup(c))
      PROVE  BaseTypes' /\ WindowTypes'
  <2>1. CASE Begin(c)
    BY <1>5, <2>1 DEF Begin
  <2>2. CASE CallStep(c)
    BY <1>2, <1>4, <2>2 DEF CallStep, Base, CallsStop, End
  <2>3. CASE Base(Throws(c))
    BY <1>4, <2>3 DEF Base
  <2>4. CASE Server(Hangup(c))
    BY <1>1, <2>4 DEF Server
  <2> QED
    BY <1>7, <2>1, <2>2, <2>3, <2>4
<1>8. ASSUME \/ Server(Serve) \/ Server(ServeThrows) \/ RunStep
             \/ \E s \in Service : HandlerStep(s)
             \/ Server(Connects) \/ Server(AcceptError) \/ Server(ClientConnect)
             \/ Server(Stop) \/ Server(UserStop) \/ \E t \in Stopper : StopStep(t)
             \/ Pool(GetIndex) \/ GetStep
             \/ UNCHANGED vars
      PROVE  BaseTypes' /\ WindowTypes'
  <2>1. UNCHANGED baseVars
    BY <1>8 DEF Server, Pool, RunStep, HandlerStep, StopStep, GetStep, vars
  <2> QED
    BY <1>1, <2>1
<1>9. ASSUME Base(SetUpdate) \/ (Destroy /\ DestroyBase) PROVE BaseTypes' /\ WindowTypes'
  BY <1>3, <1>6, <1>9 DEF Base
<1> QED
  BY <1>7, <1>8, <1>9 DEF Next

-------------------------------------------------------------------------------
(* The invariant of the process, and its theorems. *)

EchoInv == PoolTypeOK /\ ServerInv /\ CallInv /\ BaseTypes /\ WindowTypes /\ QuietInv

LEMMA EchoInit == Init => EchoInv
<1> SUFFICES ASSUME Init PROVE EchoInv
  OBVIOUS
<1>1. PoolTypeOK
  <2>1. StopIdle \in 0..StopIdle /\ 0 \in 0..Size
    BY SizePositive DEF StopIdle
  <2>2. /\ work_ = {} /\ next_io_service_ = 0 /\ stopped = {} /\ threads = {} /\ run = "none"
        /\ at = 0 /\ stop = [t \in Stopper |-> StopIdle] /\ index = 0 /\ getting = "idle"
        /\ undone = FALSE
    BY DEF Init, PoolInit
  <2> QED
    BY <2>1, <2>2, SizePositive DEF PoolTypeOK
<1>2. ServerInv
  <2>1. /\ new_conn_ = NoConn /\ set_ = {} /\ conn = [c \in Connection |-> "none"]
        /\ service = [c \in Connection |-> 0] /\ home = 0 /\ listening = FALSE
        /\ pending = NoConn /\ queue = [s \in Service |-> << >>] /\ destroyed = FALSE
        /\ limit \in Limits /\ clients = 0 /\ backlog = 0 /\ errors = 0
    BY DEF Init, ServerInit
  <2>2. << >> \in Seq(Handler) /\ NoAccept(<< >>)
    BY EmptySeq DEF NoAccept
  <2>3. ServerTypes
    BY <2>1, <2>2, SizePositive, ConnectionAssumption DEF ServerTypes, State
  <2>4. SetInv
    BY <2>1 DEF SetInv
  <2>5. AcceptInv
    BY <2>1, <2>2, SizePositive DEF AcceptInv
  <2>6. CountInv
    <3>1. Used = {} /\ ~Accepted
      BY <2>1 DEF Used, Accepted
    <3>2. Cardinality(Used) = 0
      BY <3>1, FS_EmptySet
    <3> QED
      BY <2>1, <3>1, <3>2 DEF CountInv
  <2> QED
    BY <2>1, <2>3, <2>4, <2>5, <2>6 DEF ServerInv
<1>3. CallInv
  <2>1. call = [c \in Connection |-> NoCall] /\ conn = [c \in Connection |-> "none"]
    BY ThreadAssumption DEF Init, BaseInit, ServerInit
  <2>2. NoCall \in [at : Place, fname : Function] /\ NoCall.at = "none"
    BY DEF NoCall, Place, Function
  <2> QED
    BY <2>1, <2>2 DEF CallInv, CallTypes, ServesInv
<1>4. BaseTypes /\ WindowTypes
  BY GoodNew DEF Init, BaseInit, HandlerInit, ProcessorInit, BaseTypes, WindowTypes
<1> QED
  BY <1>1, <1>2, <1>3, <1>4, QuietInit DEF EchoInv

LEMMA EchoStep == EchoInv /\ [Next]_vars => EchoInv'
BY PoolStep, ServerStep, CallInvStep, BaseStep, QuietStep DEF EchoInv

LEMMA EchoImplies == EchoInv => TypeOK /\ NoDangling
<1> SUFFICES ASSUME EchoInv PROVE TypeOK /\ NoDangling
  OBVIOUS
<1>1. NoDangling
  BY ServerImplies DEF EchoInv
<1>2. BaseTypeOK
  <2>1. {async_rpc, server_, crashed} \subseteq BOOLEAN /\ called \in [Function -> Nat]
        /\ status_ \in {"ALIVE", "STOPPED", "DEAD"}
    BY DEF EchoInv, BaseTypes
  <2>2. \A w \in {sstatus_rt_, published, served, reported} :
          /\ w \in [rpc_qps : [Function -> Nat], rpc_ok_qps : [Function -> Nat]]
          /\ \A f \in Function : w.rpc_ok_qps[f] <= w.rpc_qps[f]
    BY DEF EchoInv, WindowTypes, GoodWindow, Window
  <2>3. \A c \in Connection : call[c] \in [at : Place, fname : Function]
    BY DEF EchoInv, CallInv, CallTypes
  <2> QED
    BY <2>1, <2>2, <2>3, ThreadAssumption DEF BaseTypeOK, Place
<1>3. \A s \in Service : ToSet(queue[s]) \subseteq {"accepted", "failed", "stop_impl"}
  <2> SUFFICES ASSUME NEW s \in Service PROVE ToSet(queue[s]) \subseteq Handler
    BY DEF Handler
  <2> DEFINE q == queue[s]
  <2>1. q \in Seq(Handler)
    BY DEF EchoInv, ServerInv, ServerTypes
  <2> HIDE DEF q
  <2>2. ToSet(q) \subseteq Handler
    BY <2>1 DEF ToSet
  <2> QED
    BY <2>2 DEF q
<1>4. TypeOK
  BY <1>2, <1>3 DEF EchoInv, ServerInv, ServerTypes, State, CallInv, ServesInv, TypeOK
<1> QED
  BY <1>1, <1>4

\* The types, those of the shared word next_io_service_ included, and that exactly the
\* connections that serve execute a call.
THEOREM EchoTypes == Spec => []TypeOK
BY EchoInit, EchoStep, EchoImplies, PTL DEF Spec

\* new_conn_ and set_ have no dangling pointers.
THEOREM OneAcceptAlive == Spec => []NoDangling
BY EchoInit, EchoStep, EchoImplies, PTL DEF Spec

===============================================================================
