--------------------------- MODULE SyncServerProofs ---------------------------
(***************************************************************************)
(* Theorems about SyncServer for every set of clients, limit, number of    *)
(* workers and bound.                                                      *)
(***************************************************************************)
EXTENDS SyncServer, FiniteSetTheorems, TLAPS

\* serve() has found room for a task, and not yet used it.
Room == {"accept", "submit"}

\* The connection that serve() has just accepted.
Fresh == InState({"accepted"})

\* tasks_ is finite; the connection that serve() has accepted, of which there is
\* one only while it makes its task, is in no task; and room found is there
\* until it is used, because only serve() adds tasks.
LimitInv ==
  /\ IsFiniteSet(tasks)
  /\ \A c, d \in Fresh : c = d
  /\ pc # "submit" => Fresh = {}
  /\ Cardinality(tasks) <= Limit
  /\ pc \in Room => Cardinality(tasks) < Limit

\* Once a connection was accepted late, serve() does not get to accept() again
\* before stop_ is reset.
LateInv ==
  /\ late \in {0, 1}
  /\ stop_ /\ late = 1 => pc \notin {"load", "accept"}

Waiting == InState({"queued"})

\* A connection whose thread runs is in tasks_ until that thread has nothing more
\* to do with the server; one that waits for a worker is in the manager's queue.
TaskInv ==
  /\ kind = "threaded" => Running \subseteq tasks /\ Waiting = {}
  /\ kind = "pool" => Waiting \subseteq tasks

-------------------------------------------------------------------------------
\* startListen() leaves what it changes typed, whether it throws or not.
LEMMA Listens ==
  ASSUME TypeOK, NEW next \in ServePC, StartListen(next) \/ StartListenFails
  PROVE  /\ pc' \in ServePC
         /\ is_listen_' \in BOOLEAN /\ listening' \in BOOLEAN /\ interrupt' \in BOOLEAN
         /\ interrupt' => listening'
         /\ faults' \in 0..Faults
<1>1. CASE StartListen(next) /\ is_listen_
  BY <1>1 DEF StartListen, TypeOK, sockVars
<1>2. CASE StartListen(next) /\ ~is_listen_
  BY <1>2 DEF StartListen, TypeOK, sockVars
<1>3. CASE StartListenFails
  <2>1. faults' \in 0..Faults
    BY <1>3, BoundAssumption DEF StartListenFails, TypeOK
  <2> QED
    BY <1>3, <2>1 DEF StartListenFails, TypeOK, sockVars, ServePC
<1> QED
  BY <1>1, <1>2, <1>3

\* Every variable keeps its type.
THEOREM Typed == Spec => []TypeOK
<1>0. ServeBound \in Nat /\ StopBound \in Nat /\ Faults \in Nat
  BY BoundAssumption
<1>1. Init => TypeOK
  <2> SUFFICES ASSUME Init PROVE TypeOK
    OBVIOUS
  <2>1. kind \in {"threaded", "pool"} /\ pc \in ServePC /\ manager \in {"started", "stopped"}
    BY DEF Init, ServePC
  <2>2. /\ stop_ \in BOOLEAN /\ is_listen_ \in BOOLEAN /\ stopping \in BOOLEAN
        /\ listening \in BOOLEAN /\ interrupt \in BOOLEAN /\ (interrupt => listening)
    BY DEF Init
  <2>3. tasks \subseteq Client /\ conn \in [Client -> ConnState]
    BY DEF Init, ConnState
  <2>4. late \in Nat /\ serves \in 0..ServeBound /\ stops \in 0..StopBound /\ faults \in 0..Faults
    BY <1>0 DEF Init
  <2> QED
    BY <2>1, <2>2, <2>3, <2>4 DEF TypeOK
<1>2. TypeOK /\ [Next]_vars => TypeOK'
  <2> SUFFICES ASSUME TypeOK, [Next]_vars PROVE TypeOK'
    OBVIOUS
  <2> USE <1>0 DEF TypeOK, ServePC, ConnState, sockVars, countVars
  <2>1. CASE Serve
    <3>1. serves' \in 0..ServeBound
      BY <2>1 DEF Serve
    <3> QED
      BY <2>1, <3>1, Listens DEF Serve
  <2>2. CASE Begin
    BY <2>2 DEF Begin, Loop
  <2>3. CASE While
    BY <2>3 DEF While
  <2>4. CASE Overload
    BY <2>4 DEF Overload, StopListen, Refused, Loop
  <2>5. CASE Recover
    BY <2>5, Listens DEF Recover
  <2>6. ASSUME NEW c \in Client, Accept(c) PROVE TypeOK'
    BY <2>6 DEF Accept
  <2>7. CASE AcceptThrows
    BY <2>7 DEF AcceptThrows, Loop
  <2>8. CASE Submit
    BY <2>8 DEF Submit, Accepted, InState, Loop
  <2>9. CASE End
    BY <2>9 DEF End, StopListen, Refused
  <2>10. CASE Join
    BY <2>10 DEF Join
  <2>11. CASE AcceptFails
    BY <2>11 DEF AcceptFails, Loop
  <2>12. CASE SubmitFails
    BY <2>12 DEF SubmitFails, Accepted, InState, Loop
  <2>13. CASE Stop
    BY <2>13 DEF Stop
  <2>14. CASE Interrupt
    BY <2>14 DEF Interrupt
  <2>15. ASSUME NEW c \in Client, TaskStep(c) PROVE TypeOK'
    BY <2>15 DEF TaskStep, WorkerTakes, TaskLoop, TaskEnd, Forget
  <2>16. ASSUME NEW c \in Client, TaskProcess(c) \/ ClientConnect(c) PROVE TypeOK'
    BY <2>16 DEF TaskProcess, ClientConnect
  <2>17. CASE Finished \/ UNCHANGED vars
    BY <2>17 DEF Finished, vars
  <2> QED
    BY <2>1, <2>2, <2>3, <2>4, <2>5, <2>6, <2>7, <2>8, <2>9, <2>10, <2>11, <2>12,
       <2>13, <2>14, <2>15, <2>16, <2>17 DEF Next, ServeStep
<1> QED
  BY <1>1, <1>2, PTL DEF Spec

-------------------------------------------------------------------------------
\* The limit on the tasks

\* Tasks that end, and connections that are settled, keep to the limit unless
\* serve() finds room.
LEMMA Shrinks ==
  ASSUME LimitInv, tasks' \subseteq tasks, Fresh' \subseteq Fresh,
         pc' = pc \/ (pc' \notin Room /\ (pc = "submit" => Fresh' = {}))
  PROVE  LimitInv'
<1>1. /\ IsFiniteSet(tasks') /\ Cardinality(tasks') <= Cardinality(tasks)
      /\ Cardinality(tasks) \in Nat /\ Cardinality(tasks') \in Nat
  BY FS_Subset, FS_CardinalityType DEF LimitInv
<1>2. Cardinality(tasks') <= Limit /\ (pc' \in Room => Cardinality(tasks') < Limit)
  BY <1>1, LimitAssumption DEF LimitInv
<1>3. /\ \A c, d \in Fresh' : c = d
      /\ pc' # "submit" => Fresh' = {}
  BY DEF LimitInv, Room
<1> QED
  BY <1>1, <1>2, <1>3 DEF LimitInv

\* There is room for one more task when there is any.
LEMMA Grows ==
  ASSUME LimitInv, pc = "submit", tasks' = tasks \union Fresh
  PROVE  IsFiniteSet(tasks') /\ Cardinality(tasks') <= Limit
<1>1. IsFiniteSet(tasks) /\ Cardinality(tasks) \in Nat /\ Cardinality(tasks) + 1 <= Limit
  BY FS_CardinalityType, LimitAssumption DEF LimitInv, Room
<1>2. CASE Fresh = {}
  BY <1>1, <1>2, LimitAssumption
<1>3. ASSUME NEW c \in Fresh
      PROVE  IsFiniteSet(tasks') /\ Cardinality(tasks') <= Limit
  <2>1. tasks' = tasks \union {c}
    BY <1>3 DEF LimitInv
  <2>2. /\ IsFiniteSet(tasks')
        /\ Cardinality(tasks') = IF c \in tasks THEN Cardinality(tasks) ELSE Cardinality(tasks) + 1
    BY <1>1, <2>1, FS_AddElement
  <2> QED
    BY <1>1, <2>2, LimitAssumption
<1> QED
  BY <1>2, <1>3

LEMMA LimitStep == TypeOK /\ LimitInv /\ [Next]_vars => LimitInv'
<1> SUFFICES ASSUME TypeOK, LimitInv, [Next]_vars PROVE LimitInv'
  OBVIOUS
<1> USE DEF sockVars, countVars
<1>0. conn \in [Client -> ConnState]
  BY DEF TypeOK
<1>1. ASSUME Serve \/ Begin \/ While \/ AcceptThrows \/ AcceptFails \/ Join
      PROVE  LimitInv'
  <2>1. UNCHANGED <<tasks, conn>> /\ pc # "submit"
    BY <1>1 DEF Serve, Begin, While, AcceptThrows, AcceptFails, Join
  <2>2. pc' \notin Room
    BY <1>1 DEF Serve, StartListen, StartListenFails, Begin, While, AcceptThrows,
                AcceptFails, Join, Loop, Room
  <2> QED
    BY <2>1, <2>2, Shrinks DEF Fresh, InState
<1>2. ASSUME Overload \/ End PROVE LimitInv'
  <2>1. tasks' = tasks /\ pc # "submit" /\ pc' \notin Room
    BY <1>2 DEF Overload, End, Loop, Room
  <2>2. conn' = conn \/ conn' = Refused
    BY <1>2 DEF Overload, End, StopListen
  <2>3. Fresh' \subseteq Fresh
    BY <1>0, <2>2 DEF Fresh, InState, Refused
  <2> QED
    BY <2>1, <2>3, Shrinks
<1>3. CASE Recover
  <2>1. UNCHANGED <<tasks, conn>> /\ pc' # "submit" /\ pc = "load" /\ ~(Cardinality(tasks) >= Limit)
    BY <1>3 DEF Recover, StartListen, StartListenFails, OverLimit
  <2>2. Cardinality(tasks) \in Nat
    BY FS_CardinalityType DEF LimitInv
  <2>3. Fresh' = Fresh /\ Fresh = {}
    BY <2>1 DEF Fresh, InState, LimitInv
  <2> QED
    BY <2>1, <2>2, <2>3, LimitAssumption DEF LimitInv
<1>4. ASSUME NEW c \in Client, Accept(c) PROVE LimitInv'
  <2>1. tasks' = tasks /\ pc = "accept" /\ pc' = "submit" /\ conn' = [conn EXCEPT ![c] = "accepted"]
    BY <1>4 DEF Accept
  <2>2. Fresh = {}
    BY <2>1 DEF LimitInv
  <2>3. \A d \in Fresh' : d = c
    BY <1>0, <2>1, <2>2 DEF Fresh, InState
  <2> QED
    BY <2>1, <2>3 DEF LimitInv, Room
<1>5. ASSUME Submit \/ SubmitFails PROVE LimitInv'
  <2>1. /\ pc = "submit" /\ pc' \in {"loop", "end"}
        /\ tasks' = tasks \/ tasks' = tasks \union Fresh
    BY <1>5 DEF Submit, SubmitFails, Loop, Fresh
  <2>2. \E state \in {"loop", "queued", "closed", "unstarted"} : Accepted(state)
    BY <1>5 DEF Submit, SubmitFails
  <2>3. Fresh' = {}
    BY <1>0, <2>2 DEF Accepted, Fresh, InState
  <2>4. IsFiniteSet(tasks') /\ Cardinality(tasks') <= Limit
    BY <2>1, Grows DEF LimitInv
  <2> QED
    BY <2>1, <2>3, <2>4 DEF LimitInv, Room
<1>6. ASSUME Stop \/ Interrupt \/ Finished \/ UNCHANGED vars PROVE LimitInv'
  <2>1. UNCHANGED <<tasks, conn, pc>>
    BY <1>6 DEF Stop, Interrupt, Finished, vars
  <2> QED
    BY <2>1, Shrinks DEF Fresh, InState
<1>7. ASSUME NEW c \in Client, TaskStep(c) \/ TaskProcess(c) \/ ClientConnect(c)
      PROVE  LimitInv'
  <2>1. pc' = pc /\ tasks' \subseteq tasks
    BY <1>7 DEF TaskStep, WorkerTakes, TaskLoop, TaskEnd, TaskProcess, ClientConnect, Forget
  <2>2. \E state \in ConnState \ {"accepted"} : conn' = [conn EXCEPT ![c] = state]
    BY <1>7 DEF TaskStep, WorkerTakes, TaskLoop, TaskEnd, TaskProcess, ClientConnect, ConnState
  <2>3. Fresh' \subseteq Fresh
    BY <1>0, <2>2 DEF Fresh, InState
  <2> QED
    BY <2>1, <2>3, Shrinks
<1> QED
  BY <1>1, <1>2, <1>3, <1>4, <1>5, <1>6, <1>7 DEF Next, ServeStep

\* The tasks never exceed the limit, for any number of clients, although serve()
\* counts them before accept() blocks and adds one after it has returned.
THEOREM Limited == Spec => []WithinLimit
<1>1. Init => LimitInv
  BY FS_EmptySet, LimitAssumption DEF Init, LimitInv, Fresh, InState, Room
<1>2. LimitInv => WithinLimit
  BY DEF LimitInv, WithinLimit, Room
<1> QED
  BY <1>1, <1>2, Typed, LimitStep, PTL DEF Spec

-------------------------------------------------------------------------------
\* Late connections

LEMMA LateStep == TypeOK /\ LateInv /\ [Next]_vars => LateInv'
<1> SUFFICES ASSUME TypeOK, LateInv, [Next]_vars PROVE LateInv'
  OBVIOUS
<1> USE DEF LateInv, sockVars, countVars
<1>1. ASSUME Serve \/ Overload \/ AcceptThrows \/ AcceptFails \/ Submit \/ SubmitFails \/ End
      PROVE  LateInv'
  <2>1. UNCHANGED <<stop_, late>>
    BY <1>1 DEF Serve, Overload, AcceptThrows, AcceptFails, Submit, SubmitFails, End
  <2>2. pc' \notin {"load", "accept"}
    BY <1>1 DEF Serve, StartListen, StartListenFails, Overload, AcceptThrows,
                AcceptFails, Submit, SubmitFails, End, Loop
  <2> QED
    BY <2>1, <2>2
<1>2. ASSUME Begin \/ Join \/ Stop PROVE LateInv'
  BY <1>2 DEF Begin, Join, Stop
<1>3. CASE While
  BY <1>3 DEF While, LoopEnds
<1>4. CASE Recover
  BY <1>4 DEF Recover
<1>5. ASSUME NEW c \in Client, Accept(c) PROVE LateInv'
  BY <1>5 DEF Accept
<1>6. ASSUME \/ Interrupt \/ Finished \/ UNCHANGED vars
             \/ \E c \in Client : TaskStep(c) \/ TaskProcess(c) \/ ClientConnect(c)
      PROVE  LateInv'
  <2>1. UNCHANGED <<stop_, late, pc>>
    BY <1>6 DEF Interrupt, Finished, vars, TaskStep, WorkerTakes, TaskLoop, TaskEnd,
                TaskProcess, ClientConnect
  <2> QED
    BY <2>1
<1> QED
  BY <1>1, <1>2, <1>3, <1>4, <1>5, <1>6 DEF Next, ServeStep

\* After a stop() that comes when serve() has reset stop_, at most one more
\* connection is accepted, however often and wherever in the loop it is called
\* (base_server.cpp:31-35).
THEOREM OneLate == Spec => []OneLateAtMost
<1>1. Init => LateInv
  BY DEF Init, LateInv
<1>2. LateInv => OneLateAtMost
  BY DEF LateInv, OneLateAtMost
<1> QED
  BY <1>1, <1>2, Typed, LateStep, PTL DEF Spec

-------------------------------------------------------------------------------
\* What runs, and what waits to run

LEMMA TaskStepKept == TypeOK /\ TaskInv /\ [Next]_vars => TaskInv'
<1> SUFFICES ASSUME TypeOK, TaskInv, [Next]_vars PROVE TaskInv'
  OBVIOUS
<1> USE DEF sockVars, countVars
<1>0. conn \in [Client -> ConnState] /\ kind \in {"threaded", "pool"}
  BY DEF TypeOK
<1>1. ASSUME \/ Serve \/ Begin \/ While \/ Recover \/ AcceptThrows \/ AcceptFails \/ Join
             \/ Stop \/ Interrupt \/ Finished \/ UNCHANGED vars
      PROVE  TaskInv'
  <2>1. UNCHANGED <<kind, tasks, conn>>
    BY <1>1 DEF Serve, Begin, While, Recover, AcceptThrows, AcceptFails, Join, Stop,
                Interrupt, Finished, vars
  <2> QED
    BY <2>1 DEF TaskInv, Running, Waiting, InState
<1>2. ASSUME Overload \/ End PROVE TaskInv'
  <2>1. UNCHANGED <<kind, tasks>> /\ (conn' = conn \/ conn' = Refused)
    BY <1>2 DEF Overload, End, StopListen
  <2>2. Running' = Running /\ Waiting' = Waiting
    BY <1>0, <2>1 DEF Running, Waiting, InState, Refused
  <2> QED
    BY <2>1, <2>2 DEF TaskInv
<1>3. ASSUME NEW c \in Client, Accept(c) \/ ClientConnect(c) PROVE TaskInv'
  <2>1. /\ UNCHANGED <<kind, tasks>>
        /\ conn[c] \in {"none", "backlog"}
        /\ \E state \in {"backlog", "accepted"} : conn' = [conn EXCEPT ![c] = state]
    BY <1>3 DEF Accept, ClientConnect
  <2>2. Running' = Running /\ Waiting' = Waiting
    BY <1>0, <2>1 DEF Running, Waiting, InState
  <2> QED
    BY <2>1, <2>2 DEF TaskInv
<1>4. CASE Submit
  <2>1. CASE kind = "threaded"
    <3>1. kind' = kind /\ tasks' = tasks \union Fresh /\ Accepted("loop")
      BY <1>4, <2>1 DEF Submit, Fresh
    <3>2. Running' \subseteq Running \union Fresh /\ Waiting' = Waiting
      BY <1>0, <3>1 DEF Accepted, Running, Waiting, Fresh, InState
    <3> QED
      BY <2>1, <3>1, <3>2 DEF TaskInv
  <2>2. CASE kind = "pool" /\ manager = "started"
    <3>1. kind' = kind /\ tasks' = tasks \union Fresh /\ Accepted("queued")
      BY <1>4, <2>2 DEF Submit, Fresh
    <3>2. Waiting' \subseteq Waiting \union Fresh
      BY <1>0, <3>1 DEF Accepted, Waiting, Fresh, InState
    <3> QED
      BY <2>2, <3>1, <3>2 DEF TaskInv
  <2>3. CASE kind = "pool" /\ manager # "started"
    <3>1. kind' = kind /\ tasks' = tasks /\ Accepted("closed")
      BY <1>4, <2>3 DEF Submit
    <3>2. Waiting' = Waiting
      BY <1>0, <3>1 DEF Accepted, Waiting, InState
    <3> QED
      BY <2>3, <3>1, <3>2 DEF TaskInv
  <2> QED
    BY <1>0, <2>1, <2>2, <2>3
<1>5. CASE SubmitFails
  <2>1. /\ kind' = kind /\ tasks \subseteq tasks'
        /\ \E state \in {"closed", "unstarted"} : Accepted(state)
    BY <1>5 DEF SubmitFails
  <2>2. Running' = Running /\ Waiting' = Waiting
    BY <1>0, <2>1 DEF Accepted, Running, Waiting, InState
  <2> QED
    BY <2>1, <2>2 DEF TaskInv
<1>6. ASSUME NEW c \in Client, WorkerTakes(c) PROVE TaskInv'
  <2>1. /\ conn[c] = "queued" /\ kind' = kind /\ tasks' = tasks \ {c}
        /\ \E state \in {"loop", "closed"} : conn' = [conn EXCEPT ![c] = state]
    BY <1>6 DEF WorkerTakes, Forget
  <2>2. c \in Waiting /\ Waiting' = Waiting \ {c}
    BY <1>0, <2>1 DEF Waiting, InState
  <2>3. kind = "pool"
    BY <1>0, <2>2 DEF TaskInv
  <2> QED
    BY <2>1, <2>2, <2>3 DEF TaskInv
<1>7. ASSUME NEW c \in Client, TaskLoop(c) \/ TaskProcess(c) PROVE TaskInv'
  <2>1. /\ UNCHANGED <<kind, tasks>>
        /\ conn[c] \in {"loop", "process"}
        /\ \E state \in {"loop", "process", "ending"} : conn' = [conn EXCEPT ![c] = state]
    BY <1>7 DEF TaskLoop, TaskProcess
  <2>2. Running' = Running /\ Waiting' = Waiting
    BY <1>0, <2>1 DEF Running, Waiting, InState
  <2> QED
    BY <2>1, <2>2 DEF TaskInv
<1>8. ASSUME NEW c \in Client, TaskEnd(c) PROVE TaskInv'
  <2>1. /\ conn[c] = "ending" /\ kind' = kind /\ conn' = [conn EXCEPT ![c] = "closed"]
        /\ tasks' = IF kind = "threaded" THEN tasks \ {c} ELSE tasks
    BY <1>8 DEF TaskEnd, Forget
  <2>2. Running' = Running \ {c} /\ Waiting' = Waiting
    BY <1>0, <2>1 DEF Running, Waiting, InState
  <2> QED
    BY <2>1, <2>2 DEF TaskInv
<1> QED
  BY <1>1, <1>2, <1>3, <1>4, <1>5, <1>6, <1>7, <1>8 DEF Next, ServeStep, TaskStep

\* When serve() returns from its loop with stop_ set, no thread that uses the
\* server is left and no connection waits for one, although a threaded server
\* looks only at tasks_ and the other only at its manager.  Not so when it
\* returns because listen() fails, from "load".
THEOREM NoneLeft == Spec => ReturnsJoined
<1>1. Init => TaskInv
  BY DEF Init, TaskInv, Running, Waiting, InState
<1>2. ASSUME TypeOK, TaskInv, [Next]_vars, stop_, pc \notin {"idle", "load"}, pc' = "idle"
      PROVE  tasks = {} /\ Running = {} /\ Waiting = {}
  <2>1. Join
    BY <1>2 DEF Next, ServeStep, Serve, Begin, While, Overload, Recover, Accept, AcceptThrows,
                Submit, End, AcceptFails, SubmitFails, Stop, Interrupt, TaskStep, WorkerTakes,
                TaskLoop, TaskEnd, TaskProcess, ClientConnect, Finished, Loop, vars
  <2>2. Joined
    BY <2>1 DEF Join
  <2>3. kind \in {"threaded", "pool"}
    BY <1>2 DEF TypeOK
  <2> QED
    BY <1>2, <2>2, <2>3 DEF Joined, TaskInv
<1>3. TypeOK /\ TaskInv /\ [Next]_vars =>
        [/\ stop_ /\ pc \notin {"idle", "load"} /\ pc' = "idle"
           => tasks = {} /\ Running = {} /\ InState({"queued"}) = {}]_vars
  BY <1>2 DEF Waiting
<1> QED
  BY <1>1, <1>3, Typed, TaskStepKept, PTL DEF Spec, ReturnsJoined
=============================================================================
