------------------------------ MODULE SyncServer ------------------------------
(***************************************************************************)
(* The two synchronous servers, sync/threaded_server.cpp and               *)
(* sync/thread_pool_server.cpp, on their base sync/base_server.cpp: serve()*)
(* accepts connections and gives each to a task; when there are too many   *)
(* tasks it closes the listening port and opens it again later.            *)
(*                                                                         *)
(* The servers differ in how a task is run: by a thread of its own, with a *)
(* limit on the tasks there are, or by the workers of a thread manager,    *)
(* with a limit on the tasks that wait.  The thread manager and the server *)
(* socket are libraries, modelled by what the servers use of them.         *)
(*                                                                         *)
(* A step is what serve(), stop() or a task does between two accesses to   *)
(* what they share: stop_, the server socket, the tasks.                   *)
(***************************************************************************)
EXTENDS Naturals, FiniteSets

CONSTANTS
  Client,        \* connections that clients try to open, each one once
  Limit,         \* workerThreadCountMax_ or pendingTaskCountMax_
  Workers,       \* workerThreadCount_
  ServeBound,    \* bound: how often serve() is called
  StopBound,     \* bound: how often stop() is called
  Faults         \* bound: how many calls of the system fail

ASSUME LimitAssumption == Limit \in Nat /\ Workers \in Nat \ {0}
ASSUME BoundAssumption == {ServeBound, StopBound, Faults} \subseteq Nat

VARIABLES
  kind,        \* "threaded" or "pool"
  stop_, is_listen_,
  listening,   \* the server socket listens
  interrupt,   \* an interrupt() that accept() has not consumed
  pc,          \* of serve()
  tasks,       \* threaded: tasks_; pool: the tasks that wait in the manager
  conn,        \* the state of a connection
  manager,     \* of the thread manager: "started", or "stopped" by join()
  stopping,    \* stop() is about to interrupt the server socket
  late,        \* connections accepted since stop_ was set
  serves, stops, faults

sockVars == <<is_listen_, listening, interrupt>>
countVars == <<serves, stops, faults>>
vars == <<kind, stop_, sockVars, pc, tasks, conn, manager, stopping, late, countVars>>

\* Where serve() is: not called, before the loop, at its condition, counting
\* tasks, in accept(), making a task, after the loop, joining the tasks.
ServePC == {"idle", "begin", "loop", "load", "accept", "submit", "end", "join"}

\* Of a connection: not made, in the backlog of the port, its task
\* queued, at the condition of its loop, in process(), after its loop, closed; or
\* closed while its task, whose thread was not started, is left in tasks_.
ConnState == {"none", "backlog", "accepted", "queued", "loop", "process", "ending", "closed",
              "unstarted"}

InState(S) == {c \in Client : conn[c] \in S}

Running == InState({"loop", "process", "ending"})

-------------------------------------------------------------------------------
\* Faulty variants of helpers below.
OverLimitLate == Cardinality(tasks) > Limit
OverLimitSticks == Cardinality(tasks) >= Limit \/ ~is_listen_
KeepInterrupt ==
  /\ is_listen_' = FALSE
  /\ IF is_listen_ THEN listening' = FALSE ELSE UNCHANGED listening
  /\ UNCHANGED <<interrupt, conn>>
LeakClient(state) ==
  conn' = [c \in Client |->
             IF conn[c] = "accepted" /\ state \in {"loop", "queued"} THEN state ELSE conn[c]]
JoinNothing == TRUE
LoopOnce == FALSE
LoopEndsOpen == stop_ /\ is_listen_

\* tasks_.size() or pendingTaskCount() against the limit.
OverLimit == Cardinality(tasks) >= Limit

\* serverTransport_->close(): with the port goes its backlog, and an interrupt.
Refused == [c \in Client |-> IF conn[c] = "backlog" THEN "closed" ELSE conn[c]]

\* safeStopListen, stopListen.
StopListen ==
  /\ is_listen_' = FALSE
  /\ IF is_listen_ THEN listening' = FALSE /\ interrupt' = FALSE /\ conn' = Refused
                   ELSE UNCHANGED <<listening, interrupt, conn>>

\* The loop of serve() goes on.
Loop == pc' = "loop"

\* `client', the connection just accepted, gets into a state.
Accepted(state) == conn' = [c \in Client |-> IF conn[c] = "accepted" THEN state ELSE conn[c]]

\* A task has gone: from tasks_, or from the manager.
Forget(c) == tasks' = tasks \ {c}

\* What serve() waits for before it returns.
Joined == IF kind = "threaded" THEN tasks = {} ELSE tasks = {} /\ Running = {}

LoopEnds == stop_

-------------------------------------------------------------------------------
Init ==
  /\ kind \in {"threaded", "pool"}
  /\ stop_ = FALSE
  /\ is_listen_ = FALSE /\ listening = FALSE /\ interrupt = FALSE
  /\ pc = "idle"
  /\ tasks = {}
  /\ conn = [c \in Client |-> "none"]
  /\ manager = "started"
  /\ stopping = FALSE
  /\ late = 0 /\ serves = 0 /\ stops = 0 /\ faults = 0

-------------------------------------------------------------------------------
(* serve() *)

\* startListen(): nothing to do when is_listen_ is set.
StartListen(next) ==
  \/ is_listen_ /\ pc' = next /\ UNCHANGED <<sockVars, faults>>
  \/ ~is_listen_ /\ is_listen_' = TRUE /\ listening' = TRUE /\ pc' = next
       /\ UNCHANGED <<interrupt, faults>>

\* ... or listen() throws, and serve() returns.
StartListenFails ==
  /\ ~is_listen_
  /\ faults < Faults /\ faults' = faults + 1
  /\ pc' = "idle"
  /\ UNCHANGED sockVars

Serve ==
  /\ pc = "idle"
  /\ serves < ServeBound /\ serves' = serves + 1
  /\ StartListen("begin") \/ StartListenFails
  /\ UNCHANGED <<kind, stop_, tasks, conn, manager, stopping, late, stops>>

\* stop_ is reset, whatever has been called before.
Begin ==
  /\ pc = "begin"
  /\ stop_' = FALSE
  /\ Loop
  /\ UNCHANGED <<kind, sockVars, tasks, conn, manager, stopping, late, countVars>>

While ==
  /\ pc = "loop"
  /\ pc' = IF LoopEnds THEN "end" ELSE "load"
  /\ UNCHANGED <<kind, stop_, sockVars, tasks, conn, manager, stopping, late, countVars>>

\* Too many tasks: the port is closed.
Overload ==
  /\ pc = "load"
  /\ OverLimit
  /\ StopListen
  /\ Loop
  /\ UNCHANGED <<kind, stop_, tasks, manager, stopping, late, countVars>>

\* Not, or no more: the port is open, or opened again.
Recover ==
  /\ pc = "load"
  /\ ~OverLimit
  /\ StartListen("accept") \/ StartListenFails
  /\ UNCHANGED <<kind, stop_, tasks, conn, manager, stopping, late, serves, stops>>

Accept(c) ==
  /\ pc = "accept" /\ listening /\ ~interrupt
  /\ conn[c] = "backlog"
  /\ conn' = [conn EXCEPT ![c] = "accepted"]
  /\ late' = IF stop_ THEN late + 1 ELSE 0
  /\ pc' = "submit"
  /\ UNCHANGED <<kind, stop_, sockVars, tasks, manager, stopping, countVars>>

\* accept() throws: it is interrupted, or the socket does not listen.
AcceptThrows ==
  /\ pc = "accept"
  /\ interrupt \/ ~listening
  /\ interrupt' = FALSE
  /\ Loop
  /\ UNCHANGED <<kind, stop_, is_listen_, listening, tasks, conn, manager,
                 stopping, late, countVars>>

\* accept() or what follows fails: with a TException the loop goes on, with any
\* other exception it is left.
AcceptFails ==
  /\ pc = "accept"
  /\ faults < Faults /\ faults' = faults + 1
  /\ Loop \/ pc' = "end"
  /\ UNCHANGED <<kind, stop_, sockVars, tasks, conn, manager, stopping, late,
                 serves, stops>>

\* The task is inserted into tasks_ and its thread started; or it is added to
\* the manager, which takes none after a join().
Submit ==
  /\ pc = "submit"
  /\ IF kind = "threaded" \/ manager = "started"
       THEN /\ tasks' = tasks \union InState({"accepted"})
            /\ Accepted(IF kind = "threaded" THEN "loop" ELSE "queued")
       ELSE Accepted("closed") /\ UNCHANGED tasks
  /\ Loop
  /\ UNCHANGED <<kind, stop_, sockVars, manager, stopping, late, countVars>>

\* The transports, the task or its thread cannot be made, or the thread cannot
\* be started: the connection is closed, but in the last case its task stays in
\* tasks_.
SubmitFails ==
  /\ pc = "submit"
  /\ faults < Faults /\ faults' = faults + 1
  /\ \/ Accepted("closed") /\ UNCHANGED tasks
     \/ /\ kind = "threaded"
        /\ Accepted("unstarted")
        /\ tasks' = tasks \union InState({"accepted"})
  /\ Loop \/ pc' = "end"
  /\ UNCHANGED <<kind, stop_, sockVars, manager, stopping, late, serves, stops>>

\* After the loop: only a server that was stopped closes its port, and only the
\* thread pool server takes note of it, in is_listen_.
End ==
  /\ pc = "end"
  /\ IF stop_
       THEN /\ IF kind = "pool"
                 THEN StopListen
                 ELSE /\ listening' = FALSE /\ interrupt' = FALSE /\ conn' = Refused
                      /\ UNCHANGED is_listen_
            /\ pc' = "join"
       ELSE pc' = "idle" /\ UNCHANGED <<sockVars, conn>>
  /\ UNCHANGED <<kind, stop_, tasks, manager, stopping, late, countVars>>

Join ==
  /\ pc = "join"
  /\ Joined
  /\ manager' = IF kind = "pool" THEN "stopped" ELSE manager
  /\ stop_' = FALSE
  /\ pc' = "idle"
  /\ UNCHANGED <<kind, sockVars, tasks, conn, stopping, late, countVars>>

-------------------------------------------------------------------------------
(* stop(), from another thread *)

Stop ==
  /\ ~stopping
  /\ stops < StopBound /\ stops' = stops + 1
  /\ stop_' = TRUE
  /\ stopping' = TRUE
  /\ late' = IF stop_ THEN late ELSE 0
  /\ UNCHANGED <<kind, sockVars, pc, tasks, conn, manager, serves, faults>>

\* A socket that does not listen ignores the interrupt.
Interrupt ==
  /\ stopping
  /\ stopping' = FALSE
  /\ interrupt' = listening
  /\ UNCHANGED <<kind, stop_, is_listen_, listening, pc, tasks, conn, manager,
                 late, countVars>>

-------------------------------------------------------------------------------
(* The tasks and the clients *)

\* A worker takes a task that waits, or drops it when it has expired.
WorkerTakes(c) ==
  /\ conn[c] = "queued"
  /\ \/ Cardinality(Running) < Workers /\ conn' = [conn EXCEPT ![c] = "loop"]
     \/ conn' = [conn EXCEPT ![c] = "closed"]
  /\ Forget(c)
  /\ UNCHANGED <<kind, stop_, sockVars, pc, manager, stopping, late, countVars>>

\* while (!stop_ && process())
TaskLoop(c) ==
  /\ conn[c] = "loop"
  /\ conn' = [conn EXCEPT ![c] = IF stop_ THEN "ending" ELSE "process"]
  /\ UNCHANGED <<kind, stop_, sockVars, pc, tasks, manager, stopping, late, countVars>>

\* The client sends a request, or closes, or is given up.
TaskProcess(c) ==
  /\ conn[c] = "process"
  /\ \E next \in {"loop", "ending"} : conn' = [conn EXCEPT ![c] = next]
  /\ UNCHANGED <<kind, stop_, sockVars, pc, tasks, manager, stopping, late, countVars>>

\* The end of run(): the connection is closed and a threaded task takes itself
\* out of tasks_.
TaskEnd(c) ==
  /\ conn[c] = "ending"
  /\ conn' = [conn EXCEPT ![c] = "closed"]
  /\ IF kind = "threaded" THEN Forget(c) ELSE UNCHANGED tasks
  /\ UNCHANGED <<kind, stop_, sockVars, pc, manager, stopping, late, countVars>>

ClientConnect(c) ==
  /\ listening
  /\ conn[c] = "none"
  /\ conn' = [conn EXCEPT ![c] = "backlog"]
  /\ UNCHANGED <<kind, stop_, sockVars, pc, tasks, manager, stopping, late, countVars>>

\* All bounds are used up; serve() waits for a client that does not come; or it
\* waits for a task without a thread.
Finished ==
  /\ \/ pc = "idle" /\ serves = ServeBound
     \/ pc = "accept" /\ listening /\ ~interrupt /\ stops = StopBound
     \/ pc = "join" /\ kind = "threaded" /\ tasks # {} /\ Running = {}
  /\ UNCHANGED vars

-------------------------------------------------------------------------------
ServeStep ==
  \/ Begin \/ While \/ Overload \/ Recover
  \/ \E c \in Client : Accept(c)
  \/ AcceptThrows \/ Submit \/ End \/ Join

TaskStep(c) == WorkerTakes(c) \/ TaskLoop(c) \/ TaskEnd(c)

Next ==
  \/ Serve \/ ServeStep \/ AcceptFails \/ SubmitFails
  \/ Stop \/ Interrupt
  \/ \E c \in Client : TaskStep(c) \/ TaskProcess(c) \/ ClientConnect(c)
  \/ Finished

Spec == Init /\ [][Next]_vars

\* The threads run.  No client is made to do anything, nor is anyone to call
\* serve() or stop().
FairSpec ==
  Spec /\ WF_vars(ServeStep) /\ WF_vars(Interrupt) /\ \A c \in Client : WF_vars(TaskStep(c))

-------------------------------------------------------------------------------
TypeOK ==
  /\ kind \in {"threaded", "pool"} /\ pc \in ServePC
  /\ stop_ \in BOOLEAN /\ is_listen_ \in BOOLEAN /\ stopping \in BOOLEAN
  /\ listening \in BOOLEAN /\ interrupt \in BOOLEAN
  /\ interrupt => listening
  /\ tasks \subseteq Client
  /\ conn \in [Client -> ConnState]
  /\ manager \in {"started", "stopped"}
  /\ late \in Nat /\ serves \in 0..ServeBound /\ stops \in 0..StopBound /\ faults \in 0..Faults

\* The tasks are counted before accept() blocks and added after it returns; all
\* the same they never exceed the limit, so that adding to the manager never
\* waits, although it is told to wait for ever.
WithinLimit ==
  /\ Cardinality(tasks) <= Limit
  /\ pc = "submit" => Cardinality(tasks) < Limit

\* A serve() whose stop_ is set returns from its loop only when none of its tasks,
\* which use the server, is left.  The one other way back is a listen() that
\* fails when the port is to be opened again (threaded_server.cpp:183,
\* thread_pool_server.cpp:185): then it returns from "load", with tasks running.
ReturnsJoined ==
  [][/\ stop_ /\ pc \notin {"idle", "load"} /\ pc' = "idle"
       => tasks = {} /\ Running = {} /\ InState({"queued"}) = {}]_vars

\* After a stop() that comes when serve() has reset stop_ (threaded_server.cpp:154),
\* at most one more connection is accepted until serve() returns, however the
\* two steps of this stop() and of further ones fall.  (One that comes before is
\* forgotten with stop_.)
OneLateAtMost == late <= 1

\* A connection accepted is closed in the end, once the clients have sent their
\* requests, whatever serve() does meanwhile and though the thread of its task
\* may fail to start.
AcceptedIsClosed ==
  \A c \in Client :
    (\A d \in Client : <>[](conn[d] # "process"))
      => (conn[c] \in {"accepted", "queued", "loop"} ~> conn[c] \in {"closed", "unstarted"})

\* A port that was closed for an overload is opened again once the load has gone
\* for good, unless serve() leaves its loop.  (A threaded server that was stopped
\* and serves again believes, in is_listen_, that its port is open.)
Relistens ==
  <>[](Cardinality(tasks) < Limit) => (pc = "load" /\ ~is_listen_ ~> listening \/ pc \in {"end", "idle"})

Serving == pc \in {"loop", "load", "accept", "submit"}

\* The interrupt of a stop() may find the port closed for an overload while
\* serve(), which has looked at stop_ before, is about to open it again.
MayMissStop == pc = "load" /\ ~is_listen_

\* A stop() is not lost.  "If stopped manually, make sure to close server
\* transport" (threaded_server.cpp:282): serve() leaves its loop and closes the
\* port, wherever in it the stop() comes and whatever overloads there were; only
\* one that comes and interrupts in the gap of MayMissStop is excepted.  And
\* serve() then returns, if the requests end and every task has its thread
\* (that of one whose thread fails to start stays in tasks_ for ever).
StopTakesEffect ==
  /\ stop_ /\ stopping /\ Serving /\ ~MayMissStop ~> pc = "join" /\ ~listening
  /\ (/\ \A d \in Client : <>[](conn[d] # "process")
      /\ [](InState({"unstarted"}) = {}))
       => (pc = "join" ~> pc = "idle")
=============================================================================
