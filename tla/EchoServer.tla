------------------------------ MODULE EchoServer ------------------------------
(***************************************************************************)
(* A server process as test/echo_server.cpp makes it: an AsyncThriftServer *)
(* on an io_service_pool, whose connections execute calls with a           *)
(* ServiceBaseProcessor or an asynchronous handler.  A shutdown call, on a *)
(* thread of the pool, stops the server.  An application thread takes      *)
(* services of the pool for connections of its own.                        *)
(***************************************************************************)
EXTENDS AsyncServer, ServiceBase

\* A connection executes its calls itself, one at a time.
ASSUME ThreadAssumption == Thread = Connection

vars == <<poolVars, serverVars, baseVars>>

Init == PoolInit /\ ServerInit /\ BaseInit

\* Steps of a part; a process that has crashed takes none.
Pool(step) == ~crashed /\ step /\ UNCHANGED <<serverVars, baseVars>>
Server(step) == ~crashed /\ step /\ UNCHANGED baseVars
Base(step) == ~crashed /\ step /\ UNCHANGED <<poolVars, serverVars>>

\* A frame carries a call.
Begin(c) ==
  \E f \in Function :
    /\ ~crashed /\ called[f] < limit[f]
    /\ Frame(c) /\ BeginCall(c, f)

\* server_->stop().
CallsStop(c) ==
  /\ ~crashed /\ CallStop(c)
  /\ IF server_ THEN PostStop ELSE UNCHANGED queue
  /\ UNCHANGED <<poolVars, acceptVars, connVars, destroyed, countVars>>

\* The reply is sent, or the connection closed, as always when the call threw.
End(c) ==
  /\ ~crashed /\ EndCall(c)
  /\ (call[c].at = "done" /\ Reply(c)) \/ OnClose(c)

\* What a thread does once it executes a call.
CallStep(c) ==
  \/ Base(CallFunction(c) \/ SetStopped(c) \/ CheckServer(c) \/ ResetServer(c) \/ Count(c))
  \/ CallsStop(c) \/ End(c)

RunStep == Pool(RunWork \/ RunReset \/ RunCreate \/ RunReturn)

StopStep(t) == stop[t] # StopIdle /\ Pool(PoolStop(t))

HandlerStep(s) ==
  Server(HandleAccept(s) \/ HandleAcceptError(s) \/ (s = 0 /\ StopImpl) \/ ThreadExit(s))

GetStep == Pool(GetIncrement \/ GetWrap)

Next ==
  \/ Server(Serve) \/ Server(ServeThrows) \/ RunStep
  \/ \E s \in Service : HandlerStep(s)
  \/ Server(Connects) \/ Server(AcceptError) \/ Server(ClientConnect)
  \/ Server(Stop) \/ Server(UserStop) \/ \E t \in Stopper : StopStep(t)
  \/ (limit.gets /\ Pool(GetIndex)) \/ GetStep
  \/ \E c \in Connection : Begin(c) \/ CallStep(c) \/ Base(Throws(c)) \/ Server(Hangup(c))
  \/ ~destroyed /\ Base(SetUpdate)
  \/ ~crashed /\ Destroy /\ DestroyBase

Spec == Init /\ [][Next]_vars

\* The threads run, and get a mutex they wait for; the handlers of a service are
\* run in their order.  Nobody is made to connect, call, stop or update.
FairSpec ==
  /\ Spec
  /\ WF_vars(RunStep) /\ WF_vars(GetStep)
  /\ \A t \in Stopper : WF_vars(StopStep(t))
  /\ \A s \in Service : SF_vars(HandlerStep(s))
  /\ \A c \in Connection : WF_vars(CallStep(c))

-------------------------------------------------------------------------------
TypeOK ==
  /\ PoolTypeOK /\ BaseTypeOK
  /\ new_conn_ \in Connection \union {NoConn} /\ set_ \subseteq Connection
  /\ conn \in [Connection -> {"none", "new", "connected", "reading", "serving", "deleted"}]
  /\ service \in [Connection -> Service] /\ home \in Service
  /\ listening \in BOOLEAN /\ destroyed \in BOOLEAN
  /\ \A s \in Service : ToSet(queue[s]) \subseteq {"accepted", "failed", "stop_impl"}
  /\ \A c \in Connection : call[c].at # "none" <=> conn[c] = "serving"

Running == run \notin {"none", "returned"}

\* A stop() of the server ends serve(), whenever it comes (before, during or after
\* the creation of the threads) and whoever calls it, a shutdown call on a thread
\* of the pool included, so that a ServiceBaseHandler whose status is STOPPED has
\* a server that stops; so does a stop() of the pool.  Only run() itself can
\* undo it, by resetting a service that was stopped during its loop; and only two
\* shutdown calls together can end in the dereference of a null server_.
StopEndsServe ==
  Running /\ ("stop_impl" \in ToSet(queue[0]) \/ stopped = Service
              \/ (~async_rpc /\ status_ = "STOPPED"))
    ~> ~Running \/ undone \/ (crashed /\ called["shutdown"] > 1)
=============================================================================
