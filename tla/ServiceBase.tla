----------------------------- MODULE ServiceBase -----------------------------
(***************************************************************************)
(* What a service executes calls with: ServiceBaseProcessor and            *)
(* ServiceBaseHandler (fb303/service_base_processor.h and                  *)
(* service_base_handler.cpp), or AsyncFacebookBase                         *)
(* (async_facebook_base.cpp) if its handlers are asynchronous.             *)
(*                                                                         *)
(* A window of statistics counts the calls of each function.  The          *)
(* processor fills one under its mutex; every second its update thread     *)
(* swaps it with the handler's, which get_status_rt() copies, and starts a *)
(* new one.                                                                *)
(***************************************************************************)
EXTENDS Naturals

CONSTANT Thread  \* what executes calls, each one at a time

VARIABLES
  async_rpc,     \* whether the handlers are asynchronous
  status_,       \* of the handler
  server_,       \* whether the handler has its pointer to the server
  sstatus_rt_,   \* the window of the processor
  published,     \* the window of the handler
  call,          \* where a call of a thread is, and its function
  called,        \* how many calls of each function were begun
  served, reported,  \* the calls that process_fn returned from; those published
  crashed        \* the process has dereferenced a null pointer

shutdownVars == <<status_, server_, crashed>>
windowVars == <<sstatus_rt_, published, served, reported>>
baseVars == <<async_rpc, shutdownVars, windowVars, call, called>>

Function == {"echo", "shutdown"}
NoCall == [at |-> "none", fname |-> "echo"]

\* A new ServiceStatusRT.
NewWindow == [rpc_qps |-> [f \in Function |-> 0], rpc_ok_qps |-> [f \in Function |-> 0]]

Plus(w, v) == [k \in DOMAIN w |-> [f \in Function |-> w[k][f] + v[k][f]]]

\* A call of f is counted, as a good one if process_fn says so.
Counted(w, f, ok) ==
  [rpc_qps |-> [w.rpc_qps EXCEPT ![f] = @ + 1],
   rpc_ok_qps |-> IF ok THEN [w.rpc_ok_qps EXCEPT ![f] = @ + 1] ELSE w.rpc_ok_qps]

\* The handler as constructed, and given the server.
HandlerInit ==
  /\ status_ = IF async_rpc THEN "STOPPED" ELSE "ALIVE"
  /\ server_ = TRUE

\* The processor's window is its second one: its constructor has published one.
ProcessorInit == sstatus_rt_ = NewWindow /\ published = NewWindow

BaseInit ==
  /\ async_rpc \in BOOLEAN
  /\ HandlerInit /\ ProcessorInit
  /\ call = [c \in Thread |-> NoCall]
  /\ called = [f \in Function |-> 0]
  /\ served = NewWindow /\ reported = NewWindow
  /\ crashed = FALSE

Goto(c, where) == call' = [call EXCEPT ![c].at = where]

\* Faulty variants of steps below.
SwapKeep == published' = sstatus_rt_ /\ sstatus_rt_' = published
ResetBeforeStop(c) ==
  /\ call[c].at = "check"
  /\ Goto(c, "stop") /\ server_' = FALSE
  /\ UNCHANGED <<async_rpc, status_, crashed, windowVars, called>>

-------------------------------------------------------------------------------
\* The call that the thread has read begins.
BeginCall(c, f) ==
  /\ call[c] = NoCall
  /\ call' = [call EXCEPT ![c] = [at |-> IF f = "echo" THEN "function"
                                         ELSE IF async_rpc THEN "check" ELSE "status",
                                  fname |-> f]]
  /\ called' = [called EXCEPT ![f] = @ + 1]
  /\ UNCHANGED <<async_rpc, shutdownVars, windowVars>>

\* The function returns; with asynchronous handlers nothing is counted.
Leave(c) == Goto(c, IF async_rpc THEN "done" ELSE "count")

CallFunction(c) ==
  /\ call[c].at = "function"
  /\ Leave(c)
  /\ UNCHANGED <<async_rpc, shutdownVars, windowVars, called>>

\* shutdown(), step by step: it runs under no mutex.  async_shutdown() does not
\* set the status, which is STOPPED from the start.
SetStopped(c) ==
  /\ call[c].at = "status"
  /\ status_' = "STOPPED"
  /\ Goto(c, "check")
  /\ UNCHANGED <<async_rpc, server_, crashed, windowVars, called>>

CheckServer(c) ==
  /\ call[c].at = "check"
  /\ IF server_ THEN Goto(c, "stop") ELSE Leave(c)
  /\ UNCHANGED <<async_rpc, shutdownVars, windowVars, called>>

\* server_->stop(), whose effect is the server's; the pointer may be null by now.
CallStop(c) ==
  /\ call[c].at = "stop"
  /\ crashed' = ~server_
  /\ Goto(c, "reset")
  /\ UNCHANGED <<async_rpc, status_, server_, windowVars, called>>

ResetServer(c) ==
  /\ call[c].at = "reset"
  /\ server_' = FALSE
  /\ Leave(c)
  /\ UNCHANGED <<async_rpc, status_, crashed, windowVars, called>>

\* process_fn counts the call when it has returned.
Count(c) ==
  /\ call[c].at = "count"
  /\ \E ok \in BOOLEAN :
       /\ sstatus_rt_' = Counted(sstatus_rt_, call[c].fname, ok)
       /\ served' = Counted(served, call[c].fname, ok)
  /\ Goto(c, "done")
  /\ UNCHANGED <<async_rpc, shutdownVars, published, reported, called>>

\* It throws, and does not count.
Throws(c) ==
  /\ call[c].at = "function"
  /\ Goto(c, "thrown")
  /\ UNCHANGED <<async_rpc, shutdownVars, windowVars, called>>

\* The connection goes on.
EndCall(c) ==
  /\ call[c].at \in {"done", "thrown"}
  /\ call' = [call EXCEPT ![c] = NoCall]
  /\ UNCHANGED <<async_rpc, shutdownVars, windowVars, called>>

-------------------------------------------------------------------------------
\* handler_->set_status_rt() swaps the windows, under both mutexes, and the
\* processor takes a new one in place of the handler's old one.
Swap == published' = sstatus_rt_ /\ sstatus_rt_' = NewWindow

SetUpdate ==
  /\ ~async_rpc
  /\ Swap
  /\ reported' = Plus(reported, published')
  /\ UNCHANGED <<async_rpc, shutdownVars, call, called, served>>

\* The destructors: the processor joins its update thread, the handler is dead.
DestroyBase ==
  /\ status_' = IF async_rpc THEN status_ ELSE "DEAD"
  /\ UNCHANGED <<async_rpc, server_, crashed, windowVars, call, called>>

-------------------------------------------------------------------------------
BaseTypeOK ==
  /\ status_ \in {"ALIVE", "STOPPED", "DEAD"}
  /\ {async_rpc, server_, crashed} \subseteq BOOLEAN
  /\ \A w \in {sstatus_rt_, published, served, reported} :
       /\ w \in [rpc_qps : [Function -> Nat], rpc_ok_qps : [Function -> Nat]]
       /\ \A f \in Function : w.rpc_ok_qps[f] <= w.rpc_qps[f]
  /\ \A c \in Thread :
       call[c] \in [at : {"none", "function", "status", "check", "stop", "reset",
                          "count", "done", "thrown"}, fname : Function]
  /\ called \in [Function -> Nat]

\* Every call that returns is counted in exactly one window, whatever update
\* comes between the calls that end together: none is lost with a window that is
\* thrown away, and none is published twice.
CountedOnce == served = Plus(reported, sstatus_rt_)
=============================================================================
