------------------------------- MODULE AsyncRpc -------------------------------
(***************************************************************************)
(* One connection of an AsyncThriftClient (async/async_client.cpp and the  *)
(* calls the patched compiler generates) to an AsyncThriftServer           *)
(* (async/async_server.cpp), over two byte streams.                        *)
(*                                                                         *)
(* Each side runs one completion handler at a time; a handler, with all    *)
(* that it calls, is a step.  The client calls the operations of a script  *)
(* one after the other, as its contract demands: no call before the        *)
(* callback of the one before.  A oneway call completes when it is         *)
(* written, so its frame and the next one may be in the stream together.   *)
(* Between calls the client may be detached from its socket, which it or   *)
(* another client is attached to again, or be attached to a new one; the   *)
(* server's end of the old one shares nothing with that of the new one and *)
(* is followed no further.                                                 *)
(***************************************************************************)
EXTENDS AsyncConnection, FiniteSets

CONSTANT
  Sessions  \* of [async_rpc, script, sockets]: whether the handlers of the server
            \* are asynchronous; the calls [sync, oneway, void, fails, request,
            \* reply], where fails says that the function does; and how many
            \* more sockets the client is attached to

CallRecord == [sync : BOOLEAN, oneway : BOOLEAN, void : BOOLEAN, fails : BOOLEAN,
               request : Nat, reply : Nat]

ASSUME SessionAssumption ==
  \A session \in Sessions :
    /\ session.async_rpc \in BOOLEAN /\ session.sockets \in Nat
    /\ session.script \in Seq(CallRecord)

VARIABLES
  async_rpc,
  script,
  sockets,
  sent,      \* the calls written to the present socket
  calls,     \* how many calls the client has started
  pending,   \* pending_async_op_: the call in progress, 0 if there is none
  outcome,   \* how a call has completed, and the bytes of the answer
  client, server,      \* the connections
  toServer, toClient,  \* the bytes under way
  handled    \* the frames from the present socket that the server has processed

vars == <<async_rpc, script, sockets, sent, calls, pending, outcome, client, server, toServer, toClient, handled>>

sessionVars == <<async_rpc, script>>
socketVars == <<sockets, sent>>

Ids == 1..Len(script)
RequestSize == [k \in Ids |-> script[k].request]
ReplySize == [k \in Ids |-> script[k].reply]

\* The request being served is the last one handled.
Serving == Last(handled)[1][1]

\* How a call completes: not yet, with an error, written (for a oneway call),
\* or with the frame that answers it, which holds a result or an exception.
None == [kind |-> "none", frame |-> << >>]
Error == [kind |-> "error", frame |-> << >>]
Sent == [kind |-> "sent", frame |-> << >>]

Drop(stream, n) == SubSeq(stream, n + 1, Len(stream))

\* Faulty variants of helpers below.
CompleteAgain(res) == outcome' = [outcome EXCEPT ![pending] = res] /\ UNCHANGED pending

IsOneway(k) == script[k].oneway

\* A oneway function writes nothing to the output buffer.
Reply(k) == IF IsOneway(k) THEN << >> ELSE FrameBytes(k, ReplySize)

-------------------------------------------------------------------------------
Init ==
  /\ \E session \in Sessions :
       async_rpc = session.async_rpc /\ script = session.script /\ sockets = session.sockets
  /\ sent = << >>
  /\ calls = 0 /\ pending = 0
  /\ outcome = [k \in Ids |-> None]
  /\ client = NewConnection
  /\ server = Restart(NewConnection)
  /\ toServer = << >> /\ toClient = << >>
  /\ handled = << >>

-------------------------------------------------------------------------------
(* The client *)

\* complete_pending_op.
CompletePendingOp(res) ==
  /\ outcome' = [outcome EXCEPT ![pending] = res]
  /\ pending' = 0

\* fill_result, or the receiving half of a synchronous call.  The reply to an
\* asynchronous call of a void function is not read, so that its exception is
\* taken for success.
FillResult(k, frame) ==
  [kind |-> IF script[k].fails /\ (script[k].sync \/ ~script[k].void)
              THEN "exception" ELSE "reply",
   frame |-> frame]

\* The generated call on an open connection, asynchronous or synchronous.
Call ==
  /\ client.op = "idle"
  /\ calls < Len(script)
  /\ calls' = calls + 1
  /\ pending' = calls + 1
  /\ client' = [client EXCEPT !.op = IF script[calls + 1].sync THEN "sync_write" ELSE "write"]
  /\ UNCHANGED <<sessionVars, socketVars, outcome, server, toServer, toClient, handled>>

\* The generated call without an open connection calls back, or throws, at once.
CallNotConnected ==
  /\ client.op \in {"closed", "detached"} /\ pending = 0
  /\ calls < Len(script)
  /\ calls' = calls + 1
  /\ outcome' = [outcome EXCEPT ![calls + 1] = Error]
  /\ UNCHANGED <<sessionVars, socketVars, pending, client, server, toServer, toClient, handled>>

\* The request is in the stream, or gone if nobody reads.
SendRequest ==
  /\ toServer' = IF server.op = "closed" THEN toServer
                 ELSE toServer \o FrameBytes(pending, RequestSize)
  /\ sent' = Append(sent, pending)

\* AsyncThriftClient::on_handle_write.
ClientWrite ==
  /\ client.op = "write"
  /\ SendRequest
  /\ IF IsOneway(pending)
       THEN CompletePendingOp(Sent) /\ client' = [client EXCEPT !.op = "idle"]
       ELSE client' = Restart(client) /\ UNCHANGED <<outcome, pending>>
  /\ UNCHANGED <<sessionVars, sockets, calls, server, toClient, handled>>

\* AsyncThriftClient::on_handle_read and on_handle_frame.
ClientRead ==
  /\ client.op = "read"
  /\ \E n \in Readable(client, Len(toClient)) :
       LET c == Received(client, SubSeq(toClient, 1, n), ReplySize)
       IN /\ toClient' = Drop(toClient, n)
          /\ CASE c.op = "frame" -> /\ client' = [c EXCEPT !.op = "idle"]
                                    /\ CompletePendingOp(FillResult(pending, Frame(c)))
               [] c.op = "closed" -> client' = c /\ CompletePendingOp(Error)
               [] OTHER -> client' = c /\ UNCHANGED <<outcome, pending>>
  /\ UNCHANGED <<sessionVars, socketVars, calls, server, toServer, handled>>

\* The generated synchronous call: the request is written ...
SyncWrite ==
  /\ client.op = "sync_write"
  /\ SendRequest
  /\ IF IsOneway(pending)
       THEN CompletePendingOp(Sent) /\ client' = [client EXCEPT !.op = "idle"]
       ELSE client' = [client EXCEPT !.op = "sync_read"] /\ UNCHANGED <<outcome, pending>>
  /\ UNCHANGED <<sessionVars, sockets, calls, server, toClient, handled>>

\* ... and the header of the reply read, then the rest.
SyncRead ==
  /\ client.op = "sync_read"
  /\ Len(toClient) >= kFrameSize
  /\ LET n == GetFrameSize(toClient, ReplySize)
         all == IF Legal(n) THEN kFrameSize + n ELSE kFrameSize
         frame == SubSeq(toClient, 1, all)
     IN /\ Len(toClient) >= all
        /\ toClient' = Drop(toClient, all)
        /\ IF Legal(n)
             THEN /\ client' = [client EXCEPT !.buf = frame, !.room = all,
                                              !.frame_size = n, !.op = "idle"]
                  /\ CompletePendingOp(FillResult(pending, frame))
             ELSE client' = Closed(client) /\ CompletePendingOp(Error)
  /\ UNCHANGED <<sessionVars, socketVars, calls, server, toServer, handled>>

\* A read or a write fails, and on_close completes the call: the server has
\* closed the connection, or the user has, for instance on a timeout.  A synchronous call
\* closes and throws.  What a write had sent by then is left out: it ends short of a
\* frame, or the frame is executed for nobody.
ClientFail ==
  /\ client.op \in {"read", "write", "sync_read", "sync_write"}
  /\ client' = Closed(client)
  /\ CompletePendingOp(Error)
  /\ UNCHANGED <<sessionVars, socketVars, calls, server, toServer, toClient, handled>>

ClientEof == server.op = "closed" /\ toClient = << >> /\ ClientFail

\* The user closes a connection without a call in progress, or lets go of the
\* socket that was detached.
ClientClose ==
  /\ client.op \in {"idle", "detached"}
  /\ client' = Closed(client)
  /\ UNCHANGED <<sessionVars, socketVars, calls, pending, outcome, server, toServer, toClient, handled>>

\* detach() and attach() throw while a call is in progress.
Detach ==
  /\ client.op = "idle"
  /\ client' = [client EXCEPT !.op = "detached"]
  /\ UNCHANGED <<sessionVars, socketVars, calls, pending, outcome, server, toServer, toClient, handled>>

\* The client, or another one, is attached to the socket.
Reattach ==
  /\ client.op = "detached"
  /\ \E c \in {client, NewConnection} : client' = [c EXCEPT !.op = "idle"]
  /\ UNCHANGED <<sessionVars, socketVars, calls, pending, outcome, server, toServer, toClient, handled>>

\* The client closes its socket, if it has one, and is attached to another.
Attach ==
  /\ sockets > 0 /\ client.op \in {"idle", "closed", "detached"}
  /\ sockets' = sockets - 1
  /\ client' = [client EXCEPT !.op = "idle"]
  /\ server' = Restart(NewConnection)
  /\ toServer' = << >> /\ toClient' = << >>
  /\ sent' = << >> /\ handled' = << >>
  /\ UNCHANGED <<sessionVars, calls, pending, outcome>>

-------------------------------------------------------------------------------
(* The server *)

\* AsyncProcessor::process calls the function, or calls back with an error, if
\* the message is none or names no function.
Process(c) == {[c EXCEPT !.op = "rpc"], Closed(c)}

\* on_handle_frame: process() may throw too.  A synchronous processor is done with
\* the frame when it returns, and has a reply to any message.
OnHandleFrame(c) == IF async_rpc THEN Process(c) ELSE {[c EXCEPT !.op = "write"], Closed(c)}

\* What follows handle_buffer in the same handler: a frame that is complete is
\* processed.
Handle(c) ==
  IF c.op = "frame"
    THEN handled' = Append(handled, Frame(c)) /\ server' \in OnHandleFrame(c)
    ELSE server' = c /\ UNCHANGED handled

ServerRead ==
  /\ server.op = "read"
  /\ \E n \in Readable(server, Len(toServer)) :
       /\ toServer' = Drop(toServer, n)
       /\ Handle(Received(server, SubSeq(toServer, 1, n), RequestSize))
  /\ UNCHANGED <<sessionVars, socketVars, calls, pending, outcome, client, toClient>>

\* Nothing more will come from the client.
ServerEof ==
  /\ server.op = "read"
  /\ client.op = "closed" /\ toServer = << >>
  /\ server' = Closed(server)
  /\ UNCHANGED <<sessionVars, socketVars, calls, pending, outcome, client, toServer, toClient, handled>>

\* Connection::async_process, when the asynchronous handler calls back: an
\* error closes the connection, the exception for the client being dropped; a
\* oneway call goes on receiving.
AsyncProcess ==
  /\ server.op = "rpc"
  /\ \/ server' = Closed(server)
     \/ /\ ~script[Serving].fails
        /\ server' = IF IsOneway(Serving) THEN Continue(server)
                                          ELSE [server EXCEPT !.op = "write"]
  /\ UNCHANGED <<sessionVars, socketVars, calls, pending, outcome, client, toServer, toClient, handled>>

ServerWrite ==
  /\ server.op = "write"
  /\ toClient' = IF client.op = "closed" THEN toClient ELSE toClient \o Reply(Serving)
  /\ \E c \in Written(server, RequestSize) : Handle(c)
  /\ UNCHANGED <<sessionVars, socketVars, calls, pending, outcome, client, toServer>>

ServerWriteFail ==
  /\ server.op = "write"
  /\ client.op = "closed"
  /\ server' = Closed(server)
  /\ UNCHANGED <<sessionVars, socketVars, calls, pending, outcome, client, toServer, toClient, handled>>

\* All calls are made and the connection is left open, or both ends are closed.
Done ==
  /\ calls = Len(script) /\ pending = 0
  /\ server.op = "closed" \/ server.op = "undefined"
     \/ (server.op = "read" /\ client.op \in {"idle", "detached"})
  /\ UNCHANGED vars

-------------------------------------------------------------------------------
ClientStep == ClientWrite \/ ClientRead \/ SyncWrite \/ SyncRead \/ ClientEof
ServerStep == ServerRead \/ ServerEof \/ AsyncProcess \/ ServerWrite

Next ==
  \/ Call \/ CallNotConnected \/ ClientWrite \/ ClientRead
  \/ SyncWrite \/ SyncRead \/ ClientFail \/ ClientClose
  \/ Detach \/ Reattach \/ Attach
  \/ ServerRead \/ ServerEof \/ AsyncProcess \/ ServerWrite \/ ServerWriteFail
  \/ Done

Spec == Init /\ [][Next]_vars

\* The operations of asio complete once they can, and the asynchronous
\* handlers of the server call back.
FairSpec == Spec /\ WF_vars(ClientStep) /\ WF_vars(ServerStep)

-------------------------------------------------------------------------------
\* What the sessions must be like for the server.  With asynchronous handlers it
\* means to handle oneway calls (async_server.cpp:266-269), but executes them again
\* and again, as ExecutedOnce shows: so none of these ...
OnewaySynchronous(sessions) ==
  \A session \in sessions : session.async_rpc =>
    \A k \in DOMAIN session.script : ~session.script[k].oneway

\* ... and it moves what is behind a frame to the front of the buffer with a memcpy,
\* which must not overlap: behind a oneway request comes one that is no longer,
\* and that is not a oneway request itself unless it is the last one.
OnewayFits(sessions) ==
  \A session \in sessions : \A k, j \in DOMAIN session.script :
    session.script[k].oneway /\ j > k =>
      /\ session.script[j].request <= session.script[k].request
      /\ session.script[j].oneway => j = Len(session.script)

-------------------------------------------------------------------------------
Stream(size) == UNION {ToSet(FrameBytes(k, size)) : k \in Ids}

\* Neither side reads or copies memory outside what the buffers allow
\* (async_connection.h:307, bytes_recv_ <= recv_buffer_.size()).
NoMemoryError ==
  \A c \in {client, server} : c.op # "undefined" /\ Len(c.buf) <= c.room

\* The type of every variable; and no memory error, whatever the stream brings
\* together in a buffer that earlier frames, calls or sockets have left.
TypeOK ==
  /\ async_rpc \in BOOLEAN /\ sockets \in Nat
  /\ calls \in 0..Len(script) /\ pending \in 0..Len(script)
  /\ ToSet(sent) \subseteq Ids
  /\ \A c \in {client, server} :
       c.op \in Op \ {"frame"} /\ c.state \in {"kReadFrameSize", "kReadFrame"}
  /\ ToSet(toServer) \subseteq Stream(RequestSize)
  /\ ToSet(toClient) \subseteq Stream(ReplySize)
  /\ NoMemoryError

\* The server processes the frames that were sent, whole, in order and once
\* each, however the stream cuts them up or joins them.
ExecutedOnce ==
  \A i \in DOMAIN handled : i <= Len(sent) /\ handled[i] = FrameBytes(sent[i], RequestSize)

\* A call completes with its own reply, never with one to an earlier call, of this
\* client or of another one on the socket, and after the server has processed
\* it; and it succeeds only if the function did, or is void and was called
\* asynchronously.
OwnReply ==
  \A k \in Ids :
    outcome[k].kind \in {"reply", "exception"} =>
      /\ outcome[k].frame = FrameBytes(k, ReplySize)
      /\ k \in ToSet(sent) => FrameBytes(k, RequestSize) \in ToSet(handled)
      /\ script[k].fails =>
           ~async_rpc /\ (outcome[k].kind = "exception" \/ (script[k].void /\ ~script[k].sync))

\* Every call completes, with its reply or with an error; and a connection of the
\* server, which nothing else deletes, ends once its client has closed (unless
\* the client has another one by then).
CallsAndConnectionsEnd ==
  /\ \A k \in 1..3 : pending = k ~> pending # k
  /\ client.op = "closed" ~> server.op = "closed" \/ client.op # "closed"
=============================================================================
