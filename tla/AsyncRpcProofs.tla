---------------------------- MODULE AsyncRpcProofs ----------------------------
(***************************************************************************)
(* Theorems about AsyncRpc: that it implements AsyncCalls, for every set   *)
(* of sessions; and for every set of sessions of the kind that the server  *)
(* supports, that the frames in its streams are processed once, in order,  *)
(* that a call has its own reply, and that no buffer is overrun.           *)
(***************************************************************************)
EXTENDS AsyncRpcCalls, SequenceTheorems, TLAPS

Fields == {"buf", "room", "frame_size", "state", "op"}

\* What the client's operation tells of the call in progress: there is one
\* exactly while the client waits for the network, and it is not a oneway call
\* while the client waits for an answer.
Busy == {"read", "write", "sync_write", "sync_read", "undefined"}
Awaiting == {"read", "sync_read"}

OpInv ==
  /\ DOMAIN client = Fields
  /\ client.op \in Busy <=> pending # 0
  /\ client.op \in Awaiting => ~IsOneway(pending)

\* Only the last call may be in progress, and neither it nor one that was not
\* made has an outcome.
OutcomeInv ==
  /\ Len(script) \in Nat
  /\ calls \in 0..Len(script)
  /\ pending \in {0, calls}
  /\ DOMAIN outcome = Ids
  /\ \A k \in Ids : k > calls \/ k = pending => outcome[k].kind = "none"

CallsInv == OpInv /\ OutcomeInv

-------------------------------------------------------------------------------
\* What the handlers of a connection make of it: a record with the same fields,
\* which reads, has a frame, is closed or has gone wrong.
LEMMA HandlerOps ==
  ASSUME NEW c, DOMAIN c = Fields, NEW size, NEW bytes
  PROVE  /\ DOMAIN Received(c, bytes, size) = Fields
         /\ Received(c, bytes, size).op \in {"read", "frame", "closed", "undefined"}
<1> DEFINE d == [c EXCEPT !.buf = @ \o bytes]
<1>1. DOMAIN d = Fields
  OBVIOUS
<1>2. ASSUME NEW r, DOMAIN r = Fields
      PROVE  /\ DOMAIN HandleFrame(r) = Fields
             /\ HandleFrame(r).op \in {"read", "frame", "undefined"}
  BY <1>2 DEF HandleFrame, Continue, Fields
<1>3. DOMAIN Continue(d) = Fields /\ Continue(d).op \in {"read", "undefined"}
  BY <1>1 DEF Continue, Fields
<1>4. DOMAIN Closed(d) = Fields /\ Closed(d).op = "closed"
  BY <1>1 DEF Closed, Fields
<1>5. ASSUME NEW n
      PROVE  DOMAIN [d EXCEPT !.frame_size = n, !.state = "kReadFrame"] = Fields
  BY <1>1 DEF Fields
<1> HIDE DEF d
<1>6. /\ DOMAIN HandleBuffer(d, size) = Fields
      /\ HandleBuffer(d, size).op \in {"read", "frame", "closed", "undefined"}
  BY <1>1, <1>2, <1>3, <1>4, <1>5 DEF HandleBuffer
<1> QED
  BY <1>6 DEF Received, d

LEMMA Initially == Init => CallsInv /\ Calls!Init
<1> SUFFICES ASSUME Init PROVE CallsInv /\ Calls!Init
  OBVIOUS
<1>1. script \in Seq(CallRecord)
  BY SessionAssumption DEF Init
<1>2. Len(script) \in Nat
  BY <1>1
<1>3. OutcomeInv
  BY <1>2 DEF Init, OutcomeInv, Ids, None
<1>4. OpInv
  BY DEF Init, OpInv, NewConnection, Fields, Busy, Awaiting
<1>5. Calls!Init
  BY DEF Init, Calls!Init, None
<1> QED
  BY <1>3, <1>4, <1>5 DEF CallsInv

-------------------------------------------------------------------------------
\* A step that neither makes a call nor completes one, as the user sees it.
LEMMA Unseen ==
  ASSUME OutcomeInv, UNCHANGED <<script, calls, pending, outcome>>
  PROVE  OutcomeInv' /\ UNCHANGED Calls!callVars
BY DEF OutcomeInv, Ids, IsOneway, Calls!callVars

\* Completing the call in progress with one of its results is calling back.
LEMMA Completes ==
  ASSUME OutcomeInv, pending # 0,
         NEW res, res.kind \in {"error", "sent", "reply", "exception"},
         res.kind = "sent" => IsOneway(pending),
         res.kind \in {"reply", "exception"} => ~IsOneway(pending),
         CompletePendingOp(res), UNCHANGED <<script, calls>>
  PROVE  OutcomeInv' /\ Calls!CallBack /\ pending' = 0
<1>1. pending \in Ids /\ outcome[pending].kind = "none" /\ pending = calls
  BY DEF OutcomeInv, Ids
<1>2. /\ DOMAIN outcome' = Ids /\ Ids' = Ids /\ pending' = 0
      /\ \A k \in Ids : outcome'[k] = IF k = pending THEN res ELSE outcome[k]
  BY <1>1 DEF OutcomeInv, CompletePendingOp, Ids
<1>3. OutcomeInv'
  BY <1>1, <1>2 DEF OutcomeInv, Ids
<1> DEFINE kinds == [k \in Ids |-> outcome[k].kind]
<1>4. [k \in Ids |-> outcome[k].kind]' = [kinds EXCEPT ![pending] = res.kind]
  BY <1>1, <1>2
<1>5. res.kind \in Calls!Results(pending)
  BY <1>1 DEF Calls!Results
<1>6. {k \in Ids : IsOneway(k)}' = {k \in Ids : IsOneway(k)}
  BY DEF Ids, IsOneway
<1>7. Calls!CallBack
  BY <1>1, <1>2, <1>4, <1>5, <1>6 DEF Calls!CallBack
<1> QED
  BY <1>2, <1>3, <1>7

\* The operation of the client is left alone, with the call in progress.
LEMMA SameOp ==
  ASSUME OpInv, UNCHANGED <<client, pending, script>>
  PROVE  OpInv'
BY DEF OpInv, IsOneway

\* FillResult gives a reply or an exception; a new value of the operation is
\* all that changes in a record.
LEMMA Filled ==
  ASSUME NEW k, NEW frame
  PROVE  FillResult(k, frame).kind \in {"reply", "exception"}
BY DEF FillResult

LEMMA OpOnly ==
  ASSUME NEW c, DOMAIN c = Fields, NEW o
  PROVE  DOMAIN [c EXCEPT !.op = o] = Fields /\ [c EXCEPT !.op = o].op = o
BY DEF Fields

LEMMA RestartOp ==
  ASSUME NEW c, DOMAIN c = Fields
  PROVE  DOMAIN Restart(c) = Fields /\ Restart(c).op = "read"
BY DEF Restart, Fields

-------------------------------------------------------------------------------
\* Every step is a step of the calls, or none, and keeps the invariant.
LEMMA CallsStep == CallsInv /\ [Next]_vars => CallsInv' /\ [Calls!Next]_(Calls!callVars)
<1> SUFFICES ASSUME OpInv, OutcomeInv, [Next]_vars
             PROVE  OpInv' /\ OutcomeInv' /\ [Calls!Next]_(Calls!callVars)
  BY DEF CallsInv
<1> USE DEF sessionVars, socketVars
<1>0. /\ DOMAIN client = Fields
      /\ pending = 0 => client.op \notin Busy
      /\ client.op \in Busy => pending # 0
      /\ client.op \in Awaiting => ~IsOneway(pending)
  BY DEF OpInv
<1>1. CASE Call
  <2>1. pending = 0 /\ calls + 1 \in Ids
    BY <1>0, <1>1 DEF Call, Busy, OutcomeInv, Ids, OpInv
  <2>2. /\ DOMAIN client' = Fields
        /\ client'.op \in {"sync_write", "write"}
    BY <1>0, <1>1, OpOnly DEF Call
  <2>3. OpInv'
    BY <1>1, <2>1, <2>2 DEF Call, OpInv, Busy, Awaiting, Ids
  <2>4. OutcomeInv'
    BY <1>1, <2>1 DEF Call, OutcomeInv, Ids
  <2>5. Calls!Begin
    BY <1>1, <2>1 DEF Call, Calls!Begin, Ids, IsOneway
  <2> QED
    BY <2>3, <2>4, <2>5 DEF Calls!Next
<1>2. CASE CallNotConnected
  <2>1. pending = 0 /\ calls + 1 \in Ids
    BY <1>2 DEF CallNotConnected, OutcomeInv, Ids
  <2>2. /\ DOMAIN outcome' = Ids /\ Ids' = Ids
        /\ \A k \in Ids : outcome'[k] = IF k = calls + 1 THEN Error ELSE outcome[k]
    BY <1>2, <2>1 DEF CallNotConnected, OutcomeInv, Ids
  <2>3. OutcomeInv'
    BY <1>2, <2>1, <2>2 DEF CallNotConnected, OutcomeInv, Ids
  <2> DEFINE kinds == [k \in Ids |-> outcome[k].kind]
  <2>4. [k \in Ids |-> outcome[k].kind]' = [kinds EXCEPT ![calls + 1] = "error"]
    <3> DEFINE next == calls + 1
    <3>1. next \in Ids /\ Error.kind = "error" /\ Ids' = Ids
      BY <2>1, <2>2 DEF Error
    <3>2. \A k \in Ids : outcome'[k] = IF k = next THEN Error ELSE outcome[k]
      BY <2>2
    <3> HIDE DEF next
    <3>3. [k \in Ids |-> outcome[k].kind]' = [kinds EXCEPT ![next] = "error"]
      BY <3>1, <3>2
    <3> QED
      BY <3>3 DEF next
  <2>5. Calls!BeginFails
    BY <1>2, <2>1, <2>4 DEF CallNotConnected, Calls!BeginFails, Ids, IsOneway
  <2>6. OpInv'
    BY <1>2, SameOp DEF CallNotConnected
  <2> QED
    BY <2>3, <2>5, <2>6 DEF Calls!Next
<1>3. ASSUME ClientWrite \/ SyncWrite
      PROVE  OpInv' /\ OutcomeInv' /\ [Calls!Next]_(Calls!callVars)
  <2>1. pending # 0 /\ UNCHANGED <<script, calls>>
    BY <1>0, <1>3 DEF ClientWrite, SyncWrite, Busy
  <2>2. CASE IsOneway(pending)
    <3>1. CompletePendingOp(Sent) /\ client' = [client EXCEPT !.op = "idle"]
      BY <1>3, <2>2 DEF ClientWrite, SyncWrite
    <3>2. OutcomeInv' /\ Calls!CallBack /\ pending' = 0
      BY <2>1, <2>2, <3>1, Completes DEF Sent
    <3>3. OpInv'
      BY <1>0, <3>1, <3>2, OpOnly DEF OpInv, Busy, Awaiting
    <3> QED
      BY <3>2, <3>3 DEF Calls!Next
  <2>3. CASE ~IsOneway(pending)
    <3>1. UNCHANGED <<script, calls, pending, outcome>>
      BY <1>3, <2>3 DEF ClientWrite, SyncWrite
    <3>2. client' = Restart(client) \/ client' = [client EXCEPT !.op = "sync_read"]
      BY <1>3, <2>3 DEF ClientWrite, SyncWrite
    <3>3. DOMAIN client' = Fields /\ client'.op \in {"read", "sync_read"}
      BY <1>0, <3>2, OpOnly, RestartOp
    <3>4. OpInv'
      BY <2>1, <2>3, <3>1, <3>3 DEF OpInv, Busy, Awaiting, IsOneway
    <3> QED
      BY <3>1, <3>4, Unseen
  <2> QED
    BY <2>2, <2>3
<1>4. CASE ClientRead
  <2>1. pending # 0 /\ ~IsOneway(pending) /\ UNCHANGED <<script, calls>>
    BY <1>0, <1>4 DEF ClientRead, Busy, Awaiting
  <2>2. PICK bytes :
          LET c == Received(client, bytes, ReplySize)
          IN  CASE c.op = "frame" -> /\ client' = [c EXCEPT !.op = "idle"]
                                     /\ CompletePendingOp(FillResult(pending, Frame(c)))
                [] c.op = "closed" -> client' = c /\ CompletePendingOp(Error)
                [] OTHER -> client' = c /\ UNCHANGED <<outcome, pending>>
    BY <1>4 DEF ClientRead
  <2> DEFINE c == Received(client, bytes, ReplySize)
  <2>3. DOMAIN c = Fields /\ c.op \in {"read", "frame", "closed", "undefined"}
    BY <1>0, HandlerOps
  <2> HIDE DEF c
  <2>4. CASE c.op = "frame"
    <3>1. client' = [c EXCEPT !.op = "idle"] /\ CompletePendingOp(FillResult(pending, Frame(c)))
      BY <2>2, <2>4 DEF c
    <3>2. OutcomeInv' /\ Calls!CallBack /\ pending' = 0
      <4> DEFINE res == FillResult(pending, Frame(c))
      <4>1. res.kind \in {"reply", "exception"}
        BY Filled
      <4>2. CompletePendingOp(res)
        BY <3>1
      <4> HIDE DEF res
      <4> QED
        BY <2>1, <4>1, <4>2, Completes
    <3>3. OpInv'
      BY <2>3, <3>1, <3>2, OpOnly DEF OpInv, Busy, Awaiting
    <3> QED
      BY <3>2, <3>3 DEF Calls!Next
  <2>5. CASE c.op = "closed"
    <3>1. client' = c /\ CompletePendingOp(Error)
      BY <2>2, <2>5 DEF c
    <3>2. OutcomeInv' /\ Calls!CallBack /\ pending' = 0
      BY <2>1, <3>1, Completes DEF Error
    <3>3. OpInv'
      BY <2>3, <2>5, <3>1, <3>2 DEF OpInv, Busy, Awaiting
    <3> QED
      BY <3>2, <3>3 DEF Calls!Next
  <2>6. CASE c.op \in {"read", "undefined"}
    <3>1. client' = c /\ UNCHANGED <<outcome, pending>>
      BY <2>2, <2>6 DEF c
    <3>2. OpInv'
      BY <2>1, <2>3, <2>6, <3>1 DEF OpInv, Busy, Awaiting, IsOneway
    <3> QED
      BY <2>1, <3>1, <3>2, Unseen
  <2> QED
    BY <2>3, <2>4, <2>5, <2>6
<1>5. CASE SyncRead
  <2>1. pending # 0 /\ ~IsOneway(pending) /\ UNCHANGED <<script, calls>>
    BY <1>0, <1>5 DEF SyncRead, Busy, Awaiting
  <2>2. PICK res :
          /\ res.kind \in {"reply", "exception", "error"} /\ CompletePendingOp(res)
          /\ DOMAIN client' = Fields /\ client'.op \in {"idle", "closed"}
    <3>1. PICK n, frame, all :
            IF Legal(n)
              THEN /\ client' = [client EXCEPT !.buf = frame, !.room = all,
                                               !.frame_size = n, !.op = "idle"]
                   /\ CompletePendingOp(FillResult(pending, frame))
              ELSE client' = Closed(client) /\ CompletePendingOp(Error)
      BY <1>5 DEF SyncRead
    <3>2. CASE Legal(n)
      <4>1. DOMAIN client' = Fields /\ client'.op = "idle"
        BY <1>0, <3>1, <3>2 DEF Fields
      <4> QED
        BY <3>1, <3>2, <4>1, Filled
    <3>3. CASE ~Legal(n)
      BY <1>0, <3>1, <3>3, OpOnly DEF Closed, Error
    <3> QED
      BY <3>2, <3>3
  <2>3. OutcomeInv' /\ Calls!CallBack /\ pending' = 0
    BY <2>1, <2>2, Completes
  <2>4. OpInv'
    BY <2>2, <2>3 DEF OpInv, Busy, Awaiting
  <2> QED
    BY <2>3, <2>4 DEF Calls!Next
<1>6. CASE ClientFail
  <2>1. pending # 0 /\ UNCHANGED <<script, calls>>
    BY <1>0, <1>6 DEF ClientFail, Busy
  <2>2. client' = Closed(client) /\ CompletePendingOp(Error)
    BY <1>6 DEF ClientFail
  <2>3. OutcomeInv' /\ Calls!CallBack /\ pending' = 0
    BY <2>1, <2>2, Completes DEF Error
  <2>4. OpInv'
    BY <1>0, <2>2, <2>3, OpOnly DEF Closed, OpInv, Busy, Awaiting
  <2> QED
    BY <2>3, <2>4 DEF Calls!Next
<1>7. ASSUME ClientClose \/ Detach \/ Reattach \/ Attach
      PROVE  OpInv' /\ OutcomeInv' /\ [Calls!Next]_(Calls!callVars)
  <2>1. pending = 0 /\ UNCHANGED <<script, calls, pending, outcome>>
    BY <1>7 DEF ClientClose, Detach, Reattach, Attach, OpInv, Busy
  <2>2. DOMAIN NewConnection = Fields
    BY DEF NewConnection, Fields
  <2>3. \E c \in {client, NewConnection}, op \in {"idle", "detached", "closed"} :
          client' = [c EXCEPT !.op = op]
    BY <1>7, Zenon DEF ClientClose, Detach, Reattach, Attach, Closed
  <2>4. DOMAIN client' = Fields /\ client'.op \in {"idle", "detached", "closed"}
    BY <1>0, <2>2, <2>3, OpOnly
  <2>5. OpInv'
    BY <2>1, <2>4 DEF OpInv, Busy, Awaiting
  <2> QED
    BY <2>1, <2>5, Unseen
<1>8. ASSUME \/ ServerRead \/ ServerEof \/ AsyncProcess \/ ServerWrite \/ ServerWriteFail
             \/ Done \/ UNCHANGED vars
      PROVE  OpInv' /\ OutcomeInv' /\ [Calls!Next]_(Calls!callVars)
  <2>1. UNCHANGED <<script, calls, pending, outcome, client>>
    BY <1>8 DEF ServerRead, ServerEof, AsyncProcess, ServerWrite, ServerWriteFail, Done, vars
  <2> QED
    BY <2>1, Unseen, SameOp
<1> QED
  BY <1>1, <1>2, <1>3, <1>4, <1>5, <1>6, <1>7, <1>8 DEF Next

\* An asynchronous client keeps its promise to its user for every script, every
\* size of its frames and of the buffers, and whatever the server, the streams
\* and other users of its sockets do (async_client.cpp).
THEOREM CallsKept == Spec => ImplementsCalls
<1>1. CallsInv /\ [Next]_vars => CallsInv' /\ [Calls!Next]_(Calls!callVars)
  BY CallsStep
<1>2. Init => CallsInv /\ Calls!Init
  BY Initially
<1> QED
  BY <1>1, <1>2, PTL DEF Spec, ImplementsCalls, Calls!Spec

-------------------------------------------------------------------------------
(* Bytes, frames and what a connection makes of them. *)

Byte == Nat \X Nat
Connection ==
  [buf : Seq(Byte), room : Nat, frame_size : Nat,
   state : {"kReadFrameSize", "kReadFrame"}, op : Op]

\* What a connection is like between two handlers: its buffer holds its bytes, and a
\* header; one that reads does not have the whole header, or has it and not the
\* whole frame, for which there is room.
ConnInv(c) ==
  /\ c \in Connection
  /\ c.room >= kFrameSize /\ Len(c.buf) <= c.room
  /\ c.op = "read" /\ c.state = "kReadFrameSize" => Len(c.buf) < kFrameSize
  /\ c.op = "read" /\ c.state = "kReadFrame" =>
       /\ Len(c.buf) > 0 /\ Legal(c.frame_size)
       /\ Len(c.buf) < c.frame_size + kFrameSize
       /\ c.room = c.frame_size + kFrameSize

\* buf holds frame k, or the beginning of it, and perhaps more.
Begins(buf, k, size) ==
  \A i \in 1..Len(buf) : i <= kFrameSize + size[k] => buf[i] = <<k, i>>

\* What handle_buffer makes of connection c when its bytes begin with frame k.
HandledTo(r, c, k, size) ==
  /\ r \in Connection /\ r.buf = c.buf
  /\ \/ r.op = "closed" /\ r.room = c.room
     \/ /\ r.op = "frame" /\ r.room = c.room /\ r.frame_size = size[k]
        /\ Complete(r) /\ Frame(r) = FrameBytes(k, size)
     \/ /\ r.op = "read" /\ r.state = "kReadFrameSize" /\ r.room = c.room
        /\ Len(r.buf) < kFrameSize
     \/ /\ r.op = "read" /\ r.state = "kReadFrame" /\ r.frame_size = size[k]
        /\ Legal(size[k]) /\ Len(r.buf) < size[k] + kFrameSize
        /\ r.room = size[k] + kFrameSize

LEMMA FrameIsBytes ==
  ASSUME NEW k \in Nat, NEW size, size[k] \in Nat
  PROVE  /\ FrameBytes(k, size) \in Seq(Byte)
         /\ Len(FrameBytes(k, size)) = kFrameSize + size[k]
         /\ \A i \in 1..(kFrameSize + size[k]) : FrameBytes(k, size)[i] = <<k, i>>
<1> DEFINE m == kFrameSize + size[k]
<1>1. m \in Nat
  BY SizeAssumption
<1>2. FrameBytes(k, size) = [i \in 1..m |-> <<k, i>>]
  BY DEF FrameBytes
<1> HIDE DEF m
<1>3. [i \in 1..m |-> <<k, i>>] \in [1..m -> Byte]
  BY <1>1 DEF Byte
<1>4. FrameBytes(k, size) \in Seq(Byte)
  BY <1>1, <1>2, <1>3, SeqDef
<1>5. Len(FrameBytes(k, size)) = m
  BY <1>1, <1>2, <1>3, <1>4, LenProperties
<1> QED
  BY <1>2, <1>4, <1>5 DEF m

LEMMA FrameOf ==
  ASSUME NEW k \in Nat, NEW size, size[k] \in Nat,
         NEW buf \in Seq(Byte), Begins(buf, k, size), Len(buf) >= size[k] + kFrameSize
  PROVE  SubSeq(buf, 1, size[k] + kFrameSize) = FrameBytes(k, size)
<1> DEFINE m == size[k] + kFrameSize
           s == SubSeq(buf, 1, m)
<1>1. m \in Nat /\ Len(buf) \in Nat /\ m <= Len(buf)
  BY SizeAssumption, LenProperties
<1>2. \A i \in 1..m : buf[i] = <<k, i>> /\ buf[i] \in Byte
  <2>1. \A i \in 1..Len(buf) : buf[i] \in Byte
    BY ElementOfSeq
  <2>2. \A i \in 1..m : i \in 1..Len(buf)
    BY <1>1
  <2>3. \A i \in 1..m : i <= kFrameSize + size[k]
    BY SizeAssumption
  <2> QED
    BY <2>1, <2>2, <2>3 DEF Begins
<1> HIDE DEF m
<1>3. s \in Seq(Byte) /\ Len(s) = m /\ \A i \in 1..m : s[i] = buf[i]
  BY <1>1, <1>2, SubSeqProperties
<1>4. FrameBytes(k, size) \in Seq(Byte) /\ Len(FrameBytes(k, size)) = m
  BY FrameIsBytes, SizeAssumption DEF m
<1>5. \A i \in 1..m : FrameBytes(k, size)[i] = <<k, i>>
  BY FrameIsBytes, SizeAssumption DEF m
<1> HIDE DEF s
<1>6. s = FrameBytes(k, size)
  BY <1>2, <1>3, <1>4, <1>5, SeqEqual
<1> QED
  BY <1>6 DEF s, m

LEMMA HandleBufferTo ==
  ASSUME NEW c \in Connection, NEW k \in Nat, NEW size, size[k] \in Nat,
         Len(c.buf) > 0, Len(c.buf) <= c.room, Begins(c.buf, k, size),
         c.state = "kReadFrame" => c.frame_size = size[k] /\ Legal(size[k])
  PROVE  HandledTo(HandleBuffer(c, size), c, k, size)
<1>1. kFrameSize \in Nat /\ kFrameSize > 0 /\ Len(c.buf) \in Nat
  BY SizeAssumption, LenProperties DEF Connection
<1>2. ASSUME NEW e \in Connection, e.buf = c.buf, e.room = c.room, e.state = "kReadFrame",
             e.frame_size = size[k], Legal(size[k])
      PROVE  HandledTo(HandleFrame(e), c, k, size)
  <2>1. CASE Complete(e)
    <3> DEFINE r == [e EXCEPT !.op = "frame"]
    <3>1. /\ r \in Connection /\ r.buf = c.buf /\ r.room = c.room
          /\ r.op = "frame" /\ r.frame_size = size[k]
      BY <1>2 DEF Connection, Op
    <3>2. Len(c.buf) >= size[k] + kFrameSize
      BY <1>2, <2>1 DEF Complete
    <3>3. c.buf \in Seq(Byte)
      BY DEF Connection
    <3>4. SubSeq(c.buf, 1, size[k] + kFrameSize) = FrameBytes(k, size)
      BY <3>2, <3>3, FrameOf
    <3>5. HandleFrame(e) = r
      BY <2>1 DEF HandleFrame
    <3> HIDE DEF r
    <3>6. Complete(r) /\ Frame(r) = FrameBytes(k, size)
      BY <3>1, <3>2, <3>4 DEF Complete, Frame
    <3> QED
      BY <3>1, <3>5, <3>6 DEF HandledTo
  <2>2. CASE ~Complete(e)
    <3> DEFINE r == [e EXCEPT !.room = size[k] + kFrameSize, !.op = "read"]
    <3>1. Len(e.buf) < size[k] + kFrameSize
      BY <1>1, <1>2, <2>2 DEF Complete
    <3>2. HandleFrame(e) = r
      <4>1. ~(Len(e.buf) > size[k] + kFrameSize)
        BY <1>1, <1>2, <3>1
      <4>2. Continue(e) = r
        BY <1>2, <4>1 DEF Continue
      <4> QED
        BY <2>2, <4>2 DEF HandleFrame
    <3>3. /\ r \in Connection /\ r.buf = c.buf /\ r.room = size[k] + kFrameSize
          /\ r.op = "read" /\ r.state = "kReadFrame" /\ r.frame_size = size[k]
      <4>1. size[k] + kFrameSize \in Nat
        BY <1>1
      <4> DEFINE total == size[k] + kFrameSize
      <4> HIDE DEF total
      <4>2. [e EXCEPT !.room = total, !.op = "read"] \in Connection
        BY <4>1 DEF Connection, Op, total
      <4> QED
        BY <1>2, <4>2 DEF Connection, total
    <3> HIDE DEF r
    <3> QED
      BY <1>2, <3>1, <3>2, <3>3 DEF HandledTo
  <2> QED
    BY <2>1, <2>2
<1>3. CASE c.state = "kReadFrame"
  BY <1>2, <1>3 DEF HandleBuffer
<1>4. CASE c.state = "kReadFrameSize" /\ Len(c.buf) < kFrameSize
  <2> DEFINE r == [c EXCEPT !.room = c.room, !.op = "read"]
  <2>1. HandleBuffer(c, size) = Continue(c)
    BY <1>4 DEF HandleBuffer
  <2>2. Continue(c) = r
    <3>1. ~(Len(c.buf) > c.room)
      BY <1>1 DEF Connection
    <3> QED
      BY <1>4, <3>1 DEF Continue
  <2>3. /\ r \in Connection /\ r.buf = c.buf /\ r.room = c.room /\ r.op = "read"
        /\ r.state = "kReadFrameSize"
    BY <1>4 DEF Connection, Op
  <2> HIDE DEF r
  <2> QED
    BY <1>4, <2>1, <2>2, <2>3 DEF HandledTo
<1>5. CASE c.state = "kReadFrameSize" /\ Len(c.buf) >= kFrameSize
  <2>1. c.buf[1] = <<k, 1>>
    BY <1>1 DEF Begins
  <2>2. GetFrameSize(c.buf, size) = size[k]
    BY <2>1 DEF GetFrameSize
  <2> DEFINE e == [c EXCEPT !.frame_size = size[k], !.state = "kReadFrame"]
  <2>3. HandleBuffer(c, size) = IF Legal(size[k]) THEN HandleFrame(e) ELSE Closed(c)
    BY <1>1, <1>5, <2>2 DEF HandleBuffer
  <2>4. /\ e \in Connection /\ e.buf = c.buf /\ e.room = c.room /\ e.state = "kReadFrame"
        /\ e.frame_size = size[k]
    BY DEF Connection
  <2>5. /\ Closed(c) \in Connection /\ Closed(c).buf = c.buf /\ Closed(c).room = c.room
        /\ Closed(c).op = "closed"
    BY DEF Closed, Connection, Op
  <2> HIDE DEF e
  <2> QED
    BY <1>2, <2>3, <2>4, <2>5 DEF HandledTo
<1> QED
  BY <1>1, <1>3, <1>4, <1>5 DEF Connection

-------------------------------------------------------------------------------
(* How the frames of a sequence lie in a stream of bytes. *)

Whole(k, size) == kFrameSize + size[k]

\* off[m] is the number of bytes before frame s[m], for the frames from the first
\* on, which fill stream u.
Offsets(off, u, first, s, size) ==
  /\ off \in [first..(Len(s) + 1) -> Nat]
  /\ off[first] = 0 /\ off[Len(s) + 1] = Len(u)
  /\ \A m \in first..Len(s) :
       /\ off[m + 1] = off[m] + Whole(s[m], size)
       /\ \A l \in (m + 1)..(Len(s) + 1) : off[m] + Whole(s[m], size) <= off[l]
       /\ \A i \in 1..Whole(s[m], size) : u[off[m] + i] = <<s[m], i>>

LaidOut(u, first, s, size) == \E off : Offsets(off, u, first, s, size)

LEMMA DropSeq ==
  ASSUME NEW S, NEW u \in Seq(S), NEW w \in Nat, w <= Len(u)
  PROVE  /\ SubSeq(u, w + 1, Len(u)) \in Seq(S)
         /\ Len(SubSeq(u, w + 1, Len(u))) = Len(u) - w
         /\ \A i \in 1..(Len(u) - w) : SubSeq(u, w + 1, Len(u))[i] = u[w + i]
<1> DEFINE N == Len(u)
           v == SubSeq(u, w + 1, N)
           L == Len(v)
<1>1. N \in Nat /\ w <= N
  BY LenProperties
<1>2. \A i \in 1..N : u[i] \in S
  BY ElementOfSeq
<1> HIDE DEF N
<1>3. w + 1 \in Int /\ N \in Int /\ \A i \in (w + 1)..N : u[i] \in S
  BY <1>1, <1>2
<1>4. /\ v \in Seq(S)
      /\ Len(v) = IF w + 1 <= N THEN N - (w + 1) + 1 ELSE 0
      /\ \A i \in 1..(N - (w + 1) + 1) : v[i] = u[(w + 1) + i - 1]
  BY <1>3, SubSeqProperties
<1> HIDE DEF v
<1>5. L = IF w + 1 <= N THEN N - (w + 1) + 1 ELSE 0
  BY <1>4
<1> HIDE DEF L
<1>6. L = N - w
  BY <1>1, <1>5
<1>7. ASSUME NEW i \in 1..(N - w) PROVE v[i] = u[w + i]
  <2>1. i \in 1..(N - (w + 1) + 1) /\ (w + 1) + i - 1 = w + i
    BY <1>1
  <2> QED
    BY <1>4, <2>1
<1> QED
  BY <1>4, <1>6, <1>7 DEF L, v, N

LEMMA TakeSeq ==
  ASSUME NEW S, NEW u \in Seq(S), NEW w \in Nat, w <= Len(u)
  PROVE  /\ SubSeq(u, 1, w) \in Seq(S)
         /\ Len(SubSeq(u, 1, w)) = w
         /\ \A i \in 1..w : SubSeq(u, 1, w)[i] = u[i]
<1> DEFINE v == SubSeq(u, 1, w)
           L == Len(v)
<1>1. 1 \in Int /\ w \in Int /\ \A i \in 1..w : u[i] \in S
  BY ElementOfSeq, LenProperties
<1>2. /\ v \in Seq(S)
      /\ L = IF 1 <= w THEN w - 1 + 1 ELSE 0
      /\ \A i \in 1..(w - 1 + 1) : v[i] = u[1 + i - 1]
  BY <1>1, SubSeqProperties
<1> HIDE DEF v, L
<1>3. L = w
  BY <1>2
<1>4. ASSUME NEW i \in 1..w PROVE v[i] = u[i]
  <2>1. i \in 1..(w - 1 + 1) /\ 1 + i - 1 = i
    OBVIOUS
  <2> QED
    BY <1>2, <2>1
<1> QED
  BY <1>2, <1>3, <1>4 DEF v, L

LEMMA WholeNat ==
  ASSUME NEW K, NEW s \in Seq(K), NEW size \in [K -> Nat]
  PROVE  \A m \in 1..Len(s) : Whole(s[m], size) \in Nat /\ Whole(s[m], size) > 0
<1>1. \A m \in 1..Len(s) : s[m] \in K
  BY ElementOfSeq
<1> QED
  BY <1>1, SizeAssumption DEF Whole

\* No frame is left, and no byte.
LEMMA LaidOutNone ==
  ASSUME NEW K, NEW s \in Seq(K), NEW size
  PROVE  LaidOut(<< >>, Len(s) + 1, s, size)
<1> DEFINE f == Len(s) + 1
           off == [m \in f..f |-> 0]
<1>1. Len(s) \in Nat /\ Len(<< >>) = 0
  BY LenProperties
<1>2. off \in [f..f -> Nat] /\ off[f] = 0 /\ f..Len(s) = {}
  BY <1>1
<1> HIDE DEF off
<1>3. Offsets(off, << >>, f, s, size)
  BY <1>1, <1>2 DEF Offsets
<1> QED
  BY <1>3 DEF LaidOut

\* There are no bytes and no frames, or the stream begins with the first frame.
LEMMA LaidOutFirst ==
  ASSUME NEW K, NEW s \in Seq(K), NEW size \in [K -> Nat], NEW u \in Seq(Byte),
         NEW first \in 1..(Len(s) + 1), LaidOut(u, first, s, size)
  PROVE  /\ Len(u) = 0 <=> first = Len(s) + 1
         /\ first <= Len(s) => /\ Len(u) >= Whole(s[first], size)
                               /\ \A i \in 1..Whole(s[first], size) : u[i] = <<s[first], i>>
         /\ first = Len(s) => Len(u) = Whole(s[first], size)
<1>1. PICK off : Offsets(off, u, first, s, size)
  BY DEF LaidOut
<1>2. Len(s) \in Nat /\ Len(u) \in Nat
  BY LenProperties
<1>3. CASE first = Len(s) + 1
  BY <1>1, <1>2, <1>3 DEF Offsets
<1>4. CASE first <= Len(s)
  <2> DEFINE w == Whole(s[first], size)
  <2>1. w \in Nat /\ w > 0
    BY <1>2, <1>4, WholeNat
  <2>2. first \in first..Len(s) /\ Len(s) + 1 \in (first + 1)..(Len(s) + 1)
    BY <1>2, <1>4
  <2>3. /\ off[first] = 0 /\ off[Len(s) + 1] = Len(u)
        /\ off[first + 1] = off[first] + w
        /\ off[first] + w <= off[Len(s) + 1]
        /\ \A i \in 1..w : u[off[first] + i] = <<s[first], i>>
    BY <1>1, <2>2 DEF Offsets
  <2> HIDE DEF w
  <2>4. \A i \in 1..w : u[i] = <<s[first], i>>
    <3>1. \A i \in 1..w : off[first] + i = i
      BY <2>1, <2>3
    <3> QED
      BY <2>3, <3>1
  <2>5. Len(u) >= w /\ (first = Len(s) => Len(u) = w)
    BY <1>2, <2>1, <2>3
  <2>6. Len(u) # 0 /\ first # Len(s) + 1
    BY <1>2, <1>4, <2>1, <2>5
  <2> QED
    BY <1>4, <2>4, <2>5, <2>6 DEF w
<1> QED
  BY <1>2, <1>3, <1>4

\* The bytes behind the first frame hold the others.
LEMMA LaidOutRest ==
  ASSUME NEW K, NEW s \in Seq(K), NEW size \in [K -> Nat], NEW u \in Seq(Byte),
         NEW first \in 1..Len(s), LaidOut(u, first, s, size)
  PROVE  LaidOut(SubSeq(u, Whole(s[first], size) + 1, Len(u)), first + 1, s, size)
<1> DEFINE w == Whole(s[first], size)
           v == SubSeq(u, w + 1, Len(u))
<1>1. PICK off : Offsets(off, u, first, s, size)
  BY DEF LaidOut
<1>2. Len(s) \in Nat /\ Len(u) \in Nat /\ w \in Nat
  BY LenProperties, WholeNat
<1>3. first \in 1..(Len(s) + 1) /\ first <= Len(s)
  BY <1>2
<1>4. Len(u) >= w
  BY <1>3, LaidOutFirst
<1>6. /\ v \in Seq(Byte)
      /\ Len(v) = Len(u) - w
      /\ \A i \in 1..(Len(u) - w) : v[i] = u[w + i]
  BY <1>2, <1>4, DropSeq
<1> DEFINE N == Len(u)
           M == Len(v)
           L == Len(s)
<1> HIDE DEF w, v
<1> HIDE DEF N, M, L
<1>20. /\ N \in Nat /\ L \in Nat /\ w \in Nat /\ M = N - w /\ N >= w
       /\ first \in 1..(L + 1) /\ first <= L
       /\ \A i \in 1..(N - w) : v[i] = u[w + i]
  BY <1>2, <1>3, <1>4, <1>6 DEF N, M, L
<1>21. /\ off \in [first..(L + 1) -> Nat]
       /\ off[first] = 0 /\ off[L + 1] = N
       /\ \A m \in first..L :
            /\ off[m + 1] = off[m] + Whole(s[m], size)
            /\ \A l \in (m + 1)..(L + 1) : off[m] + Whole(s[m], size) <= off[l]
            /\ \A i \in 1..Whole(s[m], size) : u[off[m] + i] = <<s[m], i>>
  BY <1>1 DEF Offsets, N, L
<1>7. \A l \in (first + 1)..(L + 1) : off[l] \in Nat /\ w <= off[l]
  <2>1. /\ off \in [first..(L + 1) -> Nat] /\ off[first] = 0
        /\ \A l \in (first + 1)..(L + 1) : off[first] + w <= off[l]
    BY <1>20, <1>21 DEF w
  <2> QED
    BY <1>20, <2>1
<1> DEFINE off2 == [m \in (first + 1)..(L + 1) |-> off[m] - w]
<1>8. off2 \in [(first + 1)..(L + 1) -> Nat]
  BY <1>20, <1>7
<1>9. \A m \in (first + 1)..(L + 1) : off2[m] = off[m] - w /\ off[m] \in Nat
  BY <1>7
<1> HIDE DEF off2
<1>10. off2[first + 1] = 0 /\ off2[L + 1] = M
  <2>1. off[first] = 0 /\ off[first + 1] = off[first] + w /\ off[L + 1] = N
    BY <1>20, <1>21 DEF w
  <2> QED
    BY <1>20, <1>9, <2>1
<1>11. ASSUME NEW m \in (first + 1)..L
       PROVE  /\ off2[m + 1] = off2[m] + Whole(s[m], size)
              /\ \A l \in (m + 1)..(L + 1) : off2[m] + Whole(s[m], size) <= off2[l]
              /\ \A i \in 1..Whole(s[m], size) : v[off2[m] + i] = <<s[m], i>>
  <2> DEFINE x == Whole(s[m], size)
  <2>1. x \in Nat /\ m \in first..L /\ L + 1 \in (m + 1)..(L + 1)
    <3>1. m \in 1..L /\ m \in first..L /\ L + 1 \in (m + 1)..(L + 1)
      BY <1>20
    <3>2. x \in Nat
      BY <3>1, WholeNat DEF L
    <3> QED
      BY <3>1, <3>2
  <2>2. /\ off[m + 1] = off[m] + x
        /\ \A l \in (m + 1)..(L + 1) : off[m] + x <= off[l]
        /\ \A i \in 1..x : u[off[m] + i] = <<s[m], i>>
    BY <1>21, <2>1
  <2>3. off[m] + x <= N
    BY <1>21, <2>1, <2>2
  <2> HIDE DEF x
  <2>4. /\ off2[m] = off[m] - w /\ off[m] \in Nat /\ off[m] >= w
        /\ \A l \in (m + 1)..(L + 1) : off2[l] = off[l] - w /\ off[l] \in Nat
    BY <1>20, <1>7, <1>9, <2>1
  <2>5. off2[m + 1] = off2[m] + x
    BY <1>20, <1>9, <2>1, <2>2, <2>4
  <2>6. ASSUME NEW l \in (m + 1)..(L + 1) PROVE off2[m] + x <= off2[l]
    <3>1. off[m] + x <= off[l] /\ off2[l] = off[l] - w /\ off[l] \in Nat
      BY <2>2, <2>4
    <3>2. off2[m] = off[m] - w /\ off[m] \in Nat
      BY <2>4
    <3>3. w \in Nat /\ x \in Nat
      BY <1>20, <2>1
    <3> DEFINE a == off[m]
               b == off[l]
    <3>4. a \in Nat /\ b \in Nat /\ a + x <= b
      BY <3>1, <3>2
    <3> HIDE DEF a, b
    <3>5. a - w + x <= b - w
      BY <3>3, <3>4
    <3> QED
      BY <3>1, <3>2, <3>5 DEF a, b
  <2>7. ASSUME NEW i \in 1..x PROVE v[off2[m] + i] = <<s[m], i>>
    <3>1. off2[m] + i \in 1..(N - w) /\ w + (off2[m] + i) = off[m] + i
      <4>1. off2[m] \in Nat /\ off2[m] + w = off[m] /\ i \in Nat /\ 1 <= i /\ i <= x
        BY <1>20, <2>1, <2>4
      <4> DEFINE a == off[m]
      <4>3. a \in Nat /\ a + x <= N /\ off2[m] = a - w
        BY <2>3, <2>4
      <4>4. N \in Nat /\ w \in Nat /\ x \in Nat
        BY <1>20, <2>1
      <4> HIDE DEF a
      <4>5. a - w + i <= N - w
        BY <4>1, <4>3, <4>4
      <4> DEFINE b == off2[m]
      <4>2. b \in Nat /\ b + w = a /\ b + i <= N - w /\ i \in Nat /\ 1 <= i
        BY <4>1, <4>3, <4>5 DEF a
      <4> HIDE DEF b
      <4>6. b + i \in 1..(N - w) /\ w + (b + i) = a + i
        BY <4>2, <4>3, <4>4
      <4> QED
        BY <4>6 DEF a, b
    <3> QED
      BY <1>20, <2>2, <3>1
  <2> QED
    BY <2>5, <2>6, <2>7 DEF x
<1>12. Offsets(off2, v, first + 1, s, size)
  BY <1>8, <1>10, <1>11 DEF Offsets, L, M
<1> QED
  BY <1>12 DEF LaidOut, v, w

\* A frame behind the others.
LEMMA LaidOutAppend ==
  ASSUME NEW K, K \subseteq Nat, NEW s \in Seq(K), NEW size \in [K -> Nat], NEW u \in Seq(Byte),
         NEW first \in 1..(Len(s) + 1), LaidOut(u, first, s, size), NEW k \in K
  PROVE  LaidOut(u \o FrameBytes(k, size), first, Append(s, k), size)
<1> DEFINE t == Append(s, k)
           n == Len(s)
           f == FrameBytes(k, size)
           v == u \o f
           w == Whole(k, size)
<1>1. PICK off : Offsets(off, u, first, s, size)
  BY DEF LaidOut
<1>2. n \in Nat /\ Len(u) \in Nat /\ w \in Nat /\ size[k] \in Nat /\ k \in Nat
  BY LenProperties, SizeAssumption DEF Whole
<1>3. t \in Seq(K) /\ Len(t) = n + 1 /\ t[n + 1] = k /\ \A i \in 1..n : t[i] = s[i]
  BY AppendProperties
<1>4. f \in Seq(Byte) /\ Len(f) = w /\ \A i \in 1..w : f[i] = <<k, i>>
  BY <1>2, FrameIsBytes DEF Whole
<1> HIDE DEF w, f, t
<1>5. /\ v \in Seq(Byte) /\ Len(v) = Len(u) + w
      /\ \A i \in 1..(Len(u) + w) : v[i] = IF i <= Len(u) THEN u[i] ELSE f[i - Len(u)]
  BY <1>4, ConcatProperties
<1> HIDE DEF v
<1> DEFINE off2 == [m \in first..(n + 2) |-> IF m = n + 2 THEN Len(v) ELSE off[m]]
<1> HIDE DEF n
<1>6. \A m \in first..(n + 1) : off[m] \in Nat
  BY <1>1, <1>2 DEF Offsets, n
<1>7. off2 \in [first..(n + 2) -> Nat]
  BY <1>2, <1>5, <1>6
<1>8. \A m \in first..(n + 1) : off2[m] = off[m] /\ off[m] \in Nat
  BY <1>2, <1>6
<1>9. off2[n + 2] = Len(v)
  BY <1>2 DEF n
<1> HIDE DEF off2
<1>10. off2[first] = 0
  BY <1>1, <1>2, <1>8 DEF Offsets, n
<1>11. off[n + 1] = Len(u)
  BY <1>1 DEF Offsets, n
<1>12. ASSUME NEW m \in first..(n + 1)
       PROVE  /\ off2[m + 1] = off2[m] + Whole(t[m], size)
              /\ \A l \in (m + 1)..(n + 2) : off2[m] + Whole(t[m], size) <= off2[l]
              /\ \A i \in 1..Whole(t[m], size) : v[off2[m] + i] = <<t[m], i>>
  <2>1. CASE m = n + 1
    <3>1. Whole(t[m], size) = w /\ t[m] = k
      BY <1>3, <2>1 DEF w, n
    <3>2. off2[m] = Len(u) /\ off2[m + 1] = Len(u) + w /\ m + 1 = n + 2
      BY <1>2, <1>5, <1>8, <1>9, <1>11, <2>1
    <3>3. \A l \in (m + 1)..(n + 2) : l = m + 1
      BY <1>2, <2>1
    <3>4. ASSUME NEW i \in 1..w PROVE v[Len(u) + i] = <<k, i>>
      <4> DEFINE N == Len(u)
      <4> HIDE DEF N
      <4>0. N \in Nat /\ w \in Nat
        BY <1>2 DEF N
      <4>2. N + i \in 1..(N + w) /\ ~(N + i <= N) /\ N + i - N = i
        BY <4>0
      <4>1. Len(u) + i \in 1..(Len(u) + w) /\ ~(Len(u) + i <= Len(u)) /\ Len(u) + i - Len(u) = i
        BY <4>2 DEF N
      <4>3. v[Len(u) + i] = IF Len(u) + i <= Len(u) THEN u[Len(u) + i] ELSE f[Len(u) + i - Len(u)]
        BY <1>5, <4>1
      <4>4. f[i] = <<k, i>>
        BY <1>4
      <4> QED
        BY <4>1, <4>3, <4>4
    <3>5. \A l \in (m + 1)..(n + 2) : off2[m] + w <= off2[l]
      <4>1. off2[m] + w = off2[m + 1] /\ off2[m + 1] \in Nat
        BY <1>2, <3>2
      <4> QED
        BY <3>3, <4>1
    <3> QED
      BY <3>1, <3>2, <3>4, <3>5 DEF n
  <2>2. CASE m \in first..n
    <3> DEFINE x == Whole(s[m], size)
    <3>1. t[m] = s[m] /\ x \in Nat
      <4>1. m \in 1..n
        BY <1>2, <2>2 DEF n
      <4>2. t[m] = s[m]
        BY <1>3, <4>1 DEF n
      <4> QED
        BY <4>1, <4>2, WholeNat DEF n
    <3>2. /\ off[m + 1] = off[m] + x
          /\ \A l \in (m + 1)..(n + 1) : off[m] + x <= off[l]
          /\ \A i \in 1..x : u[off[m] + i] = <<s[m], i>>
      BY <1>1, <2>2 DEF Offsets, n
    <3> HIDE DEF x
    <3>3. n + 1 \in (m + 1)..(n + 1) /\ m + 1 \in first..(n + 1) /\ m \in first..(n + 1)
      BY <1>2, <2>2
    <3>4. off2[m] = off[m] /\ off2[m + 1] = off[m + 1] /\ off[m] \in Nat
      BY <1>8, <3>3
    <3>5. off[m] + x <= Len(u)
      BY <1>11, <3>2, <3>3
    <3>6. ASSUME NEW l \in (m + 1)..(n + 2) PROVE off2[m] + x <= off2[l]
      <4>1. CASE l = n + 2
        BY <1>2, <1>5, <1>9, <3>1, <3>4, <3>5, <4>1
      <4>2. CASE l \in (m + 1)..(n + 1)
        <5>1. l \in first..(n + 1)
          BY <1>2, <2>2, <4>2
        <5> QED
          BY <1>8, <3>2, <3>4, <4>2, <5>1
      <4> QED
        BY <1>2, <4>1, <4>2
    <3>7. ASSUME NEW i \in 1..x PROVE v[off2[m] + i] = <<s[m], i>>
      <4>1. off[m] + i \in 1..(Len(u) + w) /\ off[m] + i <= Len(u)
        BY <1>2, <3>1, <3>4, <3>5
      <4> QED
        BY <1>5, <3>2, <3>4, <4>1
    <3> QED
      BY <3>1, <3>2, <3>4, <3>6, <3>7 DEF x
  <2> QED
    BY <1>2, <2>1, <2>2
<1>13. Offsets(off2, v, first, t, size)
  <2>1. Len(t) + 1 = n + 2
    BY <1>2, <1>3
  <2> QED
    BY <1>3, <1>7, <1>9, <1>10, <1>12, <2>1 DEF Offsets
<1> QED
  BY <1>13 DEF LaidOut, v, t, f

-------------------------------------------------------------------------------
(* The invariant of the streams. *)

SessionInv ==
  /\ async_rpc \in BOOLEAN /\ sockets \in Nat /\ script \in Seq(CallRecord)
  /\ async_rpc => \A k \in Ids : ~IsOneway(k)

\* The calls that were written to the socket, and the first of them, in order,
\* that were processed.
SentInv ==
  /\ sent \in Seq(Ids) /\ handled \in Seq(Seq(Byte))
  /\ \A i \in 1..Len(sent) : sent[i] <= calls /\ \A j \in 1..(i - 1) : sent[j] < sent[i]
  /\ client.op \in {"write", "sync_write"} => \A i \in 1..Len(sent) : sent[i] < pending
  /\ Len(handled) <= Len(sent)
  /\ \A i \in 1..Len(handled) : handled[i] = FrameBytes(sent[i], RequestSize)

\* The bytes that the server has not processed.
Unread == (IF server.op = "read" THEN server.buf ELSE Rest(server)) \o toServer

\* A server that serves a request has its frame at the front of the buffer, and
\* nothing but the requests that follow is behind it, in the buffer and under
\* way; one that reads has nothing else at all.
ServerInv ==
  /\ ConnInv(server)
  /\ server.op \in {"read", "rpc", "write", "closed", "undefined"}
  /\ toServer \in Seq(Byte)
  /\ server.op \in {"rpc", "write"} =>
       /\ Len(handled) > 0
       /\ server.frame_size = RequestSize[sent[Len(handled)]]
       /\ Complete(server)
       /\ server.op = "rpc" => async_rpc
       /\ server.op = "write" /\ async_rpc => ~script[sent[Len(handled)]].fails
  /\ server.op = "read" /\ server.state = "kReadFrame" =>
       /\ Len(handled) < Len(sent)
       /\ server.frame_size = RequestSize[sent[Len(handled) + 1]]
  /\ server.op \in {"read", "rpc", "write"} =>
       LaidOut(Unread, Len(handled) + 1, sent, RequestSize)

ClientInv ==
  /\ ConnInv(client)
  /\ client.op \in {"idle", "read", "write", "sync_write", "sync_read", "closed", "detached"}
  /\ toClient \in Seq(Byte)
  /\ client.op = "read" /\ client.state = "kReadFrame" =>
       client.frame_size = ReplySize[pending]

\* Only the last request may wait for a reply, which the client waits for.
Unanswered ==
  {m \in 1..Len(sent) :
     /\ ~IsOneway(sent[m])
     /\ m > Len(handled) \/ (m = Len(handled) /\ server.op \in {"rpc", "write"})}

WaitInv ==
  \A m \in Unanswered :
    /\ m = Len(sent)
    /\ client.op # "closed" => client.op \in Awaiting /\ pending = sent[m]

\* What the client has of a reply or is under way to it is the reply to the call
\* in progress, once the server is done with all that was sent.
Arriving == (IF client.op = "read" THEN client.buf ELSE << >>) \o toClient

ReplyInv ==
  client.op # "closed" /\ Len(Arriving) > 0 =>
    /\ client.op \in Awaiting
    /\ Arriving = FrameBytes(pending, ReplySize)
    /\ Len(handled) = Len(sent) /\ Len(sent) > 0 /\ sent[Len(sent)] = pending
    /\ server.op \notin {"rpc", "write"}
    /\ script[pending].fails => ~async_rpc

-------------------------------------------------------------------------------
LEMMA SizesNat ==
  ASSUME script \in Seq(CallRecord)
  PROVE  /\ Ids \subseteq Nat /\ RequestSize \in [Ids -> Nat] /\ ReplySize \in [Ids -> Nat]
         /\ \A k \in Ids : script[k] \in CallRecord
<1>1. Len(script) \in Nat /\ \A k \in Ids : script[k] \in CallRecord
  BY ElementOfSeq, LenProperties DEF Ids
<1>2. \A k \in Ids : script[k].request \in Nat /\ script[k].reply \in Nat
  BY <1>1 DEF CallRecord
<1> QED
  BY <1>1, <1>2 DEF Ids, RequestSize, ReplySize

LEMMA RestartConn ==
  ASSUME NEW c \in Connection, c.room >= kFrameSize
  PROVE  /\ ConnInv(Restart(c)) /\ Restart(c).buf = << >> /\ Restart(c).op = "read"
         /\ Restart(c).state = "kReadFrameSize"
<1> DEFINE r == Restart(c)
           empty == << >>
           room == IF c.room > kMaxFrameSize THEN kBufferSize ELSE c.room
<1>1. room \in Nat /\ room >= kFrameSize
  BY SizeAssumption DEF Connection
<1>2. r = [c EXCEPT !.buf = empty, !.frame_size = 0, !.state = "kReadFrameSize", !.op = "read",
                    !.room = room]
  BY DEF Restart
<1>3. empty \in Seq(Byte) /\ Len(empty) = 0
  BY EmptySeq
<1> HIDE DEF room, empty
<1>4. /\ r \in Connection /\ r.buf = empty /\ r.op = "read" /\ r.state = "kReadFrameSize"
      /\ r.room = room
  <2>1. "read" \in Op /\ 0 \in Nat /\ "kReadFrameSize" \in {"kReadFrameSize", "kReadFrame"}
    BY DEF Op
  <2>2. r \in Connection
    BY <1>1, <1>2, <1>3, <2>1 DEF Connection
  <2>3. DOMAIN c = {"buf", "room", "frame_size", "state", "op"}
    BY DEF Connection
  <2> QED
    BY <1>2, <2>2, <2>3
<1> HIDE DEF r
<1>5. ConnInv(r)
  BY <1>1, <1>3, <1>4, SizeAssumption DEF ConnInv
<1> QED
  BY <1>4, <1>5 DEF r, empty

\* Only the operation of a connection that does not read matters.
LEMMA OpConn ==
  ASSUME NEW c, ConnInv(c), NEW o \in Op \ {"read"}
  PROVE  /\ ConnInv([c EXCEPT !.op = o]) /\ [c EXCEPT !.op = o].op = o
         /\ Rest([c EXCEPT !.op = o]) = Rest(c)
         /\ [c EXCEPT !.op = o].frame_size = c.frame_size
         /\ Complete([c EXCEPT !.op = o]) <=> Complete(c)
<1> DEFINE r == [c EXCEPT !.op = o]
<1>1. /\ r \in Connection /\ r.buf = c.buf /\ r.op = o /\ r.room = c.room
      /\ r.frame_size = c.frame_size
  BY DEF ConnInv, Connection
<1> HIDE DEF r
<1>2. ConnInv(r)
  BY <1>1 DEF ConnInv
<1>3. Rest(r) = Rest(c) /\ (Complete(r) <=> Complete(c))
  BY <1>1 DEF Rest, Complete
<1> QED
  BY <1>1, <1>2, <1>3 DEF r

LEMMA NewConn == ConnInv(NewConnection) /\ NewConnection \in Connection
<1>1. << >> \in Seq(Byte) /\ Len(<< >>) = 0
  BY EmptySeq
<1> QED
  BY <1>1, SizeAssumption DEF NewConnection, ConnInv, Connection, Op

\* What follows the first w bytes of a stream whose beginning is in a buffer.
LEMMA RestConcat ==
  ASSUME NEW S, NEW u \in Seq(S), NEW t \in Seq(S), NEW w \in Nat, w <= Len(u)
  PROVE  /\ SubSeq(u, w + 1, Len(u)) \o t = SubSeq(u \o t, w + 1, Len(u \o t))
         /\ SubSeq(u, w + 1, Len(u)) \in Seq(S)
<1> DEFINE N == Len(u)
           M == Len(t)
           v == SubSeq(u, w + 1, N)
           ut == u \o t
           a == v \o t
           b == SubSeq(ut, w + 1, Len(ut))
<1>1. N \in Nat /\ M \in Nat /\ w <= N
  BY LenProperties
<1>2. v \in Seq(S) /\ Len(v) = N - w /\ \A i \in 1..(N - w) : v[i] = u[w + i]
  BY DropSeq
<1>3. /\ ut \in Seq(S) /\ Len(ut) = N + M
      /\ \A i \in 1..(N + M) : ut[i] = IF i <= N THEN u[i] ELSE t[i - N]
  BY ConcatProperties
<1> HIDE DEF v, ut
<1>4. /\ a \in Seq(S) /\ Len(a) = Len(v) + M
      /\ \A i \in 1..(Len(v) + M) : a[i] = IF i <= Len(v) THEN v[i] ELSE t[i - Len(v)]
  BY <1>2, ConcatProperties
<1>5. w <= Len(ut)
  BY <1>1, <1>3
<1>6. b \in Seq(S) /\ Len(b) = Len(ut) - w /\ \A i \in 1..(Len(ut) - w) : b[i] = ut[w + i]
  BY <1>3, <1>5, DropSeq
<1> HIDE DEF a, b, N, M
<1>7. Len(a) = N - w + M /\ Len(b) = N - w + M
  BY <1>1, <1>2, <1>3, <1>4, <1>6
<1>8. ASSUME NEW i \in 1..(N - w + M) PROVE a[i] = b[i]
  <2>1. i \in Nat /\ 1 <= i /\ i <= N - w + M /\ i <= Len(ut) - w
    BY <1>1, <1>3
  <2>2. b[i] = ut[w + i] /\ w + i \in 1..(N + M)
    BY <1>1, <1>3, <1>6, <2>1
  <2>3. CASE i <= N - w
    <3>1. a[i] = u[w + i]
      BY <1>1, <1>2, <1>4, <2>1, <2>3
    <3>2. w + i <= N
      BY <1>1, <2>1, <2>3
    <3> QED
      BY <1>3, <2>2, <3>1, <3>2
  <2>4. CASE ~(i <= N - w)
    <3>1. a[i] = t[i - (N - w)]
      BY <1>1, <1>2, <1>4, <2>1, <2>4
    <3>2. ~(w + i <= N) /\ (w + i) - N = i - (N - w)
      BY <1>1, <2>1, <2>4
    <3>3. ut[w + i] = t[(w + i) - N]
      <4>1. ASSUME NEW j \in 1..(N + M), ~(j <= N) PROVE ut[j] = t[j - N]
        BY <1>3, <4>1
      <4> QED
        BY <2>2, <3>2, <4>1
    <3> QED
      BY <2>2, <3>1, <3>2, <3>3
  <2> QED
    BY <2>3, <2>4
<1>9. a = b
  BY <1>4, <1>6, <1>7, <1>8, SeqEqual
<1> QED
  BY <1>2, <1>9 DEF a, b, v, ut, N

\* Receiving some of the bytes under way changes nothing of the whole.
LEMMA MoveBytes ==
  ASSUME NEW S, NEW u \in Seq(S), NEW t \in Seq(S), NEW n \in 0..Len(t)
  PROVE  /\ u \o SubSeq(t, 1, n) \in Seq(S)
         /\ Len(u \o SubSeq(t, 1, n)) = Len(u) + n
         /\ Drop(t, n) \in Seq(S) /\ Len(Drop(t, n)) = Len(t) - n
         /\ (u \o SubSeq(t, 1, n)) \o Drop(t, n) = u \o t
<1>1. Len(t) \in Nat /\ n \in Nat /\ n <= Len(t) /\ Len(u) \in Nat
  BY LenProperties
<1>2. SubSeq(t, 1, n) \in Seq(S) /\ Len(SubSeq(t, 1, n)) = n
  BY <1>1, TakeSeq
<1>3. Drop(t, n) \in Seq(S) /\ Len(Drop(t, n)) = Len(t) - n
  BY <1>1, DropSeq DEF Drop
<1>4. SubSeq(t, 1, n) \o Drop(t, n) = t
  <2>1. SubSeq(t, 1, n) \o SubSeq(t, n + 1, Len(t)) = SubSeq(t, 1, Len(t))
    <3>1. 1 \in 1..(Len(t) + 1) /\ n \in (1 - 1)..Len(t) /\ Len(t) \in n..Len(t)
      BY <1>1
    <3> QED
      BY <3>1, ConcatAdjacentSubSeq
  <2>2. SubSeq(t, 1, Len(t)) = t
    BY SubSeqFull
  <2> QED
    BY <2>1, <2>2 DEF Drop
<1>5. u \o SubSeq(t, 1, n) \in Seq(S) /\ Len(u \o SubSeq(t, 1, n)) = Len(u) + n
  BY <1>2, ConcatProperties
<1>6. (u \o SubSeq(t, 1, n)) \o Drop(t, n) = u \o (SubSeq(t, 1, n) \o Drop(t, n))
  <2> DEFINE v == SubSeq(t, 1, n)
             w == Drop(t, n)
  <2>1. v \in Seq(S) /\ w \in Seq(S)
    BY <1>2, <1>3
  <2> HIDE DEF v, w
  <2>2. (u \o v) \o w = u \o (v \o w)
    BY <2>1, ConcatAssociative
  <2> QED
    BY <2>2 DEF v, w
<1> QED
  BY <1>3, <1>4, <1>5, <1>6

\* A connection that reads has room, and so receives some of the bytes that have
\* arrived.
LEMMA ReadsSome ==
  ASSUME NEW c, ConnInv(c), c.op = "read", NEW arrived \in Nat, NEW n \in Readable(c, arrived)
  PROVE  n \in 1..arrived /\ Len(c.buf) + n <= c.room
<1>1. /\ Len(c.buf) \in Nat /\ c.room \in Nat /\ kFrameSize \in Nat
      /\ c.state \in {"kReadFrameSize", "kReadFrame"}
  BY LenProperties, SizeAssumption DEF ConnInv, Connection
<1>2. Len(c.buf) < c.room
  BY <1>1 DEF ConnInv
<1> DEFINE N == Len(c.buf)
           R == c.room
<1>3. n \in 1..(IF arrived < R - N THEN arrived ELSE R - N)
  <2>1. R - N # 0
    BY <1>1, <1>2
  <2> QED
    BY <2>1 DEF Readable
<1>4. N \in Nat /\ R \in Nat /\ N < R
  BY <1>1, <1>2
<1> HIDE DEF N, R
<1>5. n \in 1..arrived /\ N + n <= R
  BY <1>3, <1>4
<1> QED
  BY <1>5 DEF N, R

\* What a connection receives begins with the frame that its bytes and those
\* under way begin with.
LEMMA BeginsPart ==
  ASSUME NEW b \in Seq(Byte), NEW t \in Seq(Byte), NEW k \in Nat, NEW size, size[k] \in Nat,
         \A i \in 1..Whole(k, size) : (b \o t)[i] = <<k, i>>
  PROVE  Begins(b, k, size)
<1>1. Len(b) \in Nat /\ Len(t) \in Nat /\ Whole(k, size) \in Nat
  BY LenProperties, SizeAssumption DEF Whole
<1>2. \A i \in 1..Len(b) : (b \o t)[i] = b[i]
  <2>1. \A i \in 1..(Len(b) + Len(t)) : (b \o t)[i] = IF i <= Len(b) THEN b[i] ELSE t[i - Len(b)]
    BY ConcatProperties
  <2> QED
    BY <1>1, <2>1
<1>3. ASSUME NEW i \in 1..Len(b), i <= kFrameSize + size[k] PROVE b[i] = <<k, i>>
  <2>1. i \in 1..Whole(k, size)
    BY <1>1, <1>3 DEF Whole
  <2> QED
    BY <1>2, <2>1
<1> QED
  BY <1>3 DEF Begins

-------------------------------------------------------------------------------
(* The server. *)

\* What a connection of the server does with bytes in its buffer, behind which the
\* rest of the unread requests is under way.
LEMMA Handles ==
  ASSUME SessionInv, SentInv, NEW c \in Connection,
         c.room >= kFrameSize, Len(c.buf) > 0, Len(c.buf) <= c.room,
         c.state = "kReadFrame" =>
           /\ Len(handled) < Len(sent) /\ c.frame_size = RequestSize[sent[Len(handled) + 1]]
           /\ Legal(c.frame_size),
         toServer' \in Seq(Byte),
         LaidOut(c.buf \o toServer', Len(handled) + 1, sent, RequestSize),
         Handle(HandleBuffer(c, RequestSize)),
         UNCHANGED <<async_rpc, script, sent>>
  PROVE  /\ ServerInv' /\ server'.op # "undefined"
         /\ \/ handled' = handled /\ server'.op \in {"read", "closed"}
            \/ /\ Len(handled) < Len(sent)
               /\ handled' = Append(handled, FrameBytes(sent[Len(handled) + 1], RequestSize))
<1> DEFINE p == Len(handled) + 1
           k == sent[p]
           u == c.buf \o toServer'
           size == RequestSize
           w == Whole(k, size)
<1>1. /\ Len(sent) \in Nat /\ Len(handled) \in Nat /\ Len(handled) <= Len(sent)
      /\ Len(c.buf) \in Nat /\ c.buf \in Seq(Byte)
  BY LenProperties DEF SentInv, Connection
<1>2. p \in 1..(Len(sent) + 1)
  BY <1>1
<1>3. size \in [Ids -> Nat] /\ sent \in Seq(Ids) /\ Ids \subseteq Nat
  BY SizesNat DEF SessionInv, SentInv
<1>4. u \in Seq(Byte) /\ Len(u) >= Len(c.buf)
  <2>1. u \in Seq(Byte) /\ Len(u) = Len(c.buf) + Len(toServer')
    BY <1>1, ConcatProperties
  <2>2. Len(toServer') \in Nat
    BY LenProperties
  <2> DEFINE a == Len(u)
             b == Len(c.buf)
             t == Len(toServer')
  <2> HIDE DEF a, b, t
  <2>3. a = b + t /\ t \in Nat /\ b \in Nat
    BY <1>1, <2>1, <2>2 DEF a, b, t
  <2>4. a >= b
    BY <2>3
  <2> QED
    BY <2>1, <2>4 DEF a, b
<1>5. Len(u) \in Nat /\ Len(u) # 0
  BY <1>1, <1>4, LenProperties
<1>6. /\ Len(u) = 0 <=> p = Len(sent) + 1
      /\ p <= Len(sent) => Len(u) >= w /\ \A i \in 1..w : u[i] = <<k, i>>
  <2>1. LaidOut(u, p, sent, size)
    OBVIOUS
  <2> HIDE DEF size, u, p
  <2>2. /\ Len(u) = 0 <=> p = Len(sent) + 1
        /\ p <= Len(sent) => /\ Len(u) >= Whole(sent[p], size)
                             /\ \A i \in 1..Whole(sent[p], size) : u[i] = <<sent[p], i>>
    <3>1. p \in 1..(Len(sent) + 1) /\ u \in Seq(Byte) /\ size \in [Ids -> Nat] /\ sent \in Seq(Ids)
      BY <1>2, <1>3, <1>4
    <3> QED
      BY <2>1, <3>1, LaidOutFirst, SMTT(40)
  <2> QED
    BY <2>2 DEF size, u, p
<1>7. p <= Len(sent) /\ p \in 1..Len(sent)
  BY <1>1, <1>2, <1>5, <1>6
<1>8. k \in Ids /\ k \in Nat /\ size[k] \in Nat
  <2>1. k \in Ids
    BY <1>3, <1>7, ElementOfSeq
  <2> QED
    BY <1>3, <2>1
<1>9. Begins(c.buf, k, size)
  <2> HIDE DEF k, size
  <2>1. \A i \in 1..Whole(k, size) : (c.buf \o toServer')[i] = <<k, i>>
    BY <1>6, <1>7 DEF u, w
  <2> QED
    BY <1>1, <1>8, <2>1, BeginsPart
<1> DEFINE r == HandleBuffer(c, size)
<1>10. HandledTo(r, c, k, size)
  <2> HIDE DEF r, k, size
  <2>1. c.state = "kReadFrame" => c.frame_size = size[k] /\ Legal(size[k])
    BY DEF k, size, p
  <2> QED
    BY <1>8, <1>9, <2>1, HandleBufferTo DEF r
<1>11. Handle(r)
  OBVIOUS
<1>12. Ids' = Ids /\ RequestSize' = size
  BY DEF Ids, RequestSize
<1> HIDE DEF r, u, k, w, size
<1>13. CASE r.op = "frame"
  <2>1. /\ r \in Connection /\ r.buf = c.buf /\ r.room = c.room /\ r.frame_size = size[k]
        /\ Complete(r) /\ Frame(r) = FrameBytes(k, size)
    BY <1>10, <1>13 DEF HandledTo
  <2>2. handled' = Append(handled, FrameBytes(k, size)) /\ server' \in OnHandleFrame(r)
    BY <1>11, <1>13, <2>1 DEF Handle
  <2>3. ConnInv(r)
    BY <1>13, <2>1 DEF ConnInv
  <2>4. PICK o \in {"rpc", "write", "closed"} :
          server' = [r EXCEPT !.op = o] /\ (o = "rpc" => async_rpc) /\ (o = "write" => ~async_rpc)
    BY <2>2 DEF OnHandleFrame, Process, Closed
  <2>5. /\ ConnInv(server)' /\ server'.op = o /\ Rest(server') = Rest(r)
        /\ server'.frame_size = size[k] /\ Complete(server')
    <3>1. o \in Op \ {"read"}
      BY DEF Op
    <3> DEFINE e == [r EXCEPT !.op = o]
    <3>2. /\ ConnInv(e) /\ e.op = o /\ Rest(e) = Rest(r) /\ e.frame_size = r.frame_size
          /\ Complete(e) <=> Complete(r)
      BY <2>3, <3>1, OpConn
    <3>3. server' = e
      BY <2>4
    <3> HIDE DEF e
    <3> QED
      BY <2>1, <3>2, <3>3
  <2>6. handled \in Seq(Seq(Byte)) /\ FrameBytes(k, size) \in Seq(Byte)
    BY <1>8, FrameIsBytes DEF SentInv
  <2>7. Len(handled') = p
    BY <2>2, <2>6, AppendProperties
  <2>8. LaidOut(Rest(r) \o toServer', p + 1, sent, size)
    <3>2. w \in Nat /\ w = size[k] + kFrameSize
      BY <1>8, SizeAssumption DEF w, Whole
    <3>3. w <= Len(c.buf)
      BY <2>1, <3>2 DEF Complete
    <3>4. Rest(r) = SubSeq(c.buf, w + 1, Len(c.buf))
      BY <2>1, <3>2 DEF Rest
    <3>5. Rest(r) \o toServer' = SubSeq(u, w + 1, Len(u))
      <4>1. SubSeq(c.buf, w + 1, Len(c.buf)) \o toServer'
              = SubSeq(c.buf \o toServer', w + 1, Len(c.buf \o toServer'))
        <5> DEFINE b == c.buf
                   t == toServer'
        <5>1. b \in Seq(Byte) /\ t \in Seq(Byte) /\ w \in Nat /\ w <= Len(b)
          BY <1>1, <3>2, <3>3
        <5> HIDE DEF b, t
        <5>2. SubSeq(b, w + 1, Len(b)) \o t = SubSeq(b \o t, w + 1, Len(b \o t))
          BY <5>1, RestConcat
        <5> QED
          BY <5>2 DEF b, t
      <4> QED
        BY <3>4, <4>1 DEF u
    <3>6. LaidOut(u, p, sent, size)
      BY DEF u, size
    <3>7. LaidOut(SubSeq(u, Whole(sent[p], size) + 1, Len(u)), p + 1, sent, size)
      BY <1>3, <1>4, <1>7, <3>6, LaidOutRest
    <3> QED
      BY <3>5, <3>7 DEF w, k
  <2>9. ServerInv'
    <3>1. server'.op # "read" /\ Unread' = Rest(r) \o toServer'
      BY <2>5 DEF Unread
    <3>2. LaidOut(Unread', Len(handled') + 1, sent', RequestSize')
      BY <1>12, <2>7, <2>8, <3>1
    <3>3. Len(handled') > 0 /\ sent'[Len(handled')] = k
      BY <1>1, <2>7 DEF k
    <3>4. server'.op \in {"rpc", "write"} =>
            /\ server'.frame_size = RequestSize'[sent'[Len(handled')]]
            /\ server'.op = "rpc" => async_rpc'
            /\ ~(server'.op = "write" /\ async_rpc')
      BY <1>12, <2>4, <2>5, <3>3
    <3> QED
      BY <2>5, <3>1, <3>2, <3>3, <3>4 DEF ServerInv
  <2> QED
    BY <1>1, <1>7, <2>2, <2>5, <2>9 DEF k, size
<1>14. CASE r.op # "frame"
  <2>1. server' = r /\ handled' = handled
    BY <1>11, <1>14 DEF Handle
  <2>2. r.op \in {"read", "closed"} /\ r \in Connection /\ r.buf = c.buf
    BY <1>10, <1>14 DEF HandledTo
  <2>3. ConnInv(r)
    <3>1. CASE r.op = "closed"
      <4>1. r.room = c.room
        BY <1>10, <3>1 DEF HandledTo
      <4> QED
        BY <2>2, <3>1, <4>1 DEF ConnInv
    <3>2. CASE r.op = "read"
      <4>1. \/ r.state = "kReadFrameSize" /\ r.room = c.room /\ Len(r.buf) < kFrameSize
            \/ /\ r.state = "kReadFrame" /\ r.frame_size = size[k]
               /\ Legal(size[k]) /\ Len(r.buf) < size[k] + kFrameSize
               /\ r.room = size[k] + kFrameSize
        BY <1>10, <3>2 DEF HandledTo
      <4>2. kFrameSize \in Nat
        BY SizeAssumption
      <4>3. size[k] + kFrameSize >= kFrameSize /\ size[k] + kFrameSize \in Nat
        BY <1>8, <4>2
      <4> DEFINE total == size[k] + kFrameSize
      <4>4. CASE r.state = "kReadFrameSize"
        BY <2>2, <4>1, <4>4 DEF ConnInv
      <4>5. CASE r.state = "kReadFrame"
        <5>1. /\ r.frame_size = size[k] /\ Legal(r.frame_size) /\ Len(r.buf) < total /\ r.room = total
              /\ total = r.frame_size + kFrameSize
          BY <4>1, <4>5
        <5>2. total >= kFrameSize /\ total \in Nat
          BY <4>3
        <5> HIDE DEF total
        <5>3. Len(r.buf) <= r.room /\ Len(r.buf) > 0
          BY <1>1, <2>2, <5>1, <5>2
        <5> QED
          BY <2>2, <4>5, <5>1, <5>2, <5>3 DEF ConnInv
      <4> QED
        BY <4>1, <4>4, <4>5
    <3> QED
      BY <2>2, <3>1, <3>2
  <2>4. r.op = "read" /\ r.state = "kReadFrame" => r.frame_size = size[k]
    BY <1>10 DEF HandledTo
  <2>5. r.op = "read" => LaidOut(Unread', p, sent, size)
    <3>1. r.op = "read" => Unread' = u
      BY <2>1, <2>2 DEF Unread, u
    <3> QED
      BY <3>1 DEF u, size
  <2>6. ServerInv'
    <3>1. /\ ConnInv(server)' /\ server'.op \in {"read", "closed"}
          /\ server'.op = "read" => LaidOut(Unread', Len(handled') + 1, sent', RequestSize')
      BY <1>12, <2>1, <2>2, <2>3, <2>5
    <3>2. server'.op = "read" /\ server'.state = "kReadFrame" =>
            /\ Len(handled') < Len(sent')
            /\ server'.frame_size = RequestSize'[sent'[Len(handled') + 1]]
      BY <1>1, <1>7, <1>12, <2>1, <2>4 DEF k
    <3> QED
      BY <3>1, <3>2 DEF ServerInv
  <2> QED
    BY <2>1, <2>2, <2>6
<1> QED
  BY <1>13, <1>14

\* What depends on variables that a step leaves alone is kept.
LEMMA SessionSame == ASSUME SessionInv, UNCHANGED sessionVars, sockets' \in Nat PROVE SessionInv'
BY DEF SessionInv, sessionVars, Ids, IsOneway

LEMMA ServerSame ==
  ASSUME ServerInv, UNCHANGED <<async_rpc, script, sent, server, toServer, handled>>
  PROVE  ServerInv'
<1>1. Ids' = Ids /\ RequestSize' = RequestSize /\ Unread' = Unread
  BY DEF Ids, RequestSize, Unread
<1> QED
  BY <1>1 DEF ServerInv

\* A step of the server by which no request comes to wait for a reply.
LEMMA WaitServer ==
  ASSUME WaitInv, UNCHANGED <<script, sent, client, pending>>, Unanswered' \subseteq Unanswered
  PROVE  WaitInv'
BY DEF WaitInv, Awaiting

LEMMA ClientSame ==
  ASSUME ClientInv, UNCHANGED <<script, client, toClient, pending>> PROVE ClientInv'
<1>1. ReplySize' = ReplySize
  BY DEF Ids, ReplySize
<1> QED
  BY <1>1 DEF ClientInv

LEMMA LenHandled ==
  ASSUME SentInv, NEW f \in Seq(Byte)
  PROVE  /\ Append(handled, f) \in Seq(Seq(Byte))
         /\ Len(Append(handled, f)) = Len(handled) + 1
         /\ \A i \in 1..Len(handled) : Append(handled, f)[i] = handled[i]
         /\ Append(handled, f)[Len(handled) + 1] = f
BY AppendProperties DEF SentInv

LEMMA LenNats == SentInv => Len(sent) \in Nat /\ Len(handled) \in Nat /\ Len(handled) <= Len(sent)
BY LenProperties DEF SentInv

\* What the server has handled grows by the next request only.
LEMMA SentHandles ==
  ASSUME SessionInv, SentInv, UNCHANGED <<script, sent, calls, client, pending>>,
         \/ handled' = handled
         \/ /\ Len(handled) < Len(sent)
            /\ handled' = Append(handled, FrameBytes(sent[Len(handled) + 1], RequestSize))
  PROVE  /\ SentInv' /\ Len(handled') \in Nat
         /\ handled' # handled => Len(handled') = Len(handled) + 1 /\ Len(handled) < Len(sent)
<1>1. RequestSize' = RequestSize /\ Ids' = Ids
  BY DEF Ids, RequestSize
<1>2. CASE handled' = handled
  BY <1>1, <1>2, LenNats DEF SentInv
<1>3. CASE handled' # handled
  <2> DEFINE p == Len(handled) + 1
             f == FrameBytes(sent[p], RequestSize)
  <2>1. /\ Len(handled) < Len(sent) /\ handled' = Append(handled, f)
        /\ p \in 1..Len(sent)
    BY <1>3, LenNats
  <2>2. f \in Seq(Byte)
    <3>1. sent[p] \in Ids
      BY <2>1, ElementOfSeq DEF SentInv
    <3>2. sent[p] \in Nat /\ RequestSize[sent[p]] \in Nat
      BY <3>1, SizesNat DEF SessionInv
    <3> QED
      BY <3>2, FrameIsBytes
  <2> HIDE DEF f
  <2>3. /\ handled' \in Seq(Seq(Byte)) /\ Len(handled') = Len(handled) + 1
        /\ \A i \in 1..Len(handled) : handled'[i] = handled[i]
        /\ handled'[p] = f
    BY <2>1, <2>2, LenHandled
  <2>4. \A i \in 1..Len(handled') : handled'[i] = FrameBytes(sent[i], RequestSize)
    <3> SUFFICES ASSUME NEW i \in 1..Len(handled') PROVE handled'[i] = FrameBytes(sent[i], RequestSize)
      OBVIOUS
    <3>1. CASE i = p
      BY <2>3, <3>1 DEF f
    <3>2. CASE i # p
      <4>1. i \in 1..Len(handled)
        BY <2>3, <3>2, LenNats
      <4> QED
        BY <2>3, <4>1 DEF SentInv
    <3> QED
      BY <3>1, <3>2
  <2>5. Len(handled') <= Len(sent')
    BY <2>1, <2>3, LenNats
  <2> QED
    BY <1>1, <2>1, <2>3, <2>4, <2>5, LenNats DEF SentInv
<1> QED
  BY <1>2, <1>3

-------------------------------------------------------------------------------
(* The steps of the server. *)

Streams == SessionInv /\ SentInv /\ ServerInv /\ ClientInv /\ WaitInv /\ ReplyInv

\* After a step of the server nothing more may wait for a reply than before.
LEMMA UnansweredShrinks ==
  ASSUME SentInv, UNCHANGED <<script, sent>>, Len(handled') \in Nat,
         \/ handled' = handled /\ (server'.op \in {"rpc", "write"} => server.op \in {"rpc", "write"})
         \/ Len(handled') = Len(handled) + 1
  PROVE  Unanswered' \subseteq Unanswered
<1>1. Len(handled) \in Nat /\ Len(sent) \in Nat
  BY LenNats
<1>2. ASSUME NEW m \in Unanswered' PROVE m \in Unanswered
  <2>1. /\ m \in 1..Len(sent) /\ ~IsOneway(sent[m])
        /\ m > Len(handled') \/ (m = Len(handled') /\ server'.op \in {"rpc", "write"})
    BY <1>2 DEF Unanswered, IsOneway
  <2> QED
    BY <1>1, <2>1 DEF Unanswered
<1> QED
  BY <1>2

LEMMA ServerReadStep == ASSUME Streams, ServerRead PROVE Streams' /\ server'.op # "undefined"
<1> USE DEF Streams
<1>1. /\ server.op = "read" /\ UNCHANGED <<async_rpc, script, sockets, sent, calls,
                                           pending, client, toClient>>
  BY DEF ServerRead, sessionVars, socketVars
<1>2. PICK n \in Readable(server, Len(toServer)) :
        /\ toServer' = Drop(toServer, n)
        /\ Handle(Received(server, SubSeq(toServer, 1, n), RequestSize))
  BY DEF ServerRead
<1>3. /\ ConnInv(server) /\ toServer \in Seq(Byte) /\ server.buf \in Seq(Byte)
      /\ server \in Connection
  BY DEF ServerInv, ConnInv, Connection
<1>4. n \in 1..Len(toServer) /\ Len(server.buf) + n <= server.room
  BY <1>1, <1>3, ReadsSome, LenProperties
<1> DEFINE b == server.buf \o SubSeq(toServer, 1, n)
           c == [server EXCEPT !.buf = b]
<1>5. /\ b \in Seq(Byte) /\ Len(b) = Len(server.buf) + n
      /\ toServer' \in Seq(Byte) /\ b \o toServer' = server.buf \o toServer
  <2>1. n \in 0..Len(toServer)
    BY <1>3, <1>4, LenProperties
  <2> QED
    BY <1>2, <1>3, <2>1, MoveBytes
<1>6. Len(server.buf) \in Nat /\ Len(toServer) \in Nat
  BY <1>3, LenProperties
<1>7. Handle(HandleBuffer(c, RequestSize))
  BY <1>2 DEF Received
<1> HIDE DEF b
<1>8. /\ c \in Connection /\ c.buf = b /\ c.room = server.room /\ c.state = server.state
      /\ c.frame_size = server.frame_size /\ c.op = "read"
  BY <1>1, <1>3, <1>5 DEF Connection
<1> HIDE DEF c
<1>9. c.room >= kFrameSize /\ Len(c.buf) > 0 /\ Len(c.buf) <= c.room
  <2> DEFINE x == Len(c.buf)
             y == Len(server.buf)
  <2>1. x = y + n /\ y \in Nat /\ y + n <= c.room
    BY <1>4, <1>5, <1>6, <1>8
  <2>2. n \in Nat /\ n > 0
    BY <1>4, <1>6
  <2> HIDE DEF x, y
  <2>3. x > 0 /\ x <= c.room
    BY <2>1, <2>2
  <2> QED
    BY <1>3, <1>8, <2>3 DEF ConnInv, x
<1>10. c.state = "kReadFrame" =>
         /\ Len(handled) < Len(sent) /\ c.frame_size = RequestSize[sent[Len(handled) + 1]]
         /\ Legal(c.frame_size)
  BY <1>1, <1>8 DEF ServerInv, ConnInv
<1>11. LaidOut(c.buf \o toServer', Len(handled) + 1, sent, RequestSize)
  BY <1>1, <1>5, <1>8 DEF ServerInv, Unread
<1>12. /\ ServerInv' /\ server'.op # "undefined"
       /\ \/ handled' = handled /\ server'.op \in {"read", "closed"}
          \/ /\ Len(handled) < Len(sent)
             /\ handled' = Append(handled, FrameBytes(sent[Len(handled) + 1], RequestSize))
  BY <1>1, <1>5, <1>7, <1>8, <1>9, <1>10, <1>11, Handles
<1>13. /\ SentInv' /\ Len(handled') \in Nat
       /\ handled' # handled => Len(handled') = Len(handled) + 1
  BY <1>1, <1>12, SentHandles
<1>14. Unanswered' \subseteq Unanswered
  BY <1>1, <1>12, <1>13, UnansweredShrinks
<1>15. WaitInv'
  BY <1>1, <1>14, WaitServer
<1>16. ClientInv' /\ SessionInv'
  BY <1>1, ClientSame, SessionSame DEF SessionInv, sessionVars
<1>17. client.op = "closed" \/ ~(Len(Arriving) > 0)
  <2>1. Len(handled) # Len(sent)
    <3>1. SUFFICES ASSUME Len(handled) = Len(sent) PROVE FALSE
      OBVIOUS
    <3>2. Len(handled) + 1 \in 1..(Len(sent) + 1)
      BY LenNats, <3>1
    <3> DEFINE u == server.buf \o toServer
    <3>3. u \in Seq(Byte) /\ Len(u) = Len(server.buf) + Len(toServer)
      BY <1>3, ConcatProperties
    <3>4. LaidOut(u, Len(handled) + 1, sent, RequestSize)
      BY <1>1 DEF ServerInv, Unread
    <3>5. RequestSize \in [Ids -> Nat] /\ sent \in Seq(Ids)
      BY SizesNat DEF SessionInv, SentInv
    <3> HIDE DEF u
    <3>6. Len(u) = 0
      BY <3>1, <3>2, <3>3, <3>4, <3>5, LaidOutFirst
    <3> DEFINE x == Len(u)
               y == Len(server.buf)
               z == Len(toServer)
    <3>7. x = y + z /\ x = 0 /\ y \in Nat /\ z \in Nat /\ n \in 1..z
      BY <1>4, <1>6, <3>3, <3>6
    <3> HIDE DEF x, y, z
    <3> QED
      BY <3>7
  <2> QED
    BY <2>1 DEF ReplyInv
<1>18. ReplyInv'
  BY <1>1, <1>17 DEF ReplyInv, Arriving
<1> QED
  BY <1>12, <1>13, <1>15, <1>16, <1>18

\* The server closes its end.
LEMMA ServerClosesStep ==
  ASSUME Streams, server.op \in {"read", "rpc", "write"}, server' = Closed(server),
         UNCHANGED <<sessionVars, socketVars, calls, pending, outcome, client, toServer,
                     toClient, handled>>
  PROVE  Streams'
<1> USE DEF Streams, sessionVars, socketVars
<1>1. ConnInv(server') /\ server'.op = "closed"
  <2>1. "closed" \in Op \ {"read"}
    BY DEF Op
  <2> QED
    BY <2>1, OpConn DEF ServerInv, Closed
<1>2. ServerInv'
  BY <1>1 DEF ServerInv
<1>3. SentInv' /\ SessionInv' /\ ClientInv'
  BY SentHandles, SessionSame, ClientSame DEF SessionInv
<1>4. WaitInv'
  BY <1>1, LenNats, UnansweredShrinks, WaitServer
<1>5. ReplyInv'
  <2>1. Arriving' = Arriving /\ ReplySize' = ReplySize
    BY DEF Arriving, ReplySize, Ids
  <2> QED
    BY <1>1, <2>1 DEF ReplyInv
<1> QED
  BY <1>2, <1>3, <1>4, <1>5

\* While a request is served there is no reply.
LEMMA NoReplyYet ==
  ASSUME Streams, server.op \in {"rpc", "write"}, client.op # "closed" PROVE Len(Arriving) = 0
<1>1. Arriving \in Seq(Byte)
  <2>1. toClient \in Seq(Byte) /\ client.buf \in Seq(Byte) /\ << >> \in Seq(Byte)
    BY EmptySeq DEF Streams, ClientInv, ConnInv, Connection
  <2> QED
    BY <2>1, ConcatProperties DEF Arriving
<1> QED
  BY <1>1, LenProperties DEF Streams, ReplyInv

LEMMA ServedIs ==
  ASSUME Streams, server.op \in {"rpc", "write"}
  PROVE  /\ Serving = sent[Len(handled)] /\ Len(handled) \in 1..Len(sent)
         /\ Serving \in Ids /\ Serving \in Nat
         /\ RequestSize[Serving] \in Nat /\ ReplySize[Serving] \in Nat
<1> DEFINE n == Len(handled)
<1>1. n \in 1..Len(sent) /\ n \in 1..n
  BY LenNats DEF Streams, ServerInv
<1>2. sent[n] \in Ids
  BY <1>1, ElementOfSeq DEF Streams, SentInv
<1>3. sent[n] \in Nat /\ RequestSize[sent[n]] \in Nat /\ ReplySize[sent[n]] \in Nat
  BY <1>2, SizesNat DEF Streams, SessionInv
<1>4. handled[n] = FrameBytes(sent[n], RequestSize)
  BY <1>1 DEF Streams, SentInv
<1>5. FrameBytes(sent[n], RequestSize)[1] = <<sent[n], 1>>
  <2>1. 1 \in 1..(kFrameSize + RequestSize[sent[n]])
    BY <1>3, SizeAssumption
  <2> QED
    BY <1>3, <2>1, FrameIsBytes
<1>6. Serving = sent[n]
  BY <1>4, <1>5 DEF Serving, Last
<1> QED
  BY <1>1, <1>2, <1>3, <1>6

LEMMA AsyncProcessStep == ASSUME Streams, AsyncProcess PROVE Streams'
<1> USE DEF sessionVars, socketVars
<1>1. /\ server.op = "rpc"
      /\ UNCHANGED <<sessionVars, socketVars, calls, pending, outcome, client, toServer,
                     toClient, handled>>
  BY DEF AsyncProcess
<1>2. CASE server' = Closed(server)
  BY <1>1, <1>2, ServerClosesStep
<1>3. CASE server' # Closed(server)
  <2>1. async_rpc /\ ~IsOneway(Serving) /\ Serving = sent[Len(handled)]
    BY <1>1, ServedIs DEF Streams, ServerInv, SessionInv
  <2>2. server' = [server EXCEPT !.op = "write"] /\ ~script[Serving].fails
    BY <1>3, <2>1 DEF AsyncProcess
  <2>3. /\ ConnInv(server') /\ server'.op = "write" /\ Rest(server') = Rest(server)
        /\ server'.frame_size = server.frame_size /\ (Complete(server') <=> Complete(server))
    <3>1. "write" \in Op \ {"read"}
      BY DEF Op
    <3> QED
      BY <2>2, <3>1, OpConn DEF Streams, ServerInv
  <2>4. Unread' = Unread /\ RequestSize' = RequestSize
    BY <1>1, <2>3 DEF Unread, RequestSize, Ids
  <2>5. ServerInv'
    BY <1>1, <2>1, <2>2, <2>3, <2>4 DEF Streams, ServerInv
  <2>6. SentInv' /\ SessionInv' /\ ClientInv'
    BY <1>1, SentHandles, SessionSame, ClientSame DEF Streams, SessionInv
  <2>7. WaitInv'
    BY <1>1, LenNats, UnansweredShrinks, WaitServer DEF Streams
  <2>8. ReplyInv'
    <3>1. Arriving' = Arriving
      BY <1>1 DEF Arriving
    <3> QED
      BY <1>1, <3>1, NoReplyYet DEF ReplyInv
  <2> QED
    BY <2>5, <2>6, <2>7, <2>8 DEF Streams
<1> QED
  BY <1>2, <1>3

\* When the last request is being served nothing is unread behind it.
LEMMA NothingBehind ==
  ASSUME Streams, server.op \in {"rpc", "write"}, Len(handled) = Len(sent)
  PROVE  Rest(server) = << >>
<1>1. /\ server.buf \in Seq(Byte) /\ toServer \in Seq(Byte) /\ server.frame_size \in Nat
      /\ Len(server.buf) >= server.frame_size + kFrameSize
  BY DEF Streams, ServerInv, ConnInv, Connection, Complete
<1> DEFINE w == server.frame_size + kFrameSize
           r == Rest(server)
           u == r \o toServer
<1>2. w \in Nat /\ w <= Len(server.buf)
  BY <1>1, SizeAssumption
<1>3. r \in Seq(Byte)
  BY <1>1, <1>2, DropSeq DEF Rest
<1>4. LaidOut(u, Len(sent) + 1, sent, RequestSize)
  BY DEF Streams, ServerInv, Unread
<1>5. RequestSize \in [Ids -> Nat] /\ sent \in Seq(Ids) /\ Len(sent) + 1 \in 1..(Len(sent) + 1)
  BY SizesNat, LenNats DEF Streams, SessionInv, SentInv
<1> HIDE DEF r
<1>6. u \in Seq(Byte) /\ Len(u) = Len(r) + Len(toServer)
  BY <1>1, <1>3, ConcatProperties
<1> HIDE DEF u
<1>7. Len(u) = 0
  BY <1>4, <1>5, <1>6, LaidOutFirst
<1>8. Len(r) \in Nat /\ Len(toServer) \in Nat
  BY <1>1, <1>3, LenProperties
<1>9. Len(r) = 0
  BY <1>6, <1>7, <1>8
<1>10. r = << >>
  BY <1>3, <1>9, EmptySeq
<1> QED
  BY <1>10 DEF r

LEMMA ServerWriteStep ==
  ASSUME Streams, ServerWrite
  PROVE  /\ Streams'
         /\ server'.op = "undefined" => Len(Rest(server)) > server.frame_size + kFrameSize
<1>1. /\ server.op = "write"
      /\ UNCHANGED <<async_rpc, script, sockets, sent, calls, pending, client, toServer>>
      /\ toClient' = IF client.op = "closed" THEN toClient ELSE toClient \o Reply(Serving)
  BY DEF ServerWrite, sessionVars, socketVars
<1>2. /\ Serving = sent[Len(handled)] /\ Len(handled) \in 1..Len(sent)
      /\ Serving \in Ids /\ Serving \in Nat
      /\ RequestSize[Serving] \in Nat /\ ReplySize[Serving] \in Nat
  BY <1>1, ServedIs
<1>3. PICK c \in Written(server, RequestSize) : Handle(c)
  BY DEF ServerWrite
<1>4. /\ ConnInv(server) /\ server \in Connection /\ toServer \in Seq(Byte)
      /\ server.buf \in Seq(Byte) /\ server.room >= kFrameSize
      /\ Complete(server) /\ server.frame_size \in Nat /\ toClient \in Seq(Byte)
      /\ client.buf \in Seq(Byte)
  BY <1>1 DEF Streams, ServerInv, ClientInv, ConnInv, Connection
<1>5. LaidOut(Rest(server) \o toServer, Len(handled) + 1, sent, RequestSize)
  BY <1>1 DEF Streams, ServerInv, Unread
<1> DEFINE w == server.frame_size + kFrameSize
<1>6. w \in Nat /\ w <= Len(server.buf)
  BY <1>4, SizeAssumption DEF Complete
<1>7. Rest(server) \in Seq(Byte) /\ Len(Rest(server)) = Len(server.buf) - w
  BY <1>4, <1>6, DropSeq DEF Rest
<1>8. RequestSize' = RequestSize /\ ReplySize' = ReplySize /\ Ids' = Ids
  BY <1>1 DEF RequestSize, ReplySize, Ids
<1> DEFINE Handled ==
             \/ handled' = handled /\ server'.op \in {"read", "closed", "undefined"}
             \/ /\ Len(handled) < Len(sent)
                /\ handled' = Append(handled, FrameBytes(sent[Len(handled) + 1], RequestSize))
<1>9. ServerInv' /\ Handled /\ (server'.op = "undefined" => Len(Rest(server)) > w)
  <2>1. CASE Rest(server) = << >>
    <3>1. c = Restart(server)
      BY <1>3, <2>1 DEF Written
    <3>2. /\ ConnInv(c) /\ c.buf = << >> /\ c.op = "read" /\ c.state = "kReadFrameSize"
      BY <1>4, <3>1, RestartConn
    <3>3. server' = c /\ handled' = handled
      BY <1>3, <3>2 DEF Handle
    <3>4. Unread' = Rest(server) \o toServer
      BY <1>1, <2>1, <3>2, <3>3 DEF Unread
    <3>5. ServerInv'
      BY <1>1, <1>4, <1>5, <1>8, <3>2, <3>3, <3>4 DEF ServerInv
    <3> QED
      BY <3>2, <3>3, <3>5
  <2>2. CASE /\ Rest(server) # << >>
             /\ c = HandleBuffer([server EXCEPT !.buf = Rest(server), !.frame_size = 0,
                                                !.state = "kReadFrameSize"], RequestSize)
    <3> DEFINE b == Rest(server)
               e == [server EXCEPT !.buf = b, !.frame_size = 0, !.state = "kReadFrameSize"]
    <3>1. b \in Seq(Byte) /\ Len(b) > 0
      BY <1>7, <2>2, EmptySeq
    <3>2. Len(b) <= server.room
      <4> DEFINE x == Len(server.buf)
                 y == Len(b)
                 room == server.room
      <4>1. y = x - w /\ x <= room /\ x \in Nat /\ room \in Nat
        BY <1>4, <1>7, LenProperties DEF ConnInv, Connection
      <4> HIDE DEF w, x, y, room
      <4>2. w \in Nat
        BY <1>6
      <4>3. y <= room
        BY <4>1, <4>2
      <4> QED
        BY <4>3 DEF y, room
    <3> HIDE DEF b
    <3>3. e \in Connection /\ e.buf = b /\ e.room = server.room /\ e.state = "kReadFrameSize"
      BY <1>4, <3>1 DEF Connection
    <3>4. Handle(HandleBuffer(e, RequestSize))
      BY <1>3, <2>2 DEF b
    <3>5. LaidOut(b \o toServer', Len(handled) + 1, sent, RequestSize)
      BY <1>1, <1>5 DEF b
    <3> HIDE DEF e
    <3>6. /\ e.state # "kReadFrame" /\ e.room >= kFrameSize /\ Len(e.buf) > 0
          /\ Len(e.buf) <= e.room /\ toServer' \in Seq(Byte)
          /\ LaidOut(e.buf \o toServer', Len(handled) + 1, sent, RequestSize)
      BY <1>1, <1>4, <3>1, <3>2, <3>3, <3>5
    <3>7. ServerInv' /\ Handled /\ server'.op # "undefined"
      BY <1>1, <3>3, <3>4, <3>6, Handles DEF Streams
    <3> QED
      BY <3>7
  <2>3. CASE c = [server EXCEPT !.op = "undefined"] /\ Len(Rest(server)) > w
    <3>1. ConnInv(c) /\ c.op = "undefined"
      <4>1. "undefined" \in Op \ {"read"}
        BY DEF Op
      <4> QED
        BY <1>4, <2>3, <4>1, OpConn
    <3>2. server' = c /\ handled' = handled
      BY <1>3, <3>1 DEF Handle
    <3> QED
      BY <1>1, <1>4, <2>3, <3>1, <3>2 DEF ServerInv
  <2> QED
    BY <1>3, <2>1, <2>2, <2>3 DEF Written
<1>10. /\ SentInv' /\ Len(handled') \in Nat
       /\ handled' # handled => Len(handled') = Len(handled) + 1 /\ Len(handled) < Len(sent)
  BY <1>1, <1>9, SentHandles DEF Streams
<1>11. Unanswered' \subseteq Unanswered
  BY <1>1, <1>9, <1>10, UnansweredShrinks DEF Streams
<1>12. WaitInv' /\ SessionInv'
  BY <1>1, <1>11, WaitServer, SessionSame DEF Streams, SessionInv, sessionVars
<1>13. CASE client.op = "closed"
  <2>1. toClient' = toClient
    BY <1>1, <1>13
  <2>2. ClientInv' /\ ReplyInv'
    BY <1>1, <1>13, <2>1, ClientSame DEF Streams, ReplyInv
  <2> QED
    BY <1>9, <1>10, <1>12, <2>2 DEF Streams
<1>14. CASE client.op # "closed"
  <2> DEFINE b == IF client.op = "read" THEN client.buf ELSE << >>
             t == Reply(Serving)
  <2>1. b \in Seq(Byte) /\ Len(Arriving) = 0 /\ Arriving = b \o toClient
    BY <1>1, <1>4, <1>14, NoReplyYet, EmptySeq DEF Arriving
  <2>2. Arriving \in Seq(Byte)
    BY <1>4, <2>1, ConcatProperties
  <2>3. b \o toClient = << >> /\ b = << >> /\ toClient = << >>
    BY <1>4, <2>1, <2>2, EmptySeq, ConcatEqualIffEmpty
  <2>4. /\ t \in Seq(Byte) /\ (IsOneway(Serving) => Len(t) = 0)
        /\ ~IsOneway(Serving) => t = FrameBytes(Serving, ReplySize)
    BY <1>2, FrameIsBytes, EmptySeq DEF Reply
  <2> HIDE DEF t
  <2>5. toClient' = t
    BY <1>1, <1>14, <2>3, <2>4, ConcatEmptySeq DEF t
  <2>6. Arriving' = t
    <3>1. Arriving' = b \o toClient'
      BY <1>1 DEF Arriving
    <3> QED
      BY <2>3, <2>4, <2>5, <3>1, ConcatEmptySeq
  <2>7. ClientInv'
    BY <1>1, <1>8, <2>4, <2>5 DEF Streams, ClientInv
  <2>8. ReplyInv'
    <3>1. CASE IsOneway(Serving)
      BY <2>4, <2>6, <3>1 DEF ReplyInv
    <3>2. CASE ~IsOneway(Serving)
      <4>1. Len(handled) \in Unanswered
        BY <1>1, <1>2, <3>2 DEF Unanswered
      <4>2. /\ Len(handled) = Len(sent) /\ client.op \in Awaiting /\ pending = sent[Len(handled)]
        BY <1>14, <4>1 DEF Streams, WaitInv
      <4>3. Rest(server) = << >>
        BY <1>1, <4>2, NothingBehind
      <4>4. c = Restart(server)
        BY <1>3, <4>3 DEF Written
      <4>5. server' = c /\ server'.op = "read" /\ handled' = handled
        BY <1>3, <1>4, <4>4, RestartConn DEF Handle
      <4>6. script[pending].fails => ~async_rpc
        BY <1>1, <4>2 DEF Streams, ServerInv
      <4>7. Len(sent) > 0
        BY <1>2, <4>2, LenNats DEF Streams
      <4> QED
        BY <1>1, <1>2, <1>8, <2>4, <2>6, <3>2, <4>2, <4>5, <4>6, <4>7 DEF ReplyInv
    <3> QED
      BY <3>1, <3>2
  <2> QED
    BY <1>9, <1>10, <1>12, <2>7, <2>8 DEF Streams
<1> QED
  BY <1>13, <1>14

-------------------------------------------------------------------------------
(* The steps of the client. *)

\* A step that touches neither the streams nor the server, of a client that does not
\* wait for a reply or that gives up.
LEMMA ClientOnly ==
  ASSUME Streams, CallsInv, CallsInv',
         UNCHANGED <<async_rpc, script, sockets, sent, server, toServer, toClient, handled>>,
         calls' \in Nat, calls' >= calls,
         ConnInv(client'),
         client'.op \in {"idle", "write", "sync_write", "closed", "detached"},
         client'.op \in {"write", "sync_write"} => pending' = calls + 1,
         client'.op = "closed" \/ client.op \in {"idle", "detached"}
  PROVE  Streams'
<1> USE DEF Streams
<1>1. /\ Ids' = Ids /\ RequestSize' = RequestSize /\ ReplySize' = ReplySize
      /\ Unanswered' = Unanswered
  BY DEF Ids, RequestSize, ReplySize, Unanswered, IsOneway
<1>2. SessionInv' /\ ServerInv'
  BY SessionSame, ServerSame DEF SessionInv, sessionVars
<1>3. SentInv'
  <2>1. calls \in Nat /\ \A i \in 1..Len(sent) : sent[i] \in Nat /\ sent[i] <= calls
    <3>1. \A i \in 1..Len(sent) : sent[i] \in Ids
      BY ElementOfSeq DEF SentInv
    <3>2. Ids \subseteq Nat
      BY SizesNat DEF SessionInv
    <3>3. calls \in Nat
      BY DEF CallsInv, OutcomeInv
    <3> QED
      BY <3>1, <3>2, <3>3 DEF SentInv
  <2>2. \A i \in 1..Len(sent) : sent[i] <= calls' /\ sent[i] < calls + 1
    BY <2>1
  <2> QED
    BY <1>1, <2>1, <2>2 DEF SentInv
<1>4. ClientInv'
  BY <1>1 DEF ClientInv
<1>5. WaitInv'
  <2>1. client'.op # "closed" => Unanswered = {}
    BY DEF WaitInv, Awaiting
  <2> QED
    BY <1>1, <2>1 DEF WaitInv
<1>6. ReplyInv'
  <2>1. SUFFICES ASSUME client'.op # "closed" PROVE ~(Len(Arriving') > 0)
    BY <2>1 DEF ReplyInv
  <2>2. Arriving' = Arriving
    BY <2>1 DEF Arriving
  <2>3. ~(Len(Arriving) > 0)
    BY <2>1 DEF ReplyInv, Awaiting
  <2> QED
    BY <2>2, <2>3
<1> QED
  BY <1>2, <1>3, <1>4, <1>5, <1>6

\* The request is written to the stream.
LEMMA SendStep ==
  ASSUME Streams, CallsInv, CallsInv', SendRequest, client.op \in {"write", "sync_write"},
         UNCHANGED <<async_rpc, script, sockets, calls, server, toClient, handled>>,
         ConnInv(client'), client'.op \in {"idle", "read", "sync_read"},
         client'.op = "idle" => IsOneway(pending),
         client'.op # "idle" => pending' = pending,
         client'.op = "read" => client'.buf = << >> /\ client'.state = "kReadFrameSize"
  PROVE  Streams'
<1> USE DEF Streams
<1> DEFINE k == pending
           n == Len(sent)
           f == FrameBytes(k, RequestSize)
<1>1. /\ Ids' = Ids /\ RequestSize' = RequestSize /\ ReplySize' = ReplySize
      /\ RequestSize \in [Ids -> Nat] /\ sent \in Seq(Ids) /\ Ids \subseteq Nat
  BY SizesNat DEF Ids, RequestSize, ReplySize, SessionInv, SentInv
<1>2. k \in Ids /\ k \in Nat /\ RequestSize[k] \in Nat /\ k = calls
  BY <1>1 DEF CallsInv, OpInv, OutcomeInv, Busy, Ids
<1>3. f \in Seq(Byte)
  BY <1>2, FrameIsBytes
<1>4. /\ sent' = Append(sent, k)
      /\ toServer' = IF server.op = "closed" THEN toServer ELSE toServer \o f
  BY DEF SendRequest
<1>5. /\ sent' \in Seq(Ids) /\ Len(sent') = n + 1 /\ sent'[n + 1] = k
      /\ \A i \in 1..n : sent'[i] = sent[i]
  BY <1>1, <1>2, <1>4, AppendProperties
<1>6. n \in Nat /\ Len(handled) \in Nat /\ Len(handled) <= n
  BY LenNats
<1>7. SessionInv'
  BY SessionSame DEF SessionInv, sessionVars
<1>8. SentInv'
  <2>1. ASSUME NEW i \in 1..Len(sent')
        PROVE  sent'[i] <= calls' /\ \A j \in 1..(i - 1) : sent'[j] < sent'[i]
    <3>1. CASE i = n + 1
      <4>1. \A j \in 1..(i - 1) : sent'[j] = sent[j] /\ sent[j] < k
        BY <1>5, <1>6, <3>1 DEF SentInv
      <4> QED
        BY <1>2, <1>5, <3>1, <4>1
    <3>2. CASE i # n + 1
      <4>1. i \in 1..n /\ \A j \in 1..(i - 1) : j \in 1..n
        BY <1>5, <1>6, <3>2
      <4> QED
        BY <1>5, <4>1 DEF SentInv
    <3> QED
      BY <3>1, <3>2
  <2>2. \A i \in 1..Len(handled) : handled[i] = FrameBytes(sent'[i], RequestSize)
    <3>1. \A i \in 1..Len(handled) : i \in 1..n
      BY <1>6
    <3> QED
      BY <1>5, <3>1 DEF SentInv
  <2> HIDE DEF k, f
  <2>3. client'.op \notin {"write", "sync_write"} /\ Len(handled') <= Len(sent')
    BY <1>5, <1>6
  <2> QED
    BY <1>1, <1>5, <2>1, <2>2, <2>3 DEF SentInv
<1>9. ServerInv'
  <2>1. toServer \in Seq(Byte) /\ toServer' \in Seq(Byte)
    <3>1. toServer \in Seq(Byte)
      BY DEF ServerInv
    <3>2. toServer \o f \in Seq(Byte)
      BY <1>3, <3>1, ConcatProperties
    <3> QED
      BY <1>4, <3>1, <3>2
  <2>2. server.op \in {"rpc", "write"} =>
          /\ Len(handled) \in 1..n /\ sent'[Len(handled)] = sent[Len(handled)]
    BY <1>5, <1>6 DEF ServerInv
  <2>3. server.op = "read" /\ server.state = "kReadFrame" =>
          /\ Len(handled) < Len(sent')
          /\ sent'[Len(handled) + 1] = sent[Len(handled) + 1]
    BY <1>5, <1>6 DEF ServerInv
  <2>4. ASSUME server.op \in {"read", "rpc", "write"}
        PROVE  LaidOut(Unread', Len(handled) + 1, sent', RequestSize)
    <3> DEFINE b == IF server.op = "read" THEN server.buf ELSE Rest(server)
               u == b \o toServer
               p == Len(handled) + 1
    <3>1. b \in Seq(Byte)
      <4>1. server.buf \in Seq(Byte) /\ server.frame_size \in Nat
        BY DEF ServerInv, ConnInv, Connection
      <4>2. server.op # "read" => Rest(server) \in Seq(Byte)
        <5> DEFINE w == server.frame_size + kFrameSize
        <5>1. w \in Nat
          BY <4>1, SizeAssumption
        <5>2. server.op # "read" => w <= Len(server.buf)
          BY <2>4, <4>1, SizeAssumption DEF ServerInv, Complete
        <5> QED
          BY <4>1, <5>1, <5>2, DropSeq DEF Rest
      <4> QED
        BY <4>1, <4>2
    <3>2. Unread' = b \o (toServer \o f)
      BY <1>4, <2>4 DEF Unread
    <3> HIDE DEF b, f
    <3>3. b \o (toServer \o f) = u \o f
      BY <1>3, <2>1, <3>1, ConcatAssociative
    <3>4. u \in Seq(Byte)
      BY <2>1, <3>1, ConcatProperties
    <3>5. LaidOut(u, p, sent, RequestSize)
      BY <2>4 DEF ServerInv, Unread, b
    <3>6. p \in 1..(Len(sent) + 1)
      BY <1>6
    <3> HIDE DEF u, p, k
    <3>7. LaidOut(u \o FrameBytes(k, RequestSize), p, Append(sent, k), RequestSize)
      BY <1>1, <1>2, <3>4, <3>5, <3>6, LaidOutAppend
    <3> QED
      BY <1>4, <3>2, <3>3, <3>7 DEF f, p, u
  <2> HIDE DEF k, f
  <2>5. server' = server /\ handled' = handled /\ script' = script /\ async_rpc' = async_rpc
    OBVIOUS
  <2> QED
    BY <1>1, <2>1, <2>2, <2>3, <2>4, <2>5 DEF ServerInv
<1>10. toClient = << >>
  <2>1. toClient \in Seq(Byte) /\ Arriving = << >> \o toClient /\ << >> \o toClient = toClient
    BY ConcatEmptySeq DEF ClientInv, Arriving
  <2>2. ~(Len(toClient) > 0)
    BY <2>1 DEF ReplyInv, Awaiting
  <2>3. Len(toClient) \in Nat
    BY <2>1, LenProperties
  <2> QED
    BY <2>1, <2>2, <2>3, EmptySeq
<1>11. ClientInv'
  BY <1>1, <1>10 DEF ClientInv
<1>12. ReplyInv'
  <2>1. Arriving' = << >> \o << >>
    BY <1>10 DEF Arriving
  <2>2. << >> \in Seq(Byte) /\ Len(<< >>) = 0
    BY EmptySeq
  <2>3. Arriving' = << >>
    BY <2>1, <2>2, ConcatEmptySeq
  <2> QED
    BY <2>2, <2>3 DEF ReplyInv
<1>13. WaitInv'
  <2>1. Unanswered = {}
    BY DEF WaitInv, Awaiting
  <2> SUFFICES ASSUME NEW m \in Unanswered'
               PROVE  m = Len(sent') /\ client'.op \in Awaiting /\ pending' = sent'[m]
    BY DEF WaitInv, Awaiting
  <2>2. /\ m \in 1..Len(sent') /\ ~IsOneway(sent'[m])
        /\ m > Len(handled) \/ (m = Len(handled) /\ server.op \in {"rpc", "write"})
    BY DEF Unanswered, IsOneway
  <2>3. m = n + 1
    <3>1. SUFFICES ASSUME m # n + 1 PROVE FALSE
      OBVIOUS
    <3>2. m \in 1..n
      BY <1>5, <1>6, <2>2, <3>1
    <3>3. m \in Unanswered
      BY <1>5, <2>2, <3>2 DEF Unanswered
    <3> QED
      BY <2>1, <3>3
  <2>4. ~IsOneway(k)
    BY <1>5, <2>2, <2>3
  <2> QED
    BY <1>5, <2>3, <2>4 DEF Awaiting
<1> QED
  BY <1>7, <1>8, <1>9, <1>11, <1>12, <1>13

\* What a client that reads has of the reply: nothing, or it is the reply to the
\* call in progress, which is the last that was sent, and nothing is unanswered.
LEMMA ReplyIs ==
  ASSUME Streams, CallsInv, client.op \in {"read", "sync_read"}, Len(toClient) > 0
  PROVE  /\ Arriving = FrameBytes(pending, ReplySize) /\ Unanswered = {}
         /\ pending \in Ids /\ pending \in Nat /\ ReplySize[pending] \in Nat
         /\ script[pending].fails => ~async_rpc
         /\ FrameBytes(pending, RequestSize) \in ToSet(handled)
<1> USE DEF Streams
<1>1. toClient \in Seq(Byte) /\ client.buf \in Seq(Byte) /\ << >> \in Seq(Byte)
  BY EmptySeq DEF ClientInv, ConnInv, Connection
<1> DEFINE b == IF client.op = "read" THEN client.buf ELSE << >>
           x == Len(b)
           y == Len(toClient)
           a == Len(Arriving)
<1>2. b \in Seq(Byte)
  BY <1>1
<1>3. a = x + y /\ x \in Nat /\ y \in Nat /\ y > 0
  <2> HIDE DEF b
  <2>1. Arriving = b \o toClient
    BY DEF Arriving, b
  <2>2. Len(b \o toClient) = Len(b) + Len(toClient)
    BY <1>1, <1>2, ConcatProperties
  <2>3. Len(b) \in Nat /\ Len(toClient) \in Nat
    BY <1>1, <1>2, LenProperties
  <2> QED
    BY <2>1, <2>2, <2>3
<1> HIDE DEF a, x, y, b
<1>4. a > 0
  BY <1>3
<1>5. /\ Arriving = FrameBytes(pending, ReplySize)
      /\ Len(handled) = Len(sent) /\ Len(sent) > 0 /\ sent[Len(sent)] = pending
      /\ server.op \notin {"rpc", "write"}
      /\ script[pending].fails => ~async_rpc
  BY <1>4 DEF ReplyInv, a
<1>6. Unanswered = {}
  BY <1>5, LenNats DEF Unanswered
<1>7. Len(sent) \in 1..Len(sent)
  BY <1>5, LenNats
<1>8. pending \in Ids /\ pending \in Nat /\ ReplySize[pending] \in Nat
  <2>1. pending \in Ids
    BY <1>5, <1>7, ElementOfSeq DEF SentInv
  <2> QED
    BY <2>1, SizesNat DEF SessionInv
<1>9. FrameBytes(pending, RequestSize) \in ToSet(handled)
  <2>1. /\ handled[Len(handled)] = FrameBytes(pending, RequestSize)
        /\ Len(handled) \in DOMAIN handled
    BY <1>5, <1>7, LenProperties DEF SentInv
  <2> QED
    BY <2>1 DEF ToSet
<1> QED
  BY <1>5, <1>6, <1>8, <1>9

\* A step of a client that reads a reply, or some of it.
LEMMA ReadStep ==
  ASSUME Streams, CallsInv, Unanswered = {},
         UNCHANGED <<async_rpc, script, sockets, sent, calls, server, toServer, handled>>,
         ConnInv(client'), toClient' \in Seq(Byte),
         client'.op \in {"closed", "idle", "read"},
         client'.op = "idle" => Len(toClient') = 0,
         client'.op = "read" =>
            /\ client.op = "read" /\ pending' = pending /\ Arriving' = Arriving
            /\ client'.state = "kReadFrame" => client'.frame_size = ReplySize[pending]
  PROVE  Streams'
<1> USE DEF Streams
<1>1. /\ Ids' = Ids /\ RequestSize' = RequestSize /\ ReplySize' = ReplySize
      /\ Unanswered' = Unanswered
  BY DEF Ids, RequestSize, ReplySize, Unanswered, IsOneway
<1>2. SessionInv' /\ ServerInv'
  BY SessionSame, ServerSame DEF SessionInv, sessionVars
<1>3. SentInv'
  BY <1>1 DEF SentInv
<1>4. ClientInv'
  BY <1>1 DEF ClientInv
<1>5. WaitInv'
  BY <1>1 DEF WaitInv
<1>6. ReplyInv'
  <2>1. CASE client'.op = "closed"
    BY <2>1 DEF ReplyInv
  <2>2. CASE client'.op = "idle"
    <3>1. Arriving' = << >> \o toClient' /\ << >> \o toClient' = toClient'
      BY <2>2, ConcatEmptySeq DEF Arriving
    <3> QED
      BY <2>2, <3>1 DEF ReplyInv
  <2>3. CASE client'.op = "read"
    BY <1>1, <2>3 DEF ReplyInv, Awaiting
  <2> QED
    BY <2>1, <2>2, <2>3
<1> QED
  BY <1>2, <1>3, <1>4, <1>5, <1>6

\* With the whole of a reply in the buffer, nothing more is under way.
LEMMA NothingMore ==
  ASSUME NEW b \in Seq(Byte), NEW t \in Seq(Byte), NEW k \in Nat, NEW size, size[k] \in Nat,
         b \o t = FrameBytes(k, size), Len(b) >= size[k] + kFrameSize
  PROVE  Len(t) = 0
<1> DEFINE x == Len(b)
           y == Len(t)
<1>1. Len(b \o t) = x + y /\ x \in Nat /\ y \in Nat
  BY ConcatProperties, LenProperties
<1>2. Len(FrameBytes(k, size)) = kFrameSize + size[k] /\ kFrameSize \in Nat
  BY FrameIsBytes, SizeAssumption
<1>3. x + y = kFrameSize + size[k] /\ x >= size[k] + kFrameSize
  BY <1>1, <1>2
<1> HIDE DEF x, y
<1>4. y = 0
  BY <1>1, <1>2, <1>3
<1> QED
  BY <1>4 DEF y

\* What the client makes of bytes of a reply: it closes, or it has the whole reply to the
\* call in progress, or goes on reading.
Reads(r, frame) ==
  \/ r.op = "closed" /\ client' = r /\ CompletePendingOp(Error)
  \/ /\ r.op = "frame" /\ client' = [r EXCEPT !.op = "idle"]
     /\ frame = FrameBytes(pending, ReplySize)
     /\ CompletePendingOp(FillResult(pending, frame))
  \/ r.op = "read" /\ client' = r /\ UNCHANGED <<outcome, pending>>

LEMMA ClientReadStep ==
  ASSUME Streams, CallsInv, ClientRead
  PROVE  /\ Streams' /\ Len(toClient) > 0
         /\ \E r, frame : Reads(r, frame)
<1>1. /\ client.op = "read"
      /\ UNCHANGED <<async_rpc, script, sockets, sent, calls, server, toServer, handled>>
  BY DEF ClientRead, sessionVars, socketVars
<1>2. PICK n \in Readable(client, Len(toClient)) :
        LET c == Received(client, SubSeq(toClient, 1, n), ReplySize)
        IN /\ toClient' = Drop(toClient, n)
           /\ CASE c.op = "frame" -> /\ client' = [c EXCEPT !.op = "idle"]
                                     /\ CompletePendingOp(FillResult(pending, Frame(c)))
                [] c.op = "closed" -> client' = c /\ CompletePendingOp(Error)
                [] OTHER -> client' = c /\ UNCHANGED <<outcome, pending>>
  BY DEF ClientRead
<1>3. /\ ConnInv(client) /\ toClient \in Seq(Byte) /\ client.buf \in Seq(Byte)
      /\ client \in Connection
  BY DEF Streams, ClientInv, ConnInv, Connection
<1>4. n \in 1..Len(toClient) /\ Len(client.buf) + n <= client.room
  BY <1>1, <1>3, ReadsSome, LenProperties
<1>5. Len(client.buf) \in Nat /\ Len(toClient) \in Nat /\ Len(toClient) > 0
  BY <1>3, <1>4, LenProperties
<1> DEFINE k == pending
           b == client.buf \o SubSeq(toClient, 1, n)
           c == [client EXCEPT !.buf = b]
           r == HandleBuffer(c, ReplySize)
<1>6. /\ b \in Seq(Byte) /\ Len(b) = Len(client.buf) + n
      /\ toClient' \in Seq(Byte) /\ b \o toClient' = client.buf \o toClient
  <2>1. n \in 0..Len(toClient) /\ toClient' = Drop(toClient, n)
    BY <1>2, <1>4, <1>5
  <2> QED
    BY <1>3, <2>1, MoveBytes
<1>7. /\ Arriving = FrameBytes(k, ReplySize) /\ Unanswered = {}
      /\ k \in Ids /\ k \in Nat /\ ReplySize[k] \in Nat
  BY <1>1, <1>5, ReplyIs
<1>8. b \o toClient' = FrameBytes(k, ReplySize)
  BY <1>1, <1>6, <1>7 DEF Arriving
<1>9. /\ CASE r.op = "frame" -> /\ client' = [r EXCEPT !.op = "idle"]
                                /\ CompletePendingOp(FillResult(k, Frame(r)))
           [] r.op = "closed" -> client' = r /\ CompletePendingOp(Error)
           [] OTHER -> client' = r /\ UNCHANGED <<outcome, pending>>
  BY <1>2 DEF Received
<1> HIDE DEF b, k
<1>10. /\ c \in Connection /\ c.buf = b /\ c.room = client.room /\ c.state = client.state
       /\ c.frame_size = client.frame_size
  BY <1>1, <1>3, <1>6 DEF Connection
<1> HIDE DEF c
<1>11. c.room >= kFrameSize /\ Len(c.buf) > 0 /\ Len(c.buf) <= c.room
  <2> DEFINE x == Len(c.buf)
             y == Len(client.buf)
  <2>1. x = y + n /\ y \in Nat /\ y + n <= c.room
    BY <1>4, <1>5, <1>6, <1>10
  <2>2. n \in Nat /\ n > 0
    BY <1>4, <1>5
  <2> HIDE DEF x, y
  <2>3. x > 0 /\ x <= c.room
    BY <2>1, <2>2
  <2> QED
    BY <1>3, <1>10, <2>3 DEF ConnInv, x
<1>12. c.state = "kReadFrame" => c.frame_size = ReplySize[k] /\ Legal(ReplySize[k])
  BY <1>1, <1>3, <1>10 DEF Streams, ClientInv, ConnInv, k
<1>13. Begins(c.buf, k, ReplySize)
  <2> DEFINE size == ReplySize
  <2>0. size[k] \in Nat /\ b \o toClient' = FrameBytes(k, size)
    BY <1>7, <1>8
  <2> HIDE DEF size
  <2>1. \A i \in 1..Whole(k, size) : (b \o toClient')[i] = <<k, i>>
    BY <1>7, <2>0, FrameIsBytes DEF Whole
  <2>2. Begins(b, k, size)
    BY <1>6, <1>7, <2>0, <2>1, BeginsPart
  <2> QED
    BY <1>10, <2>2 DEF size
<1>14. HandledTo(r, c, k, ReplySize)
  BY <1>7, <1>10, <1>11, <1>12, <1>13, HandleBufferTo
<1> HIDE DEF r
<1>15. r \in Connection /\ r.buf = b
  BY <1>10, <1>14 DEF HandledTo
<1>16. CASE r.op = "closed"
  <2>1. client' = r /\ CompletePendingOp(Error)
    BY <1>9, <1>16
  <2>2. r.room = c.room
    BY <1>14, <1>16 DEF HandledTo
  <2>3. ConnInv(client')
    BY <1>10, <1>11, <1>15, <1>16, <2>1, <2>2 DEF ConnInv
  <2>4. Reads(r, << >>)
    BY <1>16, <2>1 DEF Reads
  <2>5. Streams'
    BY <1>1, <1>6, <1>7, <1>16, <2>1, <2>3, ReadStep
  <2> QED
    BY <1>5, <2>4, <2>5
<1>17. CASE r.op = "frame"
  <2>1. client' = [r EXCEPT !.op = "idle"] /\ CompletePendingOp(FillResult(k, Frame(r)))
    BY <1>9, <1>17
  <2>2. /\ r.room = c.room /\ Frame(r) = FrameBytes(k, ReplySize) /\ Complete(r)
        /\ r.frame_size = ReplySize[k]
    BY <1>14, <1>17 DEF HandledTo
  <2>3. ConnInv(r)
    BY <1>10, <1>11, <1>15, <1>17, <2>2 DEF ConnInv
  <2>4. ConnInv(client') /\ client'.op = "idle"
    <3>1. "idle" \in Op \ {"read"}
      BY DEF Op
    <3> QED
      BY <2>1, <2>3, <3>1, OpConn
  <2>5. Len(toClient') = 0
    <3>1. Len(b) >= ReplySize[k] + kFrameSize
      BY <1>15, <2>2 DEF Complete
    <3> QED
      BY <1>6, <1>7, <1>8, <3>1, NothingMore
  <2>6. Reads(r, Frame(r))
    BY <1>17, <2>1, <2>2 DEF Reads, k
  <2>7. Streams'
    BY <1>1, <1>6, <1>7, <2>4, <2>5, ReadStep
  <2> QED
    BY <1>5, <2>6, <2>7
<1>18. CASE r.op = "read"
  <2>1. client' = r /\ UNCHANGED <<outcome, pending>>
    BY <1>9, <1>18
  <2>2. \/ r.state = "kReadFrameSize" /\ r.room = c.room /\ Len(r.buf) < kFrameSize
        \/ /\ r.state = "kReadFrame" /\ r.frame_size = ReplySize[k]
           /\ Legal(ReplySize[k]) /\ Len(r.buf) < ReplySize[k] + kFrameSize
           /\ r.room = ReplySize[k] + kFrameSize
    BY <1>14, <1>18 DEF HandledTo
  <2> DEFINE size == ReplySize[k]
             total == size + kFrameSize
  <2>3. total >= kFrameSize /\ total \in Nat
    BY <1>7, SizeAssumption
  <2>6. ConnInv(r)
    <3>1. CASE r.state = "kReadFrameSize"
      BY <1>10, <1>11, <1>15, <2>2, <3>1 DEF ConnInv
    <3>2. CASE r.state = "kReadFrame"
      <4>1. /\ r.frame_size = size /\ Legal(r.frame_size) /\ Len(r.buf) < total /\ r.room = total
            /\ total = r.frame_size + kFrameSize
        BY <2>2, <3>2
      <4> HIDE DEF total
      <4>2. Len(r.buf) <= r.room /\ Len(r.buf) > 0
        <5>1. Len(r.buf) \in Nat /\ Len(r.buf) > 0
          BY <1>6, <1>10, <1>11, <1>15, LenProperties
        <5> QED
          BY <2>3, <4>1, <5>1
      <4> QED
        BY <1>15, <2>3, <3>2, <4>1, <4>2 DEF ConnInv
    <3> QED
      BY <1>15, <3>1, <3>2 DEF Connection
  <2>7. Arriving' = Arriving
    BY <1>1, <1>6, <1>15, <1>18, <2>1 DEF Arriving
  <2>8. r.state = "kReadFrame" => r.frame_size = ReplySize[pending]
    BY <2>2 DEF k
  <2>9. Streams'
    BY <1>1, <1>6, <1>7, <1>18, <2>1, <2>6, <2>7, <2>8, ReadStep
  <2>10. Reads(r, << >>)
    BY <1>18, <2>1 DEF Reads
  <2> QED
    BY <1>5, <2>9, <2>10
<1> QED
  BY <1>14, <1>16, <1>17, <1>18 DEF HandledTo

LEMMA SyncReadStep ==
  ASSUME Streams, CallsInv, SyncRead
  PROVE  /\ Streams' /\ Len(toClient) > 0
         /\ \/ CompletePendingOp(Error)
            \/ CompletePendingOp(FillResult(pending, FrameBytes(pending, ReplySize)))
<1>1. /\ client.op = "sync_read"
      /\ UNCHANGED <<async_rpc, script, sockets, sent, calls, server, toServer, handled>>
  BY DEF SyncRead, sessionVars, socketVars
<1>2. toClient \in Seq(Byte) /\ Len(toClient) \in Nat /\ ConnInv(client) /\ client \in Connection
  BY LenProperties DEF Streams, ClientInv, ConnInv
<1> DEFINE k == pending
           n == GetFrameSize(toClient, ReplySize)
           all == IF Legal(n) THEN kFrameSize + n ELSE kFrameSize
           frame == SubSeq(toClient, 1, all)
<1>3. /\ Len(toClient) >= all /\ Len(toClient) >= kFrameSize
      /\ toClient' = Drop(toClient, all)
      /\ IF Legal(n)
           THEN /\ client' = [client EXCEPT !.buf = frame, !.room = all,
                                            !.frame_size = n, !.op = "idle"]
                /\ CompletePendingOp(FillResult(pending, frame))
           ELSE client' = Closed(client) /\ CompletePendingOp(Error)
  BY DEF SyncRead
<1>4. Len(toClient) > 0
  BY <1>2, <1>3, SizeAssumption
<1>5. /\ Arriving = FrameBytes(k, ReplySize) /\ Unanswered = {}
      /\ k \in Ids /\ k \in Nat /\ ReplySize[k] \in Nat
  BY <1>1, <1>4, ReplyIs
<1>6. toClient = FrameBytes(k, ReplySize)
  BY <1>1, <1>2, <1>5, ConcatEmptySeq DEF Arriving
<1>7. n = ReplySize[k]
  <2> HIDE DEF k
  <2>1. 1 \in 1..(kFrameSize + ReplySize[k])
    BY <1>5, SizeAssumption
  <2>2. toClient[1] = <<k, 1>>
    BY <1>5, <1>6, <2>1, FrameIsBytes
  <2> QED
    BY <2>2 DEF GetFrameSize
<1> HIDE DEF n
<1>8. all \in Nat /\ all >= kFrameSize /\ all <= Len(toClient) /\ n \in Nat
  BY <1>2, <1>3, <1>5, <1>7, SizeAssumption
<1> HIDE DEF all
<1>9. toClient' \in Seq(Byte) /\ Len(toClient') = Len(toClient) - all
  BY <1>2, <1>3, <1>8, DropSeq DEF Drop
<1>10. frame \in Seq(Byte) /\ Len(frame) = all
  BY <1>2, <1>8, TakeSeq
<1>11. CASE Legal(n)
  <2>1. all = kFrameSize + ReplySize[k]
    BY <1>7, <1>11 DEF all
  <2>2. Len(toClient) = kFrameSize + ReplySize[k]
    BY <1>5, <1>6, FrameIsBytes
  <2>3. Len(toClient') = 0
    BY <1>2, <1>8, <1>9, <2>1, <2>2
  <2>4. frame = FrameBytes(k, ReplySize)
    <3>1. SubSeq(toClient, 1, Len(toClient)) = toClient
      BY <1>2, SubSeqFull
    <3> QED
      BY <1>6, <2>1, <2>2, <3>1
  <2> HIDE DEF frame
  <2>5. client' = [client EXCEPT !.buf = frame, !.room = all, !.frame_size = n, !.op = "idle"]
    BY <1>3, <1>11 DEF frame
  <2>6. /\ client' \in Connection /\ client'.buf = frame /\ client'.room = all
        /\ client'.op = "idle"
    <3>1. "idle" \in Op
      BY DEF Op
    <3> QED
      BY <1>2, <1>8, <1>10, <2>5, <3>1 DEF Connection
  <2>7. ConnInv(client')
    BY <1>8, <1>10, <2>6 DEF ConnInv
  <2>8. Streams'
    BY <1>1, <1>5, <1>9, <2>3, <2>6, <2>7, ReadStep
  <2>9. CompletePendingOp(FillResult(pending, frame))
    BY <1>3, <1>11 DEF frame
  <2> QED
    BY <1>4, <2>4, <2>8, <2>9
<1>12. CASE ~Legal(n)
  <2>1. client' = Closed(client) /\ CompletePendingOp(Error)
    BY <1>3, <1>12
  <2>2. ConnInv(client') /\ client'.op = "closed"
    <3>1. "closed" \in Op \ {"read"}
      BY DEF Op
    <3> QED
      BY <1>2, <2>1, <3>1, OpConn DEF Closed
  <2>3. Streams'
    BY <1>1, <1>5, <1>9, <2>2, ReadStep
  <2> QED
    BY <1>4, <2>1, <2>3
<1> QED
  BY <1>11, <1>12

-------------------------------------------------------------------------------
(* The invariant, over all steps. *)

LEMMA FreshServer ==
  /\ ConnInv(Restart(NewConnection)) /\ Restart(NewConnection).buf = << >>
  /\ Restart(NewConnection).op = "read" /\ Restart(NewConnection).state = "kReadFrameSize"
BY NewConn, RestartConn, SizeAssumption DEF NewConnection

\* A new socket, to a connection of its own.
LEMMA FreshStreams ==
  ASSUME SessionInv', ConnInv(client'), client'.op \in {"idle"},
         server' = Restart(NewConnection), toServer' = << >>, toClient' = << >>,
         sent' = << >>, handled' = << >>
  PROVE  Streams'
<1>1. /\ << >> \in Seq(Byte) /\ << >> \in Seq(Ids') /\ << >> \in Seq(Seq(Byte))
      /\ Len(<< >>) = 0 /\ << >> \o << >> = << >>
  BY EmptySeq, ConcatEmptySeq
<1>2. SentInv'
  BY <1>1 DEF SentInv
<1>3. ServerInv'
  <2>1. Unread' = << >>
    BY <1>1, FreshServer DEF Unread
  <2>2. LaidOut(<< >>, Len(<< >>) + 1, << >>, RequestSize')
    BY <1>1, LaidOutNone
  <2>3. LaidOut(Unread', Len(handled') + 1, sent', RequestSize')
    BY <2>1, <2>2
  <2> QED
    BY <1>1, <2>3, FreshServer DEF ServerInv
<1>4. ClientInv'
  BY <1>1 DEF ClientInv
<1>5. WaitInv'
  BY <1>1 DEF WaitInv, Unanswered
<1>6. ReplyInv'
  BY <1>1 DEF ReplyInv, Arriving
<1> QED
  BY <1>2, <1>3, <1>4, <1>5, <1>6 DEF Streams

LEMMA StreamsInit == OnewaySynchronous(Sessions) /\ Init => Streams
<1> SUFFICES ASSUME OnewaySynchronous(Sessions), Init PROVE Streams
  OBVIOUS
<1>1. PICK session \in Sessions :
        async_rpc = session.async_rpc /\ script = session.script /\ sockets = session.sockets
  BY DEF Init
<1>2. script \in Seq(CallRecord) /\ DOMAIN script = Ids
  BY <1>1, SessionAssumption, LenProperties DEF Ids
<1>3. SessionInv
  BY <1>1, <1>2, SessionAssumption DEF SessionInv, OnewaySynchronous, IsOneway
<1>4. ConnInv(client) /\ client.op = "idle"
  BY NewConn DEF Init, NewConnection
<1>5. /\ << >> \in Seq(Byte) /\ << >> \in Seq(Ids) /\ << >> \in Seq(Seq(Byte))
      /\ Len(<< >>) = 0 /\ << >> \o << >> = << >>
  BY EmptySeq, ConcatEmptySeq
<1>6. SentInv
  BY <1>4, <1>5 DEF SentInv, Init
<1>7. ServerInv
  <2>1. Unread = << >>
    BY <1>5, FreshServer DEF Unread, Init
  <2>2. LaidOut(<< >>, Len(<< >>) + 1, << >>, RequestSize)
    BY <1>5, LaidOutNone
  <2>3. LaidOut(Unread, Len(handled) + 1, sent, RequestSize)
    BY <2>1, <2>2 DEF Init
  <2> QED
    BY <1>5, <2>3, FreshServer DEF ServerInv, Init
<1>8. ClientInv
  BY <1>4, <1>5 DEF ClientInv, Init
<1>9. WaitInv
  BY <1>5 DEF WaitInv, Unanswered, Init
<1>10. ReplyInv
  BY <1>4, <1>5 DEF ReplyInv, Arriving, Init
<1> QED
  BY <1>3, <1>6, <1>7, <1>8, <1>9, <1>10 DEF Streams

LEMMA OpIs ==
  ASSUME NEW c, ConnInv(c), NEW o \in {"idle", "write", "sync_write", "sync_read", "closed", "detached"}
  PROVE  ConnInv([c EXCEPT !.op = o]) /\ [c EXCEPT !.op = o].op = o
<1>1. o \in Op \ {"read"}
  BY DEF Op
<1> QED
  BY <1>1, OpConn

LEMMA StreamsStep == Streams /\ CallsInv /\ [Next]_vars => Streams'
<1> SUFFICES ASSUME Streams, CallsInv, [Next]_vars PROVE Streams'
  OBVIOUS
<1>0. CallsInv'
  BY CallsStep
<1> USE DEF sessionVars, socketVars
<1>c. ConnInv(client) /\ calls \in Nat
  BY DEF Streams, ClientInv, CallsInv, OutcomeInv
<1>1. CASE Call
  <2>1. PICK o \in {"write", "sync_write"} : client' = [client EXCEPT !.op = o]
    BY <1>1 DEF Call
  <2>2. ConnInv(client') /\ client'.op \in {"write", "sync_write"}
    BY <1>c, <2>1, OpIs
  <2>3. /\ client.op = "idle" /\ calls' = calls + 1 /\ pending' = calls + 1
        /\ UNCHANGED <<async_rpc, script, sockets, sent, server, toServer, toClient, handled>>
    BY <1>1 DEF Call
  <2>4. calls' \in Nat /\ calls' >= calls
    BY <1>c, <2>3
  <2> QED
    BY <1>0, <2>2, <2>3, <2>4, ClientOnly
<1>2. CASE CallNotConnected
  <2>1. /\ client.op \in {"closed", "detached"} /\ calls' = calls + 1 /\ client' = client
        /\ UNCHANGED <<async_rpc, script, sockets, sent, server, toServer, toClient, handled>>
    BY <1>2 DEF CallNotConnected
  <2>2. calls' \in Nat /\ calls' >= calls
    BY <1>c, <2>1
  <2> QED
    BY <1>0, <1>c, <2>1, <2>2, ClientOnly
<1>3. CASE ClientFail \/ ClientClose \/ Detach
  <2>1. /\ UNCHANGED <<async_rpc, script, sockets, sent, calls, server, toServer, toClient,
                       handled>>
        /\ \/ client' = [client EXCEPT !.op = "closed"]
           \/ client' = [client EXCEPT !.op = "detached"] /\ client.op = "idle"
    BY <1>3 DEF ClientFail, ClientClose, Detach, Closed
  <2>2. /\ ConnInv(client')
        /\ client'.op = "closed" \/ (client'.op = "detached" /\ client.op = "idle")
    BY <1>c, <2>1, OpIs
  <2>3. calls' \in Nat /\ calls' >= calls
    BY <1>c, <2>1
  <2> QED
    BY <1>0, <2>1, <2>2, <2>3, ClientOnly
<1>4. CASE Reattach
  <2>1. /\ client.op = "detached"
        /\ UNCHANGED <<async_rpc, script, sockets, sent, calls, server, toServer, toClient,
                       handled>>
    BY <1>4 DEF Reattach
  <2>2. PICK c \in {client, NewConnection} : client' = [c EXCEPT !.op = "idle"]
    BY <1>4 DEF Reattach
  <2>3. ConnInv(client') /\ client'.op = "idle"
    BY <1>c, <2>2, NewConn, OpIs
  <2>4. calls' \in Nat /\ calls' >= calls
    BY <1>c, <2>1
  <2> QED
    BY <1>0, <2>1, <2>3, <2>4, ClientOnly
<1>5. CASE Attach
  <2>1. /\ client' = [client EXCEPT !.op = "idle"]
        /\ server' = Restart(NewConnection) /\ toServer' = << >> /\ toClient' = << >>
        /\ sent' = << >> /\ handled' = << >> /\ UNCHANGED <<async_rpc, script>>
        /\ sockets > 0 /\ sockets' = sockets - 1
    BY <1>5 DEF Attach
  <2>2. ConnInv(client') /\ client'.op = "idle"
    BY <1>c, <2>1, OpIs
  <2>3. SessionInv'
    <3>1. sockets' \in Nat
      BY <2>1 DEF Streams, SessionInv
    <3> QED
      BY <2>1, <3>1, SessionSame DEF Streams
  <2> QED
    BY <2>1, <2>2, <2>3, FreshStreams
<1>6. CASE ClientWrite \/ SyncWrite
  <2>1. /\ SendRequest /\ client.op \in {"write", "sync_write"}
        /\ UNCHANGED <<async_rpc, script, sockets, calls, server, toClient, handled>>
        /\ \/ IsOneway(pending) /\ client' = [client EXCEPT !.op = "idle"]
           \/ UNCHANGED pending /\ client' = Restart(client)
           \/ UNCHANGED pending /\ client' = [client EXCEPT !.op = "sync_read"]
    BY <1>6 DEF ClientWrite, SyncWrite
  <2>2. /\ ConnInv(client')
        /\ \/ IsOneway(pending) /\ client'.op = "idle"
           \/ /\ pending' = pending /\ client'.op = "read"
              /\ client'.buf = << >> /\ client'.state = "kReadFrameSize"
           \/ pending' = pending /\ client'.op = "sync_read"
    <3>1. client \in Connection /\ client.room >= kFrameSize
      BY <1>c DEF ConnInv
    <3>2. /\ ConnInv(Restart(client)) /\ Restart(client).buf = << >>
          /\ Restart(client).op = "read" /\ Restart(client).state = "kReadFrameSize"
      BY <3>1, RestartConn
    <3>3. \A o \in {"idle", "sync_read"} :
            ConnInv([client EXCEPT !.op = o]) /\ [client EXCEPT !.op = o].op = o
      BY <1>c, OpIs
    <3> QED
      BY <2>1, <3>2, <3>3
  <2> QED
    BY <1>0, <2>1, <2>2, SendStep
<1>7. CASE ClientRead
  BY <1>7, ClientReadStep
<1>8. CASE SyncRead
  BY <1>8, SyncReadStep
<1>9. CASE ServerRead
  BY <1>9, ServerReadStep
<1>10. CASE ServerEof \/ ServerWriteFail
  <2>1. /\ server.op \in {"read", "rpc", "write"} /\ server' = Closed(server)
        /\ UNCHANGED <<sessionVars, socketVars, calls, pending, outcome, client,
                       toServer, toClient, handled>>
    BY <1>10 DEF ServerEof, ServerWriteFail
  <2> QED
    BY <2>1, ServerClosesStep
<1>11. CASE AsyncProcess
  BY <1>11, AsyncProcessStep
<1>12. CASE ServerWrite
  BY <1>12, ServerWriteStep
<1>13. CASE Done \/ UNCHANGED vars
  <2>1. UNCHANGED vars
    BY <1>13 DEF Done
  <2>2. SentInv' /\ SessionInv' /\ ClientInv' /\ ServerInv'
    BY <2>1, SentHandles, SessionSame, ClientSame, ServerSame DEF Streams, SessionInv, vars
  <2>3. WaitInv' /\ ReplyInv'
    <3>1. Unanswered' = Unanswered /\ Arriving' = Arriving /\ ReplySize' = ReplySize
      BY <2>1 DEF Unanswered, Arriving, ReplySize, Ids, IsOneway, vars
    <3> QED
      BY <2>1, <3>1 DEF Streams, WaitInv, ReplyInv, vars
  <2> QED
    BY <2>2, <2>3 DEF Streams
<1> QED
  BY <1>1, <1>2, <1>3, <1>4, <1>5, <1>6, <1>7, <1>8, <1>9, <1>10, <1>11, <1>12, <1>13 DEF Next

-------------------------------------------------------------------------------
\* On a connection over which no oneway call goes to an asynchronous handler, the server
\* processes the requests that were sent, whole, in order and once each, for any number and sizes of
\* calls, frames and buffers and any fragmentation of the streams, through closing,
\* detaching and attaching (async_connection.h, handle_buffer).
THEOREM RequestsExecutedOnce ==
  ASSUME OnewaySynchronous(Sessions) PROVE Spec => []ExecutedOnce
<1>1. Init => Streams /\ CallsInv
  BY StreamsInit, Initially
<1>2. Streams /\ CallsInv /\ [Next]_vars => (Streams /\ CallsInv)'
  BY StreamsStep, CallsStep
<1>3. Streams => ExecutedOnce
  <2> SUFFICES ASSUME Streams, NEW i \in DOMAIN handled
               PROVE  i <= Len(sent) /\ handled[i] = FrameBytes(sent[i], RequestSize)
    BY DEF ExecutedOnce
  <2>1. i \in 1..Len(handled)
    BY LenProperties DEF Streams, SentInv
  <2> QED
    BY <2>1, LenNats DEF Streams, SentInv
<1> QED
  BY <1>1, <1>2, <1>3, PTL DEF Spec

-------------------------------------------------------------------------------
(* The outcomes of the calls. *)

LEMMA OwnReplyStep == Streams /\ CallsInv /\ OwnReply /\ [Next]_vars => OwnReply'
<1> SUFFICES ASSUME Streams, CallsInv, OwnReply, [Next]_vars PROVE OwnReply'
  OBVIOUS
<1> USE DEF sessionVars, socketVars
<1> DEFINE Success(k) == outcome[k].kind \in {"reply", "exception"}
           Own(k) ==
             /\ outcome[k].frame = FrameBytes(k, ReplySize)
             /\ k \in ToSet(sent) => FrameBytes(k, RequestSize) \in ToSet(handled)
             /\ script[k].fails =>
                  ~async_rpc /\ (outcome[k].kind = "exception" \/ (script[k].void /\ ~script[k].sync))
<1>1. \A k \in Ids : Success(k) => Own(k)
  BY DEF OwnReply
<1>2. UNCHANGED <<async_rpc, script>>
  BY DEF Next, Call, CallNotConnected, ClientFail, ClientClose, Detach, Reattach, Attach,
     ClientWrite, ClientRead, SyncWrite, SyncRead, ServerRead, ServerEof, AsyncProcess,
     ServerWrite, ServerWriteFail, Done, vars
<1>3. Ids' = Ids /\ RequestSize' = RequestSize /\ ReplySize' = ReplySize
  BY <1>2 DEF Ids, RequestSize, ReplySize
\* What is handled stays handled, and what has succeeded is not sent again.
<1>4. ASSUME NEW k \in Ids, Success(k), outcome'[k] = outcome[k],
             ToSet(handled) \subseteq ToSet(handled') \/ ToSet(sent') = {},
             ToSet(sent') \subseteq ToSet(sent) \union {pending}
      PROVE  Own(k)'
  <2>1. k # pending
    BY <1>4 DEF CallsInv, OutcomeInv
  <2> QED
    BY <1>1, <1>2, <1>3, <1>4, <2>1
<1>5. DOMAIN outcome = Ids
  BY DEF CallsInv, OutcomeInv
<1>6. ASSUME UNCHANGED <<sent, handled>>,
             \A k \in Ids : Success(k)' => outcome'[k] = outcome[k]
      PROVE  OwnReply'
  BY <1>3, <1>4, <1>6 DEF OwnReply
\* A call that is completed with an error, or is oneway, makes no claim.
<1>7. ASSUME NEW p, NEW res, res.kind \notin {"reply", "exception"},
             outcome' = [outcome EXCEPT ![p] = res]
      PROVE  \A k \in Ids : Success(k)' => outcome'[k] = outcome[k]
  BY <1>5, <1>7
<1>8. Error.kind = "error" /\ Sent.kind = "sent"
  BY DEF Error, Sent
<1>9. ASSUME UNCHANGED <<sent, handled>>, outcome' = outcome PROVE OwnReply'
  BY <1>6, <1>9
<1>10. CASE CallNotConnected \/ ClientFail
  <2>1. UNCHANGED <<sent, handled>> /\ \E p : outcome' = [outcome EXCEPT ![p] = Error]
    BY <1>10 DEF CallNotConnected, ClientFail, CompletePendingOp
  <2> QED
    BY <1>6, <1>7, <1>8, <2>1
<1>11. CASE Call \/ ClientClose \/ Detach \/ Reattach \/ ServerEof \/ AsyncProcess
            \/ ServerWriteFail \/ Done \/ UNCHANGED vars
  <2>1. UNCHANGED <<sent, handled, outcome>>
    BY <1>11 DEF Call, ClientClose, Detach, Reattach, ServerEof, AsyncProcess, ServerWriteFail,
       Done, vars
  <2> QED
    BY <1>9, <2>1
<1>12. CASE Attach
  <2>1. outcome' = outcome /\ sent' = << >>
    BY <1>12 DEF Attach
  <2>2. ToSet(sent') = {}
    BY <2>1 DEF ToSet
  <2> QED
    BY <1>3, <1>4, <2>1, <2>2 DEF OwnReply
<1>13. CASE ClientWrite \/ SyncWrite
  <2>1. /\ sent' = Append(sent, pending) /\ handled' = handled
        /\ outcome' = outcome \/ outcome' = [outcome EXCEPT ![pending] = Sent]
    BY <1>13 DEF ClientWrite, SyncWrite, SendRequest, CompletePendingOp
  <2>2. ToSet(sent') \subseteq ToSet(sent) \union {pending}
    <3>1. sent \in Seq(Ids) /\ pending \in Ids
      BY <1>13 DEF ClientWrite, SyncWrite, Streams, SentInv, CallsInv, OpInv, OutcomeInv, Busy, Ids
    <3>2. \A i \in DOMAIN sent' : sent'[i] = pending \/ (i \in DOMAIN sent /\ sent'[i] = sent[i])
      BY <2>1, <3>1
    <3> QED
      BY <3>2 DEF ToSet
  <2>3. \A k \in Ids : Success(k)' => outcome'[k] = outcome[k]
    BY <1>7, <1>8, <2>1
  <2> QED
    BY <1>3, <1>4, <2>1, <2>2, <2>3 DEF OwnReply
\* A reply is the reply to the call in progress.
<1>14. ASSUME NEW p \in Ids, p = pending, UNCHANGED <<sent, handled>>,
              client.op \in {"read", "sync_read"}, Len(toClient) > 0,
              outcome' = [outcome EXCEPT ![p] = FillResult(p, FrameBytes(p, ReplySize))]
       PROVE  OwnReply'
  <2>1. (script[p].fails => ~async_rpc) /\ FrameBytes(p, RequestSize) \in ToSet(handled)
    BY <1>14, ReplyIs
  <2>2. outcome'[p] = FillResult(p, FrameBytes(p, ReplySize))
    BY <1>5, <1>14
  <2>3. Own(p)'
    <3>1. outcome'[p].frame = FrameBytes(p, ReplySize)
      BY <2>2 DEF FillResult
    <3>2. script[p].fails =>
            ~async_rpc /\ (outcome'[p].kind = "exception" \/ (script[p].void /\ ~script[p].sync))
      BY <2>1, <2>2 DEF FillResult
    <3> QED
      BY <1>2, <1>3, <1>14, <2>1, <3>1, <3>2
  <2>4. \A k \in Ids \ {p} : outcome'[k] = outcome[k]
    BY <1>5, <1>14
  <2>5. \A k \in Ids : Success(k)' => Own(k)'
    <3> SUFFICES ASSUME NEW k \in Ids, Success(k)' PROVE Own(k)'
      OBVIOUS
    <3>1. CASE k = p
      BY <2>3, <3>1
    <3>2. CASE k # p
      <4>1. outcome'[k] = outcome[k] /\ Success(k)
        BY <2>4, <3>2
      <4> QED
        BY <1>4, <1>14, <4>1
    <3> QED
      BY <3>1, <3>2
  <2> QED
    BY <1>3, <2>5 DEF OwnReply
<1>15. ASSUME client.op \in {"read", "sync_read"}, Len(toClient) > 0, UNCHANGED <<sent, handled>>,
              \/ outcome' = outcome
              \/ CompletePendingOp(Error)
              \/ CompletePendingOp(FillResult(pending, FrameBytes(pending, ReplySize)))
       PROVE  OwnReply'
  <2>1. pending \in Ids
    BY <1>15, ReplyIs
  <2>2. CASE CompletePendingOp(FillResult(pending, FrameBytes(pending, ReplySize)))
    BY <1>14, <1>15, <2>1, <2>2 DEF CompletePendingOp
  <2>3. CASE CompletePendingOp(Error)
    BY <1>6, <1>7, <1>8, <1>15, <2>3 DEF CompletePendingOp
  <2> QED
    BY <1>9, <1>15, <2>2, <2>3
<1>16. CASE ClientRead
  <2>1. client.op = "read" /\ UNCHANGED <<sent, handled>>
    BY <1>16 DEF ClientRead
  <2>2. PICK r, frame : Reads(r, frame)
    BY <1>16, ClientReadStep
  <2>3. \/ outcome' = outcome
        \/ CompletePendingOp(Error)
        \/ CompletePendingOp(FillResult(pending, FrameBytes(pending, ReplySize)))
    BY <2>2 DEF Reads
  <2>4. Len(toClient) > 0
    BY <1>16, ClientReadStep
  <2> QED
    BY <1>15, <2>1, <2>3, <2>4
<1>17. CASE SyncRead
  <2>1. client.op = "sync_read" /\ UNCHANGED <<sent, handled>>
    BY <1>17 DEF SyncRead
  <2> QED
    BY <1>15, <1>17, <2>1, SyncReadStep
\* The server handles one more request, or none.
<1>18. CASE ServerRead \/ ServerWrite
  <2>1. outcome' = outcome /\ sent' = sent
    BY <1>18 DEF ServerRead, ServerWrite
  <2>2. \E c : Handle(c)
    BY <1>18 DEF ServerRead, ServerWrite
  <2>3. handled' = handled \/ \E f : handled' = Append(handled, f)
    BY <2>2 DEF Handle
  <2>4. ToSet(handled) \subseteq ToSet(handled')
    <3>1. handled \in Seq(Seq(Byte)) 
      BY DEF Streams, SentInv
    <3>2. Streams'
      BY StreamsStep
    <3>3. \A i \in DOMAIN handled : i \in DOMAIN handled' /\ handled'[i] = handled[i]
      <4>1. CASE handled' = handled
        BY <4>1
      <4>2. ASSUME NEW f, handled' = Append(handled, f)
            PROVE  \A i \in DOMAIN handled : i \in DOMAIN handled' /\ handled'[i] = handled[i]
        BY <3>1, <4>2
      <4> QED
        BY <2>3, <4>1, <4>2
    <3> QED
      BY <3>3 DEF ToSet
  <2> QED
    BY <1>3, <1>4, <2>1, <2>4 DEF OwnReply
<1> QED
  BY <1>10, <1>11, <1>12, <1>13, <1>16, <1>17, <1>18 DEF Next

\* On such a connection a call that succeeds has the reply to itself, which the server has sent
\* after processing it, and succeeds only if its function did (or is void and was
\* called asynchronously), for any calls, sizes, fragmentation and users of the
\* socket (async_client.cpp).
THEOREM RepliesAreOwn ==
  ASSUME OnewaySynchronous(Sessions) PROVE Spec => []OwnReply
<1>1. Init => Streams /\ CallsInv /\ OwnReply
  <2>1. Init => OwnReply
    BY DEF Init, OwnReply, None
  <2> QED
    BY <2>1, StreamsInit, Initially
<1>2. Streams /\ CallsInv /\ OwnReply /\ [Next]_vars => (Streams /\ CallsInv /\ OwnReply)'
  BY StreamsStep, CallsStep, OwnReplyStep
<1> QED
  BY <1>1, <1>2, PTL DEF Spec

-------------------------------------------------------------------------------
(* Types and memory. *)

FitsInv ==
  \A k, j \in Ids :
    IsOneway(k) /\ j > k =>
      /\ RequestSize[j] <= RequestSize[k]
      /\ IsOneway(j) => j = Len(script)

\* All bytes under way are bytes of the calls; and no memory was overrun.
BytesInv ==
  /\ FitsInv /\ server.op # "undefined"
  /\ ToSet(toServer) \subseteq Stream(RequestSize)
  /\ ToSet(toClient) \subseteq Stream(ReplySize)

LEMMA BytesInit == OnewayFits(Sessions) /\ Init => BytesInv
<1> SUFFICES ASSUME OnewayFits(Sessions), Init PROVE BytesInv
  OBVIOUS
<1>1. PICK session \in Sessions : script = session.script
  BY DEF Init
<1>2. script \in Seq(CallRecord) /\ DOMAIN script = Ids
  BY <1>1, SessionAssumption, LenProperties DEF Ids
<1>3. FitsInv
  BY <1>1, <1>2 DEF FitsInv, OnewayFits, IsOneway, RequestSize
<1>4. ToSet(toServer) = {} /\ ToSet(toClient) = {}
  BY DEF Init, ToSet
<1> QED
  BY <1>3, <1>4, FreshServer DEF BytesInv, Init

\* The answer: memcpy does not overlap.
LEMMA RestFits ==
  ASSUME Streams, FitsInv, server.op = "write"
  PROVE  ~(Len(Rest(server)) > server.frame_size + kFrameSize)
<1> DEFINE n == Len(sent)
           d == Len(handled)
           w == server.frame_size + kFrameSize
           r == Rest(server)
<1>1. d \in 1..n /\ n \in Nat /\ d \in Nat
  BY ServedIs, LenNats DEF Streams
<1>2. /\ server.buf \in Seq(Byte) /\ toServer \in Seq(Byte) /\ server.frame_size \in Nat
      /\ Len(server.buf) >= w /\ server.frame_size = RequestSize[sent[d]]
  BY DEF Streams, ServerInv, ConnInv, Connection, Complete
<1>3. w \in Nat /\ w <= Len(server.buf)
  BY <1>2, SizeAssumption
<1>4. r \in Seq(Byte) /\ Len(r) \in Nat
  <2>1. r \in Seq(Byte)
    BY <1>2, <1>3, DropSeq DEF Rest
  <2> QED
    BY <2>1, LenProperties
<1> HIDE DEF r
<1>5. CASE d = n
  <2>1. r = << >>
    BY <1>5, NothingBehind DEF r
  <2>2. Len(r) = 0
    BY <2>1, EmptySeq
  <2> QED
    BY <1>3, <2>2 DEF r
<1>6. CASE d # n
  <2>1. d \notin Unanswered /\ (d + 1 \in Unanswered => d + 1 = n) /\ d + 1 \in 1..n
    BY <1>1, <1>6 DEF Streams, WaitInv
  <2>2. IsOneway(sent[d])
    BY <1>1, <2>1 DEF Unanswered
  <2>3. sent[d] \in Ids /\ sent[d + 1] \in Ids /\ Ids \subseteq Nat /\ RequestSize \in [Ids -> Nat]
    BY <1>1, <2>1, ElementOfSeq, SizesNat DEF Streams, SentInv, SessionInv
  <2>4. sent[d] < sent[d + 1]
    <3>1. d \in 1..((d + 1) - 1)
      BY <1>1
    <3> QED
      BY <2>1, <3>1 DEF Streams, SentInv
  <2>5. /\ RequestSize[sent[d + 1]] <= RequestSize[sent[d]]
        /\ IsOneway(sent[d + 1]) => sent[d + 1] = Len(script)
    BY <2>2, <2>3, <2>4 DEF FitsInv
  <2>6. d + 1 = n
    <3> SUFFICES ASSUME d + 1 # n PROVE FALSE
      OBVIOUS
    <3>1. IsOneway(sent[d + 1])
      BY <1>1, <2>1 DEF Unanswered
    <3>2. d + 2 \in 1..n /\ d + 1 \in 1..((d + 2) - 1)
      BY <1>1, <2>1
    <3>3. sent[d + 1] < sent[d + 2]
      BY <3>2 DEF Streams, SentInv
    <3>4. sent[d + 2] \in Ids
      BY <3>2, ElementOfSeq DEF Streams, SentInv
    <3>5. Len(script) \in Nat
      BY LenProperties DEF Streams, SessionInv
    <3> QED
      BY <2>5, <3>1, <3>3, <3>4, <3>5 DEF Ids
  <2> DEFINE u == r \o toServer
             p == d + 1
             size == RequestSize
  <2>7. u \in Seq(Byte) /\ Len(u) = Len(r) + Len(toServer) /\ Len(toServer) \in Nat
    BY <1>2, <1>4, ConcatProperties, LenProperties
  <2>8. LaidOut(u, p, sent, size)
    BY DEF Streams, ServerInv, Unread, r
  <2>9. p \in 1..(Len(sent) + 1) /\ sent \in Seq(Ids) /\ size \in [Ids -> Nat] /\ p = Len(sent)
    BY <1>1, <2>3, <2>6 DEF Streams, SentInv
  <2> HIDE DEF u, p, size
  <2>10. Len(u) = Whole(sent[p], size)
    BY <2>7, <2>8, <2>9, LaidOutFirst, SMTT(40)
  <2>11. Whole(sent[p], size) <= w
    <3> DEFINE x == RequestSize[sent[d + 1]]
               y == RequestSize[sent[d]]
    <3>1. x \in Nat /\ y \in Nat /\ x <= y /\ kFrameSize \in Nat
      BY <2>3, <2>5, SizeAssumption
    <3>2. w = y + kFrameSize
      BY <1>2
    <3>3. Whole(sent[p], size) = kFrameSize + x
      BY DEF Whole, p, size
    <3> HIDE DEF x, y, w
    <3> QED
      BY <3>1, <3>2, <3>3
  <2> DEFINE a == Len(u)
             b == Len(r)
             c == Len(toServer)
             x == Whole(sent[p], size)
  <2>12. a = b + c /\ c \in Nat /\ b \in Nat /\ a = x /\ x <= w
    BY <1>4, <2>7, <2>10, <2>11
  <2> HIDE DEF a, b, c, w, x
  <2>13. w \in Nat
    BY <1>3
  <2>14. ~(b > w)
    BY <2>12, <2>13
  <2> QED
    BY <2>14 DEF b, w, r
<1> QED
  BY <1>5, <1>6

LEMMA ToSetDrop ==
  ASSUME NEW S, NEW s \in Seq(S), NEW n \in Nat, n <= Len(s)
  PROVE  ToSet(Drop(s, n)) \subseteq ToSet(s)
<1>1. Len(s) \in Nat /\ DOMAIN s = 1..Len(s)
  BY LenProperties
<1>2. /\ Drop(s, n) \in Seq(S) /\ Len(Drop(s, n)) = Len(s) - n
      /\ \A i \in 1..(Len(s) - n) : Drop(s, n)[i] = s[n + i]
  BY DropSeq DEF Drop
<1>3. DOMAIN Drop(s, n) = 1..(Len(s) - n)
  BY <1>2, LenProperties
<1>4. ASSUME NEW i \in 1..(Len(s) - n) PROVE n + i \in 1..Len(s)
  BY <1>1
<1> QED
  BY <1>1, <1>2, <1>3, <1>4 DEF ToSet

LEMMA ToSetConcat ==
  ASSUME NEW S, NEW s \in Seq(S), NEW t \in Seq(S)
  PROVE  ToSet(s \o t) \subseteq ToSet(s) \union ToSet(t)
<1>1. /\ Len(s) \in Nat /\ DOMAIN s = 1..Len(s) /\ Len(t) \in Nat /\ DOMAIN t = 1..Len(t)
  BY LenProperties
<1>2. /\ s \o t \in Seq(S) /\ Len(s \o t) = Len(s) + Len(t)
      /\ \A i \in 1..(Len(s) + Len(t)) : (s \o t)[i] = IF i <= Len(s) THEN s[i] ELSE t[i - Len(s)]
  BY ConcatProperties
<1>3. DOMAIN (s \o t) = 1..(Len(s) + Len(t))
  BY <1>2, LenProperties
<1> DEFINE x == Len(s)
           y == Len(t)
<1> HIDE DEF x, y
<1>4. ASSUME NEW i \in 1..(x + y)
      PROVE  i \in 1..x \/ (~(i <= x) /\ i - x \in 1..y)
  BY <1>1 DEF x, y
<1>5. ASSUME NEW i \in DOMAIN (s \o t) PROVE (s \o t)[i] \in ToSet(s) \union ToSet(t)
  <2>1. i \in 1..(x + y) /\ (s \o t)[i] = IF i <= x THEN s[i] ELSE t[i - x]
    BY <1>2, <1>3 DEF x, y
  <2>2. CASE i \in 1..x
    BY <1>1, <2>1, <2>2 DEF ToSet, x
  <2>3. CASE ~(i <= x) /\ i - x \in 1..y
    BY <1>1, <2>1, <2>3 DEF ToSet, y
  <2> QED
    BY <1>4, <2>1, <2>2, <2>3
<1> QED
  BY <1>5 DEF ToSet

LEMMA BytesStep == Streams /\ CallsInv /\ BytesInv /\ [Next]_vars => BytesInv'
<1> SUFFICES ASSUME Streams, CallsInv, BytesInv, [Next]_vars PROVE BytesInv'
  OBVIOUS
<1> USE DEF sessionVars, socketVars
<1>1. UNCHANGED script
  BY DEF Next, Call, CallNotConnected, ClientFail, ClientClose, Detach, Reattach, Attach,
     ClientWrite, ClientRead, SyncWrite, SyncRead, ServerRead, ServerEof, AsyncProcess,
     ServerWrite, ServerWriteFail, Done, vars
<1>2. /\ Ids' = Ids /\ RequestSize' = RequestSize /\ ReplySize' = ReplySize /\ FitsInv'
      /\ Stream(RequestSize)' = Stream(RequestSize) /\ Stream(ReplySize)' = Stream(ReplySize)
  <2>1. Ids' = Ids /\ RequestSize' = RequestSize /\ ReplySize' = ReplySize
    BY <1>1 DEF Ids, RequestSize, ReplySize
  <2> QED
    BY <1>1, <2>1 DEF BytesInv, FitsInv, IsOneway, Stream
<1>3. /\ toServer \in Seq(Byte) /\ toClient \in Seq(Byte) /\ Len(toServer) \in Nat
      /\ Len(toClient) \in Nat /\ ConnInv(server) /\ ConnInv(client)
      /\ ToSet(toServer) \subseteq Stream(RequestSize) /\ ToSet(toClient) \subseteq Stream(ReplySize)
      /\ server.op # "undefined"
  BY LenProperties DEF Streams, ServerInv, ClientInv, BytesInv
<1>4. ASSUME UNCHANGED <<server, toServer, toClient>> PROVE BytesInv'
  BY <1>2, <1>3, <1>4 DEF BytesInv
<1>5. ASSUME NEW k \in Ids, NEW size, size[k] \in Nat
      PROVE  FrameBytes(k, size) \in Seq(Byte) /\ ToSet(FrameBytes(k, size)) \subseteq Stream(size)
  <2>1. k \in Nat
    BY DEF Ids
  <2> QED
    BY <1>5, <2>1, FrameIsBytes DEF Stream
<1>6. CASE Call \/ CallNotConnected \/ ClientFail \/ ClientClose \/ Detach \/ Reattach \/ Done
           \/ UNCHANGED vars
  <2>1. UNCHANGED <<server, toServer, toClient>>
    BY <1>6 DEF Call, CallNotConnected, ClientFail, ClientClose, Detach, Reattach, Done, vars
  <2> QED
    BY <1>4, <2>1
<1>7. CASE Attach
  <2>1. server' = Restart(NewConnection) /\ toServer' = << >> /\ toClient' = << >>
    BY <1>7 DEF Attach
  <2>2. ToSet(toServer') = {} /\ ToSet(toClient') = {}
    BY <2>1 DEF ToSet
  <2>3. server'.op # "undefined"
    BY <2>1, FreshServer
  <2> QED
    BY <1>2, <2>2, <2>3 DEF BytesInv
<1>8. CASE ClientWrite \/ SyncWrite
  <2>1. /\ toServer' = toServer \/ toServer' = toServer \o FrameBytes(pending, RequestSize)
        /\ UNCHANGED <<server, toClient>> /\ client.op \in {"write", "sync_write"}
    BY <1>8 DEF ClientWrite, SyncWrite, SendRequest
  <2>2. pending \in Ids /\ RequestSize[pending] \in Nat
    <3>1. pending \in Ids
      BY <2>1 DEF CallsInv, OpInv, OutcomeInv, Busy, Ids
    <3> QED
      BY <3>1, SizesNat DEF Streams, SessionInv
  <2>3. ToSet(toServer') \subseteq Stream(RequestSize)
    BY <1>3, <1>5, <2>1, <2>2, ToSetConcat
  <2> QED
    BY <1>2, <1>3, <2>1, <2>3 DEF BytesInv
<1>9. CASE ClientRead \/ SyncRead
  <2>1. UNCHANGED <<server, toServer>>
    BY <1>9 DEF ClientRead, SyncRead
  <2>2. \E n \in Nat : n <= Len(toClient) /\ toClient' = Drop(toClient, n)
    <3>1. CASE ClientRead
      <4>1. client.op = "read" /\ \E n \in Readable(client, Len(toClient)) : toClient' = Drop(toClient, n)
        BY <3>1 DEF ClientRead
      <4> QED
        BY <1>3, <4>1, ReadsSome
    <3>2. CASE SyncRead
      <4>1. PICK all : Len(toClient) >= all /\ toClient' = Drop(toClient, all)
                       /\ all \in {kFrameSize, kFrameSize + GetFrameSize(toClient, ReplySize)}
        BY <3>2 DEF SyncRead
      <4>2. Len(toClient) > 0 /\ client.op = "sync_read" /\ toClient[1] \in Byte
        <5>1. Len(toClient) > 0 /\ client.op = "sync_read"
          BY <3>2, SyncReadStep DEF SyncRead
        <5> QED
          BY <1>3, <5>1, ElementOfSeq
      <4>3. GetFrameSize(toClient, ReplySize) \in Nat
        <5>1. /\ Arriving = FrameBytes(pending, ReplySize) /\ pending \in Nat
              /\ ReplySize[pending] \in Nat
          BY <4>2, ReplyIs
        <5>2. toClient = FrameBytes(pending, ReplySize)
          BY <1>3, <4>2, <5>1, ConcatEmptySeq DEF Arriving
        <5>3. 1 \in 1..(kFrameSize + ReplySize[pending])
          BY <5>1, SizeAssumption
        <5>4. toClient[1] = <<pending, 1>>
          BY <5>1, <5>2, <5>3, FrameIsBytes
        <5> QED
          BY <5>1, <5>4 DEF GetFrameSize
      <4>4. all \in Nat
        BY <4>1, <4>3, SizeAssumption
      <4>5. all <= Len(toClient)
        BY <1>3, <4>1, <4>4
      <4> QED
        BY <4>1, <4>4, <4>5
    <3> QED
      BY <1>9, <3>1, <3>2
  <2>3. ToSet(toClient') \subseteq ToSet(toClient)
    BY <1>3, <2>2, ToSetDrop
  <2> QED
    BY <1>2, <1>3, <2>1, <2>3 DEF BytesInv
<1>10. CASE ServerRead
  <2>1. /\ server.op = "read" /\ UNCHANGED toClient
        /\ \E n \in Readable(server, Len(toServer)) : toServer' = Drop(toServer, n)
    BY <1>10 DEF ServerRead
  <2>2. \E n \in Nat : n <= Len(toServer) /\ toServer' = Drop(toServer, n)
    BY <1>3, <2>1, ReadsSome
  <2>3. ToSet(toServer') \subseteq ToSet(toServer)
    BY <1>3, <2>2, ToSetDrop
  <2> QED
    BY <1>2, <1>3, <1>10, <2>1, <2>3, ServerReadStep DEF BytesInv
<1>11. CASE ServerEof \/ AsyncProcess \/ ServerWriteFail
  <2>1. /\ UNCHANGED <<toServer, toClient>>
        /\ \/ server' = [server EXCEPT !.op = "closed"]
           \/ server.op = "rpc" /\ server' = [server EXCEPT !.op = "write"]
           \/ server.op = "rpc" /\ IsOneway(Serving)
    BY <1>11 DEF ServerEof, AsyncProcess, ServerWriteFail, Closed
  <2>2. ~(server.op = "rpc" /\ IsOneway(Serving))
    BY ServedIs DEF Streams, ServerInv, SessionInv
  <2>3. server'.op # "undefined"
    BY <1>3, <2>1, <2>2, OpIs
  <2> QED
    BY <1>2, <1>3, <2>1, <2>3 DEF BytesInv
<1>12. CASE ServerWrite
  <2>1. /\ server.op = "write" /\ UNCHANGED toServer
        /\ toClient' = toClient \/ toClient' = toClient \o Reply(Serving)
    BY <1>12 DEF ServerWrite
  <2>2. server'.op # "undefined"
    BY <1>12, <2>1, ServerWriteStep, RestFits DEF BytesInv
  <2>3. Reply(Serving) \in Seq(Byte) /\ ToSet(Reply(Serving)) \subseteq Stream(ReplySize)
    <3>1. Serving \in Ids /\ ReplySize[Serving] \in Nat
      BY <2>1, ServedIs
    <3>2. << >> \in Seq(Byte) /\ ToSet(<< >>) = {}
      BY EmptySeq DEF ToSet
    <3> QED
      BY <1>5, <3>1, <3>2 DEF Reply
  <2>4. ToSet(toClient') \subseteq Stream(ReplySize)
    BY <1>3, <2>1, <2>3, ToSetConcat
  <2> QED
    BY <1>2, <1>3, <2>1, <2>2, <2>4 DEF BytesInv
<1> QED
  BY <1>6, <1>7, <1>8, <1>9, <1>10, <1>11, <1>12 DEF Next

\* The types; and, if what may follow a oneway request fits, no overlapping copy and no
\* underflow of the free space of a buffer, for any number of calls and users of the
\* connection and any fragmentation (async_connection.h, start_recv and
\* on_handle_write).
THEOREM StreamTypes ==
  ASSUME OnewaySynchronous(Sessions), OnewayFits(Sessions) PROVE Spec => []TypeOK
<1>1. Init => Streams /\ CallsInv /\ BytesInv
  BY StreamsInit, Initially, BytesInit
<1>2. Streams /\ CallsInv /\ BytesInv /\ [Next]_vars => (Streams /\ CallsInv /\ BytesInv)'
  BY StreamsStep, CallsStep, BytesStep
<1>3. Streams /\ CallsInv /\ BytesInv => TypeOK
  <2> SUFFICES ASSUME Streams, CallsInv, BytesInv PROVE TypeOK
    OBVIOUS
  <2>1. /\ async_rpc \in BOOLEAN /\ sockets \in Nat
        /\ calls \in 0..Len(script) /\ pending \in 0..Len(script)
    BY DEF Streams, SessionInv, CallsInv, OutcomeInv
  <2>2. ToSet(sent) \subseteq Ids
    <3>1. \A i \in DOMAIN sent : sent[i] \in Ids
      BY ElementOfSeq, LenProperties DEF Streams, SentInv
    <3> QED
      BY <3>1 DEF ToSet
  <2>3. \A c \in {client, server} :
          /\ c.op \in Op \ {"frame"} /\ c.state \in {"kReadFrameSize", "kReadFrame"}
          /\ c.op # "undefined" /\ Len(c.buf) <= c.room
    BY DEF Streams, ClientInv, ServerInv, BytesInv, ConnInv, Connection, Op
  <2> QED
    BY <2>1, <2>2, <2>3 DEF TypeOK, NoMemoryError, BytesInv
<1> QED
  BY <1>1, <1>2, <1>3, PTL DEF Spec

===============================================================================
