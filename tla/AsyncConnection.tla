--------------------------- MODULE AsyncConnection ---------------------------
(***************************************************************************)
(* The framed connection of async/async_connection.h, base of the server's *)
(* connections and of the client.  A connection is a record; a member      *)
(* function is an operator from the record before the call to the one      *)
(* after it.                                                               *)
(*                                                                         *)
(* Bytes are pairs <<id, i>>: the i-th byte of frame id.  The first        *)
(* kFrameSize bytes of a frame are its header, and size[id] is the number  *)
(* they encode.                                                            *)
(***************************************************************************)
EXTENDS Naturals, SequencesExt

CONSTANTS kFrameSize, kBufferSize, kMaxFrameSize

ASSUME SizeAssumption ==
  /\ kFrameSize \in Nat \ {0}
  /\ kBufferSize \in Nat /\ kMaxFrameSize \in Nat
  /\ kBufferSize > kFrameSize

\* What a connection waits for: "read" and "write" are operations of asio; in
\* "rpc" it is being served; "undefined" stands for a memory error.  In a
\* synchronous call a client waits within "sync_write", then "sync_read"; a
\* "detached" one has no socket.
Op == {"idle", "read", "frame", "sync_write", "sync_read", "rpc", "write", "detached",
       "closed", "undefined"}

\* buf: the first bytes_recv_ bytes of recv_buffer_; room: recv_buffer_.size().
NewConnection ==
  [buf |-> << >>, room |-> kBufferSize, frame_size |-> 0,
   state |-> "kReadFrameSize", op |-> "idle"]

Closed(c) == [c EXCEPT !.op = "closed"]

FrameBytes(id, size) == [i \in 1..(kFrameSize + size[id]) |-> <<id, i>>]

\* Faulty variants of helpers below.
RestartDirty(c) == [c EXCEPT !.frame_size = 0, !.state = "kReadFrameSize", !.op = "read"]
ContinueShort(c) ==
  LET room == IF c.state = "kReadFrame" THEN c.frame_size ELSE c.room
  IN [c EXCEPT !.room = room, !.op = IF Len(c.buf) > room THEN "undefined" ELSE "read"]
ContinueNoSpace(c) == [c EXCEPT !.room = Len(c.buf), !.op = "read"]

\* get_frame_size(); bytes that are not the start of a frame make no legal size.
GetFrameSize(buf, size) == IF buf[1][2] = 1 THEN size[buf[1][1]] ELSE kMaxFrameSize

Legal(n) == n # 0 /\ n < kMaxFrameSize

Complete(c) == Len(c.buf) >= c.frame_size + kFrameSize

Frame(c) == SubSeq(c.buf, 1, c.frame_size + kFrameSize)

\* What is left when the frame is consumed.
Rest(c) == SubSeq(c.buf, c.frame_size + kFrameSize + 1, Len(c.buf))

\* start_recv(true): a new receive, from an empty buffer.
Restart(c) ==
  [c EXCEPT !.buf = << >>, !.frame_size = 0, !.state = "kReadFrameSize", !.op = "read",
            !.room = IF @ > kMaxFrameSize THEN kBufferSize ELSE @]

\* start_recv(false): receive behind the bytes there are.  With more bytes than
\* the resized buffer holds, its free space underflows.
Continue(c) ==
  LET room == IF c.state = "kReadFrame" THEN c.frame_size + kFrameSize ELSE c.room
  IN [c EXCEPT !.room = room, !.op = IF Len(c.buf) > room THEN "undefined" ELSE "read"]

\* handle_buffer(), first with the header, then (falling through) the frame.
HandleFrame(c) == IF Complete(c) THEN [c EXCEPT !.op = "frame"] ELSE Continue(c)

HandleBuffer(c, size) ==
  CASE c.state = "kReadFrame" -> HandleFrame(c)
    [] c.state = "kReadFrameSize" /\ Len(c.buf) < kFrameSize -> Continue(c)
    [] OTHER ->
         LET n == GetFrameSize(c.buf, size)
         IN IF Legal(n)
              THEN HandleFrame([c EXCEPT !.frame_size = n, !.state = "kReadFrame"])
              ELSE Closed(c)

\* on_handle_read without error.
Received(c, bytes, size) == HandleBuffer([c EXCEPT !.buf = @ \o bytes], size)

\* How many of the bytes that have arrived async_read_some may deliver; a read
\* into no space completes at once with none.
Readable(c, arrived) ==
  LET space == c.room - Len(c.buf)
  IN IF space = 0 THEN {0} ELSE 1..(IF arrived < space THEN arrived ELSE space)

\* on_handle_write without error: what follows the frame is moved to the front
\* by memcpy, which is undefined when the two ranges overlap.
Written(c, size) ==
  IF Rest(c) = << >> THEN {Restart(c)}
  ELSE {HandleBuffer([c EXCEPT !.buf = Rest(c), !.frame_size = 0,
                               !.state = "kReadFrameSize"], size)}
       \union IF Len(Rest(c)) > c.frame_size + kFrameSize
                THEN {[c EXCEPT !.op = "undefined"]} ELSE {}
=============================================================================
