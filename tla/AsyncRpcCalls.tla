--------------------------- MODULE AsyncRpcCalls ---------------------------
(* AsyncRpc keeps the promise of AsyncCalls: the refinement mapping. *)
EXTENDS AsyncRpc

Calls == INSTANCE AsyncCalls
  WITH oneway <- {k \in Ids : IsOneway(k)}, started <- calls, current <- pending,
       result <- [k \in Ids |-> outcome[k].kind]

\* Every step of a client, its streams and the server is a step of its calls as
\* the user sees them, or none: whatever completes a call (its reply, an error
\* of the transport, an illegal frame, the closing of the connection) comes
\* while the call is in progress, calls back once, with what the call may
\* result in, and leaves the client free for the next one, also on a socket that
\* another client has used.
ImplementsCalls == Calls!Spec
=============================================================================
