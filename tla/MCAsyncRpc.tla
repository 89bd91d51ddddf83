------------------------------ MODULE MCAsyncRpc ------------------------------
(* Small instances of AsyncRpc for TLC. *)
EXTENDS AsyncRpcCalls

Session(modes, scripts, n) == [async_rpc : modes, script : scripts, sockets : {n}]

TwoWay(n) == [sync |-> FALSE, oneway |-> FALSE, void |-> FALSE, fails |-> FALSE,
              request |-> n, reply |-> 6 - n]
OneWay(n) == [TwoWay(n) EXCEPT !.oneway = TRUE, !.void = TRUE, !.reply = 1]
Sync(call) == [call EXCEPT !.sync = TRUE]

\* Three calls with replies; the second may have a size the protocol forbids.
CallScripts ==
  {<<a, b, c>> : a, b, c \in {TwoWay(n) : n \in {1, 3, 5}}} \union
  {<<TwoWay(1), [TwoWay(1) EXCEPT !.request = n]>> : n \in {0, kMaxFrameSize}} \union
  {<<TwoWay(1), [TwoWay(1) EXCEPT !.reply = n]>> : n \in {0, kMaxFrameSize}}

\* A oneway call among them, the requests of one size: never more than one
\* frame is behind the frame being processed.
MixedScripts == {<<TwoWay(1), OneWay(1), TwoWay(1)>>, <<OneWay(1), TwoWay(1), TwoWay(1)>>,
                 <<OneWay(1), TwoWay(1), OneWay(1)>>, <<TwoWay(1), TwoWay(1), OneWay(1)>>,
                 <<Sync(OneWay(1)), Sync(TwoWay(1)), TwoWay(1)>>}

\* Synchronous calls before and after others, one with an illegal reply.
SyncScripts ==
  {<<TwoWay(n), Sync(TwoWay(m)), TwoWay(n)>> : n, m \in {1, 5}} \union
  {<<Sync(TwoWay(5)), TwoWay(1), Sync(TwoWay(1))>>} \union
  {<<TwoWay(1), Sync([TwoWay(1) EXCEPT !.reply = n])>> : n \in {0, kMaxFrameSize}}

\* Functions that fail, of a result or void, called either way.
FailScripts == {<<[call EXCEPT !.fails = TRUE, !.void = v], TwoWay(1)>> :
                  call \in {TwoWay(5), Sync(TwoWay(5))}, v \in BOOLEAN}

\* A oneway call goes only to a server with synchronous handlers.
StreamSessions ==
  Session(BOOLEAN, CallScripts \union SyncScripts, 0) \union
  Session(BOOLEAN, FailScripts \union {<<TwoWay(1), TwoWay(5)>>, <<Sync(TwoWay(5)), TwoWay(1)>>}, 1) \union
  Session({FALSE}, MixedScripts, 0)

\* The theorems about the streams are about these sessions too, ...
ASSUME StreamsAssumption == OnewaySynchronous(StreamSessions) /\ OnewayFits(StreamSessions)

\* ... and not about a oneway call to a server with asynchronous handlers.
OnewaySessions == Session({TRUE}, {<<OneWay(1), TwoWay(1)>>}, 0)
=============================================================================
