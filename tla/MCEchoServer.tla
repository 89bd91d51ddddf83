----------------------------- MODULE MCEchoServer -----------------------------
(* Small instances of EchoServer for TLC. *)
EXTENDS EchoServer

\* Calls and shutdowns from two clients, against a stop from outside.
CallLimits == [clients |-> 2, stops |-> 1, userStops |-> 0, errors |-> 0, gets |-> FALSE,
               echo |-> 1, shutdown |-> 2]

\* The server and the pool are stopped, and an accept fails, with one client.
StopLimits == [clients |-> 1, stops |-> 1, userStops |-> 1, errors |-> 1, gets |-> FALSE,
               echo |-> 1, shutdown |-> 0]

\* Two stops, while a thread of the application takes services of the pool.
PoolLimits == [clients |-> 1, stops |-> 1, userStops |-> 1, errors |-> 0, gets |-> TRUE,
               echo |-> 0, shutdown |-> 0]

AllLimits == {CallLimits, StopLimits, PoolLimits}
=============================================================================
