-------------------------- MODULE ConnectionCustody --------------------------
(***************************************************************************)
(* What a connection pool promises about its connections: each one is, at  *)
(* any time, with nobody (closed), with one thread, or idle in the pool of *)
(* the endpoint it is connected to; a pool has a capacity; it gives up     *)
(* idle connections one at a time to a thread, or all at once.             *)
(***************************************************************************)
EXTENDS Naturals, FiniteSets

CONSTANTS Thread, EndPoint, Conn,
          Capacity,  \* of a pool, 0 for no limit
          Nobody, NoPeer

VARIABLES owner, peer

custodyVars == <<owner, peer>>

Of(x) == {c \in Conn : owner[c] = x}

Idle == UNION {Of(e) : e \in EndPoint}

\* Of the connections S those in K go to x; the others are closed.
Move(S, K, x) ==
  /\ owner' = [c \in Conn |-> IF c \in K THEN x ELSE IF c \in S THEN Nobody ELSE owner[c]]
  /\ peer' = [c \in Conn |-> IF c \in S \ K THEN NoPeer ELSE peer[c]]

Init ==
  /\ owner = [c \in Conn |-> Nobody]
  /\ peer = [c \in Conn |-> NoPeer]

\* A thread connects to an endpoint.
Open(t, c, e) ==
  /\ owner[c] = Nobody
  /\ owner' = [owner EXCEPT ![c] = t]
  /\ peer' = [peer EXCEPT ![c] = e]

\* A thread closes some of its connections.
Release(t, S) == S \subseteq Of(t) /\ Move(S, {}, Nobody)

\* A thread takes one idle connection.
Withdraw(t, c) == c \in Idle /\ Move({c}, {c}, t)

\* A thread gives the pool of e some of its connections to e.  The pool keeps
\* K of them, all if it can: it closes some only when it is full.
Deposit(t, S, K, e) ==
  /\ S \subseteq Of(t)
  /\ \A c \in S : peer[c] = e
  /\ K # S => Capacity # 0 /\ Cardinality(Of(e)) + Cardinality(K) = Capacity
  /\ Move(S, K, e)

\* The pools of some endpoints are emptied.
Discard(E) == Move(UNION {Of(e) : e \in E}, {}, Nobody)

Next ==
  \/ \E t \in Thread, c \in Conn :
       Withdraw(t, c) \/ \E e \in EndPoint : Open(t, c, e)
  \/ \E t \in Thread : \E S \in SUBSET Of(t) :
       \/ Release(t, S)
       \/ \E K \in SUBSET S, e \in EndPoint : Deposit(t, S, K, e)
  \/ \E E \in SUBSET EndPoint : Discard(E)

Spec == Init /\ [][Next]_custodyVars
=============================================================================
