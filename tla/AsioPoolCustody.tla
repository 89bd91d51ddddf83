--------------------------- MODULE AsioPoolCustody ---------------------------
(* AsioPool keeps the promises of ConnectionCustody: the refinement mapping. *)
EXTENDS AsioPool

\* An owner is a thread, an endpoint or nobody, and one of these only.
ASSUME OwnersAssumption == EndPoint \intersect (Actor \union {NoActor}) = {}

\* The threads that have connection s in hand.
InHand(s) ==
  {a \in Actor : \/ conn[a] = s
                 \/ s \in ToSet(spare[a])
                 \/ a \in Caller /\ held[a] = s}

Owner(s) ==
  IF remote[s] = NoEndPoint THEN NoActor
  ELSE IF s \in ToSet(pool[remote[s]]) THEN remote[s]
  ELSE CHOOSE a \in InHand(s) : TRUE

Custody == INSTANCE ConnectionCustody
  WITH Thread <- Actor, Conn <- Socket, Capacity <- MaxConn,
       Nobody <- NoActor, NoPeer <- NoEndPoint,
       owner <- [s \in Socket |-> Owner(s)], peer <- remote

\* Every step of the pool is a step of the custody of its connections, or none:
\* a connection put back is closed only when its pool is full or out of use, an
\* idle one leaves its pool only for a caller or with the whole pool, and what
\* a probe connects ends up in the pool or is closed, although the pool may
\* have been deleted, added again or refilled while the probe was connecting.
ImplementsCustody == Custody!Spec
=============================================================================
