---------------------------- MODULE ServiceManager ----------------------------
(***************************************************************************)
(* The registry of async/service_manager.cpp: per service id a set of      *)
(* backends, registered with the connection pool, and a random plan in     *)
(* which get() tries them.                                                 *)
(*                                                                         *)
(* Every operation holds mutex_ from its first look at map_ to its end,    *)
(* the calls into the pool included, so an operation is one step.  What    *)
(* parse_backends reads of a string is a set of keys: entries that are     *)
(* malformed or do not resolve are dropped.                                *)
(*                                                                         *)
(* The plan holds pointers to the nodes of the set of backends, so nodes   *)
(* have identities: a node that is freed may be allocated again.           *)
(***************************************************************************)
EXTENDS Naturals, FiniteSets, SequencesExt

CONSTANTS
  Service,        \* service ids
  EndPoint,       \* resolved addresses
  LocalEndPoint,  \* those that "localhost" or the host name resolve to
  Node,           \* memory of set nodes, NodeBound of them
  PlanLimit,      \* uses of a plan before a new one is drawn: 4096
  Freed, NoGet

ASSUME LimitAssumption == PlanLimit \in Nat
ASSUME LocalAssumption == LocalEndPoint \subseteq EndPoint
ASSUME NodeAssumption == IsFiniteSet(Node)

\* What ServiceEndPointLess compares.
Key == {[local |-> FALSE, endpoint |-> e] : e \in EndPoint}
         \union {[local |-> TRUE, endpoint |-> e] : e \in LocalEndPoint}

ASSUME FreedAssumption == Freed \notin Key

VARIABLES
  sep_set,     \* the nodes of the backends of a service
  content,     \* the backend in a node
  sep_select_vec, sep_select_vec_count,  \* the plan of a service and its uses
  registered,  \* the endpoints added to the pool and not deleted since
  last,        \* what the last operation, if it was a get(), dereferenced
  lost         \* for a property: services that lost a node since their plan was drawn

vars == <<sep_set, content, sep_select_vec, sep_select_vec_count, registered, last, lost>>
planVars == <<sep_select_vec, sep_select_vec_count>>

-------------------------------------------------------------------------------
\* Faulty variants of helpers below.
RegisterOnly(new, old) == registered' = registered \union new
UnregisterOnly(new, old) == registered' = registered \ old
PlanNeverWorn(id) == Len(sep_select_vec[id]) # Cardinality(sep_set[id])
SlotFixed(count, i, size) == 1 + (count % size)
PlanWornByUse(id) == sep_select_vec_count[id] > PlanLimit

Keys(id) == {content[n] : n \in sep_set[id]}
EndPoints(K) == {k.endpoint : k \in K}
FreeNodes == {n \in Node : content[n] = Freed}

\* The new keys of B, each of which gets a node.
FreshKeys(id, B) == B \ Keys(id)

\* The pool calls of an operation: first the adds, then the dels.
PoolCalls(new, old) == registered' = (registered \union new) \ old

\* The set of service id becomes keep plus new nodes for the keys of K; the
\* nodes that are not kept are freed.
Rebuild(id, keep, K) ==
  \E node \in {f \in [K -> FreeNodes] : IsInjective(f)} :
    /\ sep_set' = [sep_set EXCEPT ![id] = keep \union Range(node)]
    /\ content' = [n \in Node |->
         CASE n \in Range(node) -> CHOOSE k \in K : node[k] = n
           [] n \in sep_set[id] \ keep -> Freed
           [] OTHER -> content[n]]
    /\ lost' = IF sep_set[id] \subseteq keep THEN lost ELSE lost \union {id}

Init ==
  /\ sep_set = [id \in Service |-> {}]
  /\ content = [n \in Node |-> Freed]
  /\ sep_select_vec = [id \in Service |-> << >>]
  /\ sep_select_vec_count = [id \in Service |-> 0]
  /\ registered = {}
  /\ last = NoGet
  /\ lost = {}

\* The set is replaced, nodes included, even where the backends are the same.
SetBackend(id, B) ==
  /\ Rebuild(id, {}, B)
  /\ PoolCalls(EndPoints(B \ Keys(id)), EndPoints(Keys(id) \ B))
  /\ last' = NoGet
  /\ UNCHANGED planVars

AddBackend(id, B) ==
  /\ Rebuild(id, sep_set[id], FreshKeys(id, B))
  /\ PoolCalls(EndPoints(FreshKeys(id, B)), {})
  /\ last' = NoGet
  /\ UNCHANGED planVars

DelBackend(id, B) ==
  LET kept == {n \in sep_set[id] : content[n] \notin B}
  IN /\ Rebuild(id, kept, {})
     /\ PoolCalls({}, EndPoints(B \intersect Keys(id)))
     /\ last' = NoGet
     /\ UNCHANGED planVars

-------------------------------------------------------------------------------
\* A plan is drawn anew when the number of backends has changed or it is worn.
PlanWorn(id) ==
  \/ Len(sep_select_vec[id]) # Cardinality(sep_set[id])
  \/ sep_select_vec_count[id] > PlanLimit

\* The position in the plan of the i-th try of a get().
Slot(count, i, size) == 1 + ((count + i) % size)

\* get(): the backends are tried in the order of the plan from where the last
\* get() left it, at most once each; the pool may have a connection or not.
Get(id) ==
  \E plan \in IF PlanWorn(id) THEN SetToSeqs(sep_set[id]) ELSE {sep_select_vec[id]} :
    LET size == Len(plan)
        count == IF PlanWorn(id) THEN 0 ELSE sep_select_vec_count[id]
    IN \E tries \in 0..size, ok \in BOOLEAN :
         /\ ok => tries > 0
         /\ ~ok => tries = size
         /\ sep_select_vec' = [sep_select_vec EXCEPT ![id] = plan]
         /\ sep_select_vec_count' = [sep_select_vec_count EXCEPT ![id] = count + tries]
         /\ last' = [id |-> id, ok |-> ok,
                     tried |-> {plan[Slot(count, i, size)] : i \in 0..(tries - 1)}]
         /\ lost' = IF PlanWorn(id) THEN lost \ {id} ELSE lost
         /\ UNCHANGED <<sep_set, content, registered>>

Next ==
  \E id \in Service :
    \/ \E B \in SUBSET Key : SetBackend(id, B) \/ AddBackend(id, B) \/ DelBackend(id, B)
    \/ Get(id)

Spec == Init /\ [][Next]_vars

-------------------------------------------------------------------------------
TypeOK ==
  /\ sep_set \in [Service -> SUBSET Node]
  /\ content \in [Node -> Key \union {Freed}]
  /\ \A id \in Service : ToSet(sep_select_vec[id]) \subseteq Node
  /\ sep_select_vec_count \in [Service -> 0..(PlanLimit + Cardinality(Node))]
  /\ registered \in SUBSET EndPoint
  /\ last = NoGet \/ last.tried \subseteq Node
  /\ lost \subseteq Service

\* Nothing stays registered with the pool, and probed by it, that no service
\* has as a backend.
NoOrphans == registered \subseteq UNION {EndPoints(Keys(id)) : id \in Service}

\* get() gives up on a service only after it has tried every entry of its plan,
\* although it starts where the last get() stopped (service_manager.cpp:280).
FailsOnlyAfterAll ==
  last # NoGet => last.ok \/ last.tried = ToSet(sep_select_vec[last.id])

\* What holds of the pointers that a plan keeps from one get() to the next (223):
\* a get() whose service has lost no node since the plan was drawn tries backends
\* of the service only and gives up only after all it has now, those added since
\* included, though nodes that other services free are allocated again.
TriesBackendsUnlessLost ==
  last # NoGet /\ last.id \notin lost =>
    /\ last.tried \subseteq sep_set[last.id]
    /\ last.ok \/ last.tried = sep_set[last.id]

\* service_manager.h:35: get() gets a connection of that service.  Every backend
\* it tries is one that the service has now.
TriesOnlyBackends == last # NoGet => last.tried \subseteq sep_set[last.id]
=============================================================================
