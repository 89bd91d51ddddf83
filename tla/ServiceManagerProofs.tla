-------------------------- MODULE ServiceManagerProofs --------------------------
(***************************************************************************)
(* Theorems about ServiceManager for any number of services, endpoints and *)
(* nodes and any limit of a plan.                                          *)
(***************************************************************************)
EXTENDS ServiceManager, FiniteSetTheorems, TLAPS

\* TypeOK but for the plans and what a get() dereferenced.
Types ==
  /\ sep_set \in [Service -> SUBSET Node]
  /\ content \in [Node -> Key \union {Freed}]
  /\ registered \in SUBSET EndPoint

\* A node that is not freed has one owner.
Owned ==
  /\ \A n \in Node : content[n] # Freed <=> \E id \in Service : n \in sep_set[id]
  /\ \A id, jd \in Service : \A n \in sep_set[id] \intersect sep_set[jd] : id = jd

SetInv == Types /\ Owned /\ NoOrphans

-------------------------------------------------------------------------------
(* The set of a service *)

\* What an operation makes of the set of a service: the nodes of keep stay as they
\* are, those of the keys of K are new, and the others are freed.
Renewed(id, keep, K, node) ==
  /\ IsInjective(node)
  /\ sep_set' = [sep_set EXCEPT ![id] = keep \union Range(node)]
  /\ sep_set' \in [Service -> SUBSET Node]
  /\ content' \in [Node -> Key \union {Freed}]
  /\ \A k \in K : content'[node[k]] = k
  /\ \A n \in Node : n \in sep_set[id] \ keep => content'[n] = Freed
  /\ \A n \in Node : n \notin Range(node) /\ n \notin sep_set[id] \ keep
                       => content'[n] = content[n]

LEMMA Rebuilt ==
  ASSUME Types, Owned, NEW id \in Service, NEW keep \in SUBSET sep_set[id],
         NEW K \in SUBSET Key, Rebuild(id, keep, K)
  PROVE  \E node \in [K -> FreeNodes] : Renewed(id, keep, K, node)
<1>1. PICK node \in [K -> FreeNodes] :
             /\ IsInjective(node)
             /\ sep_set' = [sep_set EXCEPT ![id] = keep \union Range(node)]
             /\ content' = [n \in Node |->
                  CASE n \in Range(node) -> CHOOSE k \in K : node[k] = n
                    [] n \in sep_set[id] \ keep -> Freed
                    [] OTHER -> content[n]]
  BY DEF Rebuild
<1>2. \A k \in K : node[k] \in Range(node) /\ node[k] \in Node
  BY DEF Range, FreeNodes
<1>3. Range(node) \subseteq Node /\ \A n \in Range(node) : content[n] = Freed
  BY DEF Range, FreeNodes
<1>4. \A n \in sep_set[id] : n \notin Range(node)
  BY <1>3 DEF Owned, Types
<1>5. ASSUME NEW n \in Range(node)
      PROVE  (CHOOSE k \in K : node[k] = n) \in K /\ node[CHOOSE k \in K : node[k] = n] = n
  <2>1. \E k \in K : node[k] = n
    BY DEF Range
  <2> QED
    BY <2>1
<1>6. \A n \in Range(node) : content'[n] = CHOOSE k \in K : node[k] = n
  BY <1>1, <1>3, <1>4
<1>7. \A n \in Node : n \in sep_set[id] \ keep => content'[n] = Freed
  BY <1>1, <1>4
<1>8. \A n \in Node : n \notin Range(node) /\ n \notin sep_set[id] \ keep
                        => content'[n] = content[n]
  BY <1>1
<1>9. \A k \in K : content'[node[k]] = k
  BY <1>1, <1>2, <1>5, <1>6 DEF IsInjective
<1>10. sep_set' \in [Service -> SUBSET Node]
  BY <1>1, <1>3 DEF Types
<1>11. content' \in [Node -> Key \union {Freed}]
  <2>1. \A n \in Node : content'[n] \in Key \union {Freed}
    BY <1>5, <1>6, <1>7, <1>8 DEF Types
  <2> QED
    BY <1>1, <2>1
<1> QED
  BY <1>1, <1>7, <1>8, <1>9, <1>10, <1>11 DEF Renewed

\* So the nodes stay owned when the new keys are not those of nodes that stay,
\* and the service has these keys and those; the other services keep theirs.
LEMMA Reowned ==
  ASSUME Types, Owned, NEW id \in Service, NEW keep \in SUBSET sep_set[id],
         NEW K \in SUBSET Key, Rebuild(id, keep, K), \A n \in keep : content[n] \notin K
  PROVE  /\ sep_set' \in [Service -> SUBSET Node]
         /\ content' \in [Node -> Key \union {Freed}]
         /\ Owned'
         /\ Keys(id)' = {content[n] : n \in keep} \union K
         /\ \A jd \in Service : jd # id => Keys(jd)' = Keys(jd)
<1>0. PICK node \in [K -> FreeNodes] : Renewed(id, keep, K, node)
  BY Rebuilt
<1>1. /\ IsInjective(node)
      /\ sep_set' = [sep_set EXCEPT ![id] = keep \union Range(node)]
      /\ sep_set' \in [Service -> SUBSET Node]
      /\ content' \in [Node -> Key \union {Freed}]
      /\ \A k \in K : content'[node[k]] = k
      /\ \A n \in Node : n \in sep_set[id] \ keep => content'[n] = Freed
      /\ \A n \in Node : n \notin Range(node) /\ n \notin sep_set[id] \ keep
                           => content'[n] = content[n]
  BY <1>0 DEF Renewed
<1>2. /\ sep_set'[id] = keep \union Range(node)
      /\ \A jd \in Service : jd # id => sep_set'[jd] = sep_set[jd]
  BY <1>1 DEF Types
<1>3. /\ \A k \in K : node[k] \in Range(node)
      /\ \A n \in Range(node) : \E k \in K : n = node[k] /\ content'[n] = k
      /\ \A n \in Range(node) : n \in Node /\ content[n] = Freed /\ content'[n] \in K
  BY <1>1 DEF Range, FreeNodes
<1>4. \A jd \in Service : \A n \in sep_set[jd] : n \in Node /\ n \notin Range(node)
  BY <1>3 DEF Owned, Types
<1>5. \A n \in keep : content'[n] = content[n]
  BY <1>1, <1>4
<1>6. \A jd \in Service : jd # id => \A n \in sep_set[jd] : content'[n] = content[n]
  BY <1>1, <1>4 DEF Owned
<1>7. Keys(id)' = {content[n] : n \in keep} \union K
  <2>1. {content'[n] : n \in Range(node)} = K
    BY <1>1, <1>3
  <2>2. {content'[n] : n \in keep} = {content[n] : n \in keep}
    BY <1>5
  <2> QED
    BY <1>2, <2>1, <2>2 DEF Keys
<1>8. \A jd \in Service : jd # id => Keys(jd)' = Keys(jd)
  BY <1>2, <1>6 DEF Keys
<1>9. \A n \in Node : content'[n] # Freed <=> \E jd \in Service : n \in sep_set'[jd]
  <2> SUFFICES ASSUME NEW n \in Node
               PROVE  content'[n] # Freed <=> \E jd \in Service : n \in sep_set'[jd]
    OBVIOUS
  <2>1. CASE n \in Range(node)
    BY <1>2, <1>3, <2>1, FreedAssumption
  <2>2. CASE n \in sep_set[id] \ keep
    <3>1. content'[n] = Freed /\ n \notin Range(node)
      BY <1>1, <1>4, <2>2
    <3>2. \A jd \in Service : n \notin sep_set'[jd]
      BY <1>2, <2>2, <3>1 DEF Owned
    <3> QED
      BY <3>1, <3>2
  <2>3. CASE n \notin Range(node) /\ n \notin sep_set[id] \ keep
    <3>1. content'[n] = content[n]
      BY <1>1, <2>3
    <3>2. \A jd \in Service : n \in sep_set'[jd] <=> n \in sep_set[jd]
      BY <1>2, <2>3
    <3> QED
      BY <3>1, <3>2 DEF Owned
  <2> QED
    BY <2>1, <2>2, <2>3
<1>10. \A jd, kd \in Service : \A n \in sep_set'[jd] \intersect sep_set'[kd] : jd = kd
  BY <1>2, <1>4 DEF Owned
<1> QED
  BY <1>1, <1>7, <1>8, <1>9, <1>10 DEF Owned

\* What is registered and not deleted is a backend of some service.
LEMMA Registered ==
  ASSUME SetInv, NEW id \in Service, NEW K \in SUBSET Key, NEW old \in SUBSET Key,
         Keys(id)' \in SUBSET Key,
         Keys(id) \subseteq Keys(id)' \union old, K \subseteq Keys(id)',
         \A jd \in Service : jd # id => Keys(jd)' = Keys(jd),
         PoolCalls(EndPoints(K), EndPoints(old))
  PROVE  registered' \in SUBSET EndPoint /\ NoOrphans'
<1>1. \A S : \A e : e \in EndPoints(S) <=> \E k \in S : e = k.endpoint
  BY DEF EndPoints
<1>2. EndPoints(K) \subseteq EndPoint
  BY LocalAssumption DEF EndPoints, Key
<1>3. registered' = (registered \union EndPoints(K)) \ EndPoints(old)
  BY DEF PoolCalls
<1>4. ASSUME NEW e \in registered' PROVE \E jd \in Service : e \in EndPoints(Keys(jd)')
  <2>1. CASE e \in EndPoints(K)
    BY <1>1, <2>1
  <2>2. CASE e \in registered
    <3>1. PICK jd \in Service : e \in EndPoints(Keys(jd))
      BY <2>2 DEF SetInv, NoOrphans
    <3>2. PICK k \in Keys(jd) : e = k.endpoint
      BY <1>1, <3>1
    <3>3. k \notin old
      BY <1>1, <1>3, <1>4, <3>2
    <3> QED
      BY <1>1, <3>2, <3>3
  <2> QED
    BY <1>3, <2>1, <2>2
<1>5. \A jd \in Service : EndPoints(Keys(jd)') = EndPoints(Keys(jd))'
  BY DEF EndPoints
<1> QED
  BY <1>2, <1>3, <1>4, <1>5 DEF SetInv, Types, NoOrphans

LEMMA KeysAreKeys == ASSUME SetInv, NEW id \in Service PROVE Keys(id) \subseteq Key
BY DEF SetInv, Types, Owned, Keys

LEMMA SetStep == SetInv /\ [Next]_vars => SetInv'
<1> SUFFICES ASSUME SetInv, [Next]_vars PROVE SetInv'
  OBVIOUS
<1>0. Types /\ Owned
  BY DEF SetInv
<1>1. ASSUME NEW id \in Service, NEW B \in SUBSET Key, SetBackend(id, B) PROVE SetInv'
  <2>1. Rebuild(id, {}, B) /\ PoolCalls(EndPoints(B \ Keys(id)), EndPoints(Keys(id) \ B))
    BY <1>1 DEF SetBackend
  <2>2. /\ sep_set' \in [Service -> SUBSET Node]
        /\ content' \in [Node -> Key \union {Freed}]
        /\ Owned' /\ Keys(id)' = B
        /\ \A jd \in Service : jd # id => Keys(jd)' = Keys(jd)
    <3>1. {} \in SUBSET sep_set[id] /\ {content[n] : n \in {}} = {}
      OBVIOUS
    <3>2. Keys(id)' = {content[n] : n \in {}} \union B
      BY <1>0, <2>1, <3>1, Reowned
    <3> QED
      BY <1>0, <2>1, <3>1, <3>2, Reowned
  <2>3. registered' \in SUBSET EndPoint /\ NoOrphans'
    <3>1. B \ Keys(id) \in SUBSET Key /\ Keys(id) \ B \in SUBSET Key
      BY KeysAreKeys
    <3> QED
      BY <2>1, <2>2, <3>1, Registered
  <2> QED
    BY <2>2, <2>3 DEF SetInv, Types
<1>2. ASSUME NEW id \in Service, NEW B \in SUBSET Key, AddBackend(id, B) PROVE SetInv'
  <2> DEFINE K == B \ Keys(id)
  <2>1. Rebuild(id, sep_set[id], K) /\ PoolCalls(EndPoints(K), {})
    BY <1>2 DEF AddBackend, FreshKeys
  <2>2. \A n \in sep_set[id] : content[n] \notin K
    BY DEF Keys
  <2>3. K \in SUBSET Key /\ {content[n] : n \in sep_set[id]} = Keys(id)
    BY DEF Keys
  <2>4. /\ sep_set' \in [Service -> SUBSET Node]
        /\ content' \in [Node -> Key \union {Freed}]
        /\ Owned' /\ Keys(id)' = Keys(id) \union K
        /\ \A jd \in Service : jd # id => Keys(jd)' = Keys(jd)
    <3> HIDE DEF K
    <3> QED
      BY <1>0, <2>1, <2>2, <2>3, Reowned
  <2>5. EndPoints({}) = {}
    BY DEF EndPoints
  <2>6. registered' \in SUBSET EndPoint /\ NoOrphans'
    <3> HIDE DEF K
    <3>1. {} \in SUBSET Key
      OBVIOUS
    <3> QED
      BY <2>1, <2>3, <2>4, <2>5, <3>1, KeysAreKeys, Registered
  <2> QED
    BY <2>4, <2>6 DEF SetInv, Types
<1>3. ASSUME NEW id \in Service, NEW B \in SUBSET Key, DelBackend(id, B) PROVE SetInv'
  <2> DEFINE kept == {n \in sep_set[id] : content[n] \notin B}
  <2>1. Rebuild(id, kept, {}) /\ PoolCalls({}, EndPoints(B \intersect Keys(id)))
    BY <1>3 DEF DelBackend
  <2>2. kept \in SUBSET sep_set[id] /\ {} \in SUBSET Key
    OBVIOUS
  <2>3. {content[n] : n \in kept} = Keys(id) \ B
    BY DEF Keys
  <2>4. /\ sep_set' \in [Service -> SUBSET Node]
        /\ content' \in [Node -> Key \union {Freed}]
        /\ Owned' /\ Keys(id)' = Keys(id) \ B
        /\ \A jd \in Service : jd # id => Keys(jd)' = Keys(jd)
    <3> HIDE DEF kept
    <3>1. \A n \in kept : content[n] \notin {}
      OBVIOUS
    <3>2. /\ sep_set' \in [Service -> SUBSET Node]
          /\ content' \in [Node -> Key \union {Freed}]
          /\ Owned'
          /\ Keys(id)' = {content[n] : n \in kept} \union {}
          /\ \A jd \in Service : jd # id => Keys(jd)' = Keys(jd)
      BY <1>0, <2>1, <2>2, <3>1, Reowned
    <3> QED
      BY <2>3, <3>2
  <2>5. EndPoints({}) = {}
    BY DEF EndPoints
  <2>6. registered' \in SUBSET EndPoint /\ NoOrphans'
    <3>1. B \intersect Keys(id) \in SUBSET Key
      OBVIOUS
    <3> QED
      BY <2>1, <2>2, <2>4, <2>5, <3>1, KeysAreKeys, Registered
  <2> QED
    BY <2>4, <2>6 DEF SetInv, Types
<1>4. ASSUME UNCHANGED <<sep_set, content, registered>> PROVE SetInv'
  BY <1>4 DEF SetInv, Types, Owned, NoOrphans, Keys, EndPoints
<1> QED
  BY <1>1, <1>2, <1>3, <1>4 DEF Next, Get, vars

LEMMA SetInit == Init => SetInv
BY DEF Init, SetInv, Types, Owned, NoOrphans, Keys

THEOREM SetCorrect == Spec => []SetInv
BY SetInit, SetStep, PTL DEF Spec

\* Nothing is registered with the pool that no service has, however services
\* share endpoints and whatever is set, added and deleted.
THEOREM Registering == Spec => []NoOrphans
<1>1. SetInv => NoOrphans
  BY DEF SetInv
<1> QED
  BY <1>1, SetCorrect, PTL

-------------------------------------------------------------------------------
(* The plan of a service *)

\* Plans are sequences of nodes, and get() uses one only while it has as many
\* entries as the service has backends.
PlanInv ==
  /\ \A id \in Service : sep_select_vec[id] \in Seq(Node)
  /\ DOMAIN sep_select_vec = Service
  /\ sep_select_vec_count \in [Service -> 0..(PlanLimit + Cardinality(Node))]
  /\ last = NoGet \/ last.tried \subseteq Node
  /\ FailsOnlyAfterAll

\* The plan that a get() uses.
LEMMA Plans ==
  ASSUME SetInv, PlanInv, NEW id \in Service,
         NEW plan \in IF PlanWorn(id) THEN SetToSeqs(sep_set[id]) ELSE {sep_select_vec[id]}
  PROVE  /\ plan \in Seq(Node)
         /\ Len(plan) \in Nat /\ Len(plan) <= Cardinality(Node)
<1>1. /\ IsFiniteSet(sep_set[id]) /\ sep_set[id] \subseteq Node
      /\ Cardinality(sep_set[id]) \in Nat /\ Cardinality(Node) \in Nat
      /\ Cardinality(sep_set[id]) <= Cardinality(Node)
  BY NodeAssumption, FS_Subset, FS_CardinalityType DEF SetInv, Types
<1>2. CASE PlanWorn(id)
  <2>1. plan \in [1..Cardinality(sep_set[id]) -> sep_set[id]]
    BY <1>2 DEF SetToSeqs
  <2> QED
    BY <1>1, <2>1
<1>3. CASE ~PlanWorn(id)
  BY <1>1, <1>3 DEF PlanWorn, PlanInv
<1> QED
  BY <1>2, <1>3

\* As many tries as a plan has entries, from any of them on, come to each.
LEMMA AllTried ==
  ASSUME NEW plan \in Seq(Node), NEW count \in Nat
  PROVE  {plan[Slot(count, i, Len(plan))] : i \in 0..(Len(plan) - 1)} = ToSet(plan)
<1> DEFINE n == Len(plan)
<1>1. CASE n = 0
  BY <1>1 DEF ToSet
<1>2. CASE n > 0
  <2>0. n \in Nat /\ DOMAIN plan = 1..n
    OBVIOUS
  <2> HIDE DEF n
  <2>1. \A i \in 0..(n - 1) : Slot(count, i, n) \in 1..n
    BY <1>2, <2>0 DEF Slot
  <2>2. ASSUME NEW j \in 1..n PROVE \E i \in 0..(n - 1) : Slot(count, i, n) = j
    <3> DEFINE q == count \div n
               r == count % n
    <3>1. q \in Nat /\ r \in 0..(n - 1) /\ count = q * n + r
      BY <1>2, <2>0
    <3> HIDE DEF q, r
    <3>2. CASE j - 1 >= r
      <4>1. j - 1 - r \in 0..(n - 1) /\ count + (j - 1 - r) = q * n + (j - 1)
        BY <1>2, <2>0, <3>1, <3>2
      <4>2. (q * n + (j - 1)) % n = j - 1
        BY <1>2, <2>0, <3>1
      <4> QED
        BY <4>1, <4>2 DEF Slot
    <3>3. CASE j - 1 < r
      <4>1. j - 1 + n - r \in 0..(n - 1) /\ count + (j - 1 + n - r) = (q + 1) * n + (j - 1)
        BY <1>2, <2>0, <3>1, <3>3
      <4>2. ((q + 1) * n + (j - 1)) % n = j - 1
        BY <1>2, <2>0, <3>1
      <4> QED
        BY <4>1, <4>2 DEF Slot
    <3> QED
      BY <2>0, <3>1, <3>2, <3>3
  <2> QED
    BY <2>0, <2>1, <2>2 DEF ToSet, n
<1> QED
  BY <1>1, <1>2

LEMMA PlanStep == SetInv /\ PlanInv /\ [Next]_vars => PlanInv'
<1> SUFFICES ASSUME SetInv, PlanInv, [Next]_vars PROVE PlanInv'
  OBVIOUS
<1>1. ASSUME UNCHANGED planVars, last' = NoGet PROVE PlanInv'
  BY <1>1 DEF PlanInv, planVars, FailsOnlyAfterAll
<1>2. ASSUME NEW id \in Service, Get(id) PROVE PlanInv'
  <2> DEFINE Count == IF PlanWorn(id) THEN 0 ELSE sep_select_vec_count[id]
             Tried(plan, tries) ==
               {plan[Slot(Count, i, Len(plan))] : i \in 0..(tries - 1)}
  <2>1. PICK plan \in IF PlanWorn(id) THEN SetToSeqs(sep_set[id]) ELSE {sep_select_vec[id]} :
          \E tries \in 0..Len(plan), ok \in BOOLEAN :
             /\ ok => tries > 0
             /\ ~ok => tries = Len(plan)
             /\ sep_select_vec' = [sep_select_vec EXCEPT ![id] = plan]
             /\ sep_select_vec_count' = [sep_select_vec_count EXCEPT ![id] = Count + tries]
             /\ last' = [id |-> id, ok |-> ok, tried |-> Tried(plan, tries)]
    BY <1>2 DEF Get
  <2>2. PICK tries \in 0..Len(plan), ok \in BOOLEAN :
             /\ ok => tries > 0
             /\ ~ok => tries = Len(plan)
             /\ sep_select_vec' = [sep_select_vec EXCEPT ![id] = plan]
             /\ sep_select_vec_count' = [sep_select_vec_count EXCEPT ![id] = Count + tries]
             /\ last' = [id |-> id, ok |-> ok, tried |-> Tried(plan, tries)]
    BY <2>1
  <2>3. plan \in Seq(Node) /\ Len(plan) \in Nat /\ Len(plan) <= Cardinality(Node)
    BY <2>1, Plans
  <2>4. Count \in 0..PlanLimit /\ Cardinality(Node) \in Nat /\ PlanLimit \in Nat
    BY LimitAssumption, NodeAssumption, FS_CardinalityType DEF PlanInv, PlanWorn
  <2> HIDE DEF Count
  <2>5. Tried(plan, tries) \subseteq Node
    <3>1. \A i \in 0..(tries - 1) : Slot(Count, i, Len(plan)) \in 1..Len(plan)
      BY <2>3, <2>4 DEF Slot
    <3> QED
      BY <2>3, <3>1
  <2>6. Tried(plan, Len(plan)) = ToSet(plan)
    <3>1. Count \in Nat
      BY <2>4
    <3>2. {plan[Slot(Count, i, Len(plan))] : i \in 0..(Len(plan) - 1)} = ToSet(plan)
      BY <2>3, <3>1, AllTried
    <3> QED
      BY <3>2
  <2> HIDE DEF Tried
  <2>7. /\ \A jd \in Service : sep_select_vec'[jd] \in Seq(Node)
        /\ DOMAIN sep_select_vec' = Service
        /\ sep_select_vec'[id] = plan
    BY <2>2, <2>3 DEF PlanInv
  <2>8. sep_select_vec_count' \in [Service -> 0..(PlanLimit + Cardinality(Node))]
    <3>1. Count + tries \in 0..(PlanLimit + Cardinality(Node))
      BY <2>3, <2>4
    <3> QED
      BY <2>2, <3>1 DEF PlanInv
  <2>9. last'.tried \subseteq Node /\ (last'.ok \/ last'.tried = ToSet(sep_select_vec'[last'.id]))
    BY <2>2, <2>5, <2>6, <2>7
  <2> QED
    BY <2>7, <2>8, <2>9 DEF PlanInv, FailsOnlyAfterAll
<1>3. CASE UNCHANGED vars
  BY <1>3 DEF PlanInv, FailsOnlyAfterAll, vars
<1> QED
  BY <1>1, <1>2, <1>3 DEF Next, SetBackend, AddBackend, DelBackend

LEMMA PlanInit == Init => PlanInv
<1> SUFFICES ASSUME Init PROVE PlanInv
  OBVIOUS
<1>1. Cardinality(Node) \in Nat
  BY NodeAssumption, FS_CardinalityType
<1> QED
  BY <1>1, LimitAssumption DEF Init, PlanInv, FailsOnlyAfterAll

THEOREM PlanCorrect == Spec => []PlanInv
BY SetCorrect, PlanInit, PlanStep, PTL DEF Spec

\* get() gives up only after it has tried every entry of its plan, wherever the
\* last one stopped, for any length of the plan and any limit of its uses (280).
THEOREM TriesAll == Spec => []FailsOnlyAfterAll
<1>1. PlanInv => FailsOnlyAfterAll
  BY DEF PlanInv
<1> QED
  BY <1>1, PlanCorrect, PTL
-------------------------------------------------------------------------------
(* The pointers of a plan *)

\* A plan whose service has lost no node since points to nodes of the service,
\* to each at most once; that are all of them if it is as long as they are many.
LostInv ==
  /\ \A id \in Service \ lost : /\ ToSet(sep_select_vec[id]) \subseteq sep_set[id]
                              /\ IsInjective(sep_select_vec[id])
  /\ lost \subseteq Service
  /\ TriesBackendsUnlessLost

LEMMA Complete ==
  ASSUME NEW S \in SUBSET Node, NEW plan \in Seq(Node), IsInjective(plan),
         ToSet(plan) \subseteq S, Len(plan) = Cardinality(S)
  PROVE  ToSet(plan) = S
<1> DEFINE n == Len(plan)
<1>1. IsFiniteSet(S)
  BY NodeAssumption, FS_Subset
<1>2. n \in Nat /\ DOMAIN plan = 1..n
  OBVIOUS
<1>3. IsFiniteSet(1..n) /\ Cardinality(1..n) = n
  <2> HIDE DEF n
  <2> QED
    BY <1>2, FS_Interval
<1>4. plan \in Bijection(1..n, ToSet(plan))
  <2>1. ToSet(plan) = {plan[i] : i \in 1..n}
    BY <1>2 DEF ToSet
  <2>2. plan \in [1..n -> ToSet(plan)]
    BY <2>1
  <2> QED
    BY <1>2, <2>1, <2>2 DEF Bijection, Injection, Surjection, IsInjective
<1>5. Cardinality(ToSet(plan)) = n
  BY <1>3, <1>4, FS_Bijection DEF ExistsBijection
<1> QED
  BY <1>1, <1>5, FS_Subset

\* A plan that is drawn.
LEMMA Drawn ==
  ASSUME NEW S \in SUBSET Node, NEW plan \in SetToSeqs(S)
  PROVE  IsInjective(plan) /\ ToSet(plan) = S
<1>1. IsFiniteSet(S) /\ Cardinality(S) \in Nat
  BY NodeAssumption, FS_Subset, FS_CardinalityType
<1>2. /\ plan \in [1..Cardinality(S) -> S]
      /\ \A i, j \in 1..Cardinality(S) : i # j => plan[i] # plan[j]
  BY DEF SetToSeqs
<1>3. plan \in Seq(S) /\ Len(plan) = Cardinality(S) /\ DOMAIN plan = 1..Cardinality(S)
  BY <1>1, <1>2
<1>4. IsInjective(plan) /\ ToSet(plan) \subseteq S /\ plan \in Seq(Node)
  BY <1>2, <1>3 DEF IsInjective, ToSet
<1> QED
  BY <1>3, <1>4, Complete

LEMMA LostStep == SetInv /\ PlanInv /\ LostInv /\ [Next]_vars => LostInv'
<1> SUFFICES ASSUME SetInv, PlanInv, LostInv, [Next]_vars PROVE LostInv'
  OBVIOUS
<1>0. Types /\ Owned
  BY DEF SetInv
<1>1. ASSUME NEW id \in Service, NEW keep \in SUBSET sep_set[id], NEW K \in SUBSET Key,
             Rebuild(id, keep, K), UNCHANGED planVars, last' = NoGet
      PROVE  LostInv'
  <2>1. PICK node \in [K -> FreeNodes] : Renewed(id, keep, K, node)
    BY <1>0, <1>1, Rebuilt
  <2>2. sep_set' = [sep_set EXCEPT ![id] = keep \union Range(node)]
    BY <2>1 DEF Renewed
  <2>3. lost' = IF sep_set[id] \subseteq keep THEN lost ELSE lost \union {id}
    BY <1>1 DEF Rebuild
  <2>4. \A jd \in Service \ lost' : jd \notin lost /\ sep_set[jd] \subseteq sep_set'[jd]
    BY <1>0, <2>2, <2>3 DEF Types
  <2> QED
    BY <1>1, <2>3, <2>4 DEF LostInv, TriesBackendsUnlessLost, planVars
<1>2. ASSUME NEW id \in Service, Get(id) PROVE LostInv'
  <2> DEFINE Count == IF PlanWorn(id) THEN 0 ELSE sep_select_vec_count[id]
             Tried(plan, tries) ==
               {plan[Slot(Count, i, Len(plan))] : i \in 0..(tries - 1)}
  <2>1. PICK plan \in IF PlanWorn(id) THEN SetToSeqs(sep_set[id]) ELSE {sep_select_vec[id]} :
          \E tries \in 0..Len(plan), ok \in BOOLEAN :
             /\ ~ok => tries = Len(plan)
             /\ sep_select_vec' = [sep_select_vec EXCEPT ![id] = plan]
             /\ last' = [id |-> id, ok |-> ok, tried |-> Tried(plan, tries)]
    BY <1>2 DEF Get
  <2>2. PICK tries \in 0..Len(plan), ok \in BOOLEAN :
             /\ ~ok => tries = Len(plan)
             /\ sep_select_vec' = [sep_select_vec EXCEPT ![id] = plan]
             /\ last' = [id |-> id, ok |-> ok, tried |-> Tried(plan, tries)]
    BY <2>1
  <2>3. /\ sep_set' = sep_set
        /\ lost' = IF PlanWorn(id) THEN lost \ {id} ELSE lost
    BY <1>2 DEF Get
  <2>4. plan \in Seq(Node) /\ Len(plan) \in Nat
    BY <2>1, Plans
  <2>5. id \notin lost' => IsInjective(plan) /\ ToSet(plan) = sep_set[id]
    <3>1. sep_set[id] \in SUBSET Node
      BY <1>0 DEF Types
    <3>2. CASE PlanWorn(id)
      BY <2>1, <3>1, <3>2, Drawn
    <3>3. CASE ~PlanWorn(id) /\ id \notin lost
      <4>1. plan = sep_select_vec[id] /\ Len(plan) = Cardinality(sep_set[id])
        BY <2>1, <3>3 DEF PlanWorn
      <4>2. IsInjective(plan) /\ ToSet(plan) \subseteq sep_set[id]
        BY <3>3, <4>1 DEF LostInv
      <4> QED
        BY <2>4, <3>1, <4>1, <4>2, Complete
    <3> QED
      BY <2>3, <3>2, <3>3
  <2>6. Count \in Nat
    BY DEF PlanInv
  <2> HIDE DEF Count
  <2>7. Tried(plan, tries) \subseteq ToSet(plan)
    <3>1. \A i \in 0..(tries - 1) : Slot(Count, i, Len(plan)) \in 1..Len(plan)
      BY <2>4, <2>6 DEF Slot
    <3>2. \A j \in 1..Len(plan) : plan[j] \in ToSet(plan)
      BY <2>4 DEF ToSet
    <3> QED
      BY <3>1, <3>2
  <2>8. Tried(plan, Len(plan)) = ToSet(plan)
    BY <2>4, <2>6, AllTried
  <2> HIDE DEF Tried
  <2>9. ASSUME NEW jd \in Service \ lost'
        PROVE  ToSet(sep_select_vec'[jd]) \subseteq sep_set'[jd] /\ IsInjective(sep_select_vec'[jd])
    <3>1. CASE jd = id
      <4>1. sep_select_vec'[jd] = plan
        BY <2>2, <3>1 DEF PlanInv
      <4> QED
        BY <2>3, <2>5, <2>9, <3>1, <4>1
    <3>2. CASE jd # id
      <4>1. sep_select_vec'[jd] = sep_select_vec[jd] /\ jd \notin lost
        BY <2>2, <2>3, <2>9, <3>2 DEF PlanInv
      <4> QED
        BY <2>3, <4>1 DEF LostInv
    <3> QED
      BY <3>1, <3>2
  <2>10. TriesBackendsUnlessLost'
    BY <2>2, <2>3, <2>5, <2>7, <2>8 DEF TriesBackendsUnlessLost
  <2>11. \A jd \in Service \ lost' : /\ ToSet(sep_select_vec[jd])' \subseteq sep_set'[jd]
                                    /\ IsInjective(sep_select_vec[jd])'
    BY <2>9 DEF ToSet, IsInjective
  <2>12. lost' \subseteq Service
    BY <2>3 DEF LostInv
  <2> QED
    BY <2>10, <2>11, <2>12 DEF LostInv
<1>3. ASSUME NEW id \in Service, NEW B \in SUBSET Key,
             SetBackend(id, B) \/ AddBackend(id, B) \/ DelBackend(id, B)
      PROVE  LostInv'
  <2>1. UNCHANGED planVars /\ last' = NoGet
    BY <1>3 DEF SetBackend, AddBackend, DelBackend
  <2>2. CASE SetBackend(id, B)
    <3>1. Rebuild(id, {}, B) /\ {} \in SUBSET sep_set[id]
      BY <2>2 DEF SetBackend
    <3> QED
      BY <1>1, <2>1, <3>1
  <2>3. CASE AddBackend(id, B)
    <3>1. Rebuild(id, sep_set[id], B \ Keys(id)) /\ B \ Keys(id) \in SUBSET Key
      BY <2>3 DEF AddBackend, FreshKeys
    <3> QED
      BY <1>1, <2>1, <3>1
  <2>4. CASE DelBackend(id, B)
    <3> DEFINE kept == {n \in sep_set[id] : content[n] \notin B}
    <3>1. Rebuild(id, kept, {}) /\ kept \in SUBSET sep_set[id] /\ {} \in SUBSET Key
      BY <2>4 DEF DelBackend
    <3> HIDE DEF kept
    <3> QED
      BY <1>1, <2>1, <3>1
  <2> QED
    BY <1>3, <2>2, <2>3, <2>4
<1>4. CASE UNCHANGED vars
  BY <1>4 DEF LostInv, TriesBackendsUnlessLost, vars
<1> QED
  BY <1>2, <1>3, <1>4 DEF Next

LEMMA LostInit == Init => LostInv
BY DEF Init, LostInv, TriesBackendsUnlessLost, ToSet, IsInjective

THEOREM LostCorrect == Spec => []LostInv
BY SetCorrect, PlanCorrect, LostInit, LostStep, PTL DEF Spec

\* A get() whose service has lost no backend since its plan was drawn follows no
\* pointer to memory that is free or another service's, and gives up only after all
\* backends of the service (223, 280), for any services, nodes and histories.
THEOREM PointersOfService == Spec => []TriesBackendsUnlessLost
<1>1. LostInv => TriesBackendsUnlessLost
  BY DEF LostInv
<1> QED
  BY <1>1, LostCorrect, PTL

\* Every variable has its type; so get() never looks beyond its plan.
THEOREM Typed == Spec => []TypeOK
<1>1. SetInv /\ PlanInv /\ LostInv => TypeOK
  <2>1. ASSUME PlanInv, NEW id \in Service PROVE ToSet(sep_select_vec[id]) \subseteq Node
    BY <2>1 DEF PlanInv, ToSet
  <2> QED
    BY <2>1 DEF SetInv, Types, PlanInv, LostInv, TypeOK
<1> QED
  BY <1>1, SetCorrect, PlanCorrect, LostCorrect, PTL
=============================================================================
