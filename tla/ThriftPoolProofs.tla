--------------------------- MODULE ThriftPoolProofs ---------------------------
(***************************************************************************)
(* Theorems about ThriftPool for any number of servers, pools, connections *)
(* and callers.                                                            *)
(***************************************************************************)
EXTENDS ThriftPool, FiniteSetTheorems, SequenceTheorems, TLAPS

Distinct(ps) == \A i, j \in DOMAIN ps : ps[i] = ps[j] => i = j

\* TypeOK but for what it says of the mutex.
Types ==
  /\ phase \in {"running", "clearing", "stopping", "destroyed"}
  /\ server \in [Pool -> Server \union {NoServer}]
  /\ status \in [Pool -> {"kConnected", "kClosed"}]
  /\ allocated \in [Pool -> SUBSET Conn]
  /\ pools_ \in Seq(Pool) /\ remove_queue_ \in Seq(Pool)
  /\ index_ \in Nat
  /\ localhost_pool_ \in Pool \union {NoPool}
  /\ conn_pool_map_ \in [Conn -> Pool \union {NoPool}]
  /\ remove_thread_stop_flag_ \in BOOLEAN
  /\ remover \in {"running", "ended"}
  /\ pc \in [Caller -> PC]
  /\ pool \in [Caller -> Pool \union {NoPool}]
  /\ tried \in [Caller -> Seq(Pool)]
  /\ held \in [Caller -> Conn \union {NoConn}]

\* One caller is inside get() or put(), and none once the destructor has begun.
Mutex ==
  /\ \A c \in Caller : pc[c] # "idle" <=> mutex_ = c
  /\ phase # "running" => mutex_ = NoCaller

\* What exists is in one list, once, and the pools in use are of different servers.
Lists ==
  /\ Distinct(pools_) /\ Distinct(remove_queue_)
  /\ Listed \intersect Queued = {}
  /\ \A p \in Pool : Exists(p) <=> p \in Listed \union Queued
  /\ \A p, q \in Listed : server[p] = server[q] => p = q

\* The local pool is in use until the destructor begins, which leaves it dangling.
LocalPool ==
  phase = "running" /\ localhost_pool_ # NoPool =>
    localhost_pool_ \in Listed /\ server[localhost_pool_] \in LocalServer

\* What get() has chosen is in use.
Chosen ==
  \A c \in Caller : pc[c] \in {"found", "exhausted", "connect"} => pool[c] \in Listed

\* A connection has one holder, and its pool lives until it is put back.
Held ==
  /\ \A c \in Caller : held[c] # NoConn =>
       /\ conn_pool_map_[held[c]] \in Pool
       /\ pc[c] # "put" => /\ Exists(conn_pool_map_[held[c]])
                           /\ held[c] \in allocated[conn_pool_map_[held[c]]]
  /\ \A c, d \in Caller : held[c] # NoConn /\ held[c] = held[d] => c = d

\* Where get() looked in its m-th round of k, when index_ is i.
Place(m, k, i, n) == IF (i + m) - k >= 1 THEN (i + m) - k ELSE ((i + m) - k) + n

\* get() has looked at the pools before index_, going round.
Rounds(c) ==
  LET k == Len(tried[c])
      n == Len(pools_)
  IN /\ pc[c] = "select" => k < n
     /\ pc[c] = "exhausted" => k = n
     /\ pc[c] \in {"select", "found", "exhausted"} => k <= n
     /\ pc[c] \in {"select", "found", "exhausted"} /\ k >= 1 =>
          /\ index_ \in 1..n
          /\ \A m \in 1..k : tried[c][m] = pools_[Place(m, k, index_, n)]
     /\ pc[c] \in {"idle", "put"} => tried[c] = << >>

Looked == \A c \in Caller : Rounds(c)

PoolInv == Types /\ Mutex /\ Lists /\ LocalPool /\ Chosen /\ Held /\ Looked

-------------------------------------------------------------------------------
(* Lists of pools *)

Rank(I, i) == Cardinality({j \in I : j < i})

\* The elements of a set of natural numbers have different ranks, which are all
\* the numbers below its size.
LEMMA Ranks ==
  ASSUME NEW I, I \subseteq Nat, IsFiniteSet(I)
  PROVE  /\ \A i \in I : Rank(I, i) \in 0..(Cardinality(I) - 1)
         /\ \A i, j \in I : Rank(I, i) = Rank(I, j) => i = j
         /\ \A k \in 0..(Cardinality(I) - 1) : \E i \in I : Rank(I, i) = k
<1> DEFINE rank == [i \in I |-> Rank(I, i)]
           Below(i) == {j \in I : j < i}
           n == Cardinality(I)
<1>1. n \in Nat /\ I \subseteq Nat
  BY FS_CardinalityType
<1>2. ASSUME NEW i \in I
      PROVE  IsFiniteSet(Below(i)) /\ rank[i] = Cardinality(Below(i)) /\ rank[i] \in Nat
  <2>1. Below(i) \in SUBSET I
    OBVIOUS
  <2>2. IsFiniteSet(Below(i))
    BY <2>1, FS_Subset
  <2>3. Cardinality(Below(i)) \in Nat
    BY <2>2, FS_CardinalityType
  <2> QED
    BY <2>2, <2>3 DEF Rank
<1>3. ASSUME NEW i \in I PROVE rank[i] < n
  <2>1. Below(i) \in SUBSET I /\ i \notin Below(i)
    BY <1>1
  <2>2. Cardinality(Below(i)) <= n /\ (n = Cardinality(Below(i)) => I = Below(i))
    BY <2>1, FS_Subset
  <2> QED
    BY <1>1, <1>2, <2>1, <2>2
<1>4. ASSUME NEW i \in I, NEW j \in I, i < j PROVE rank[i] < rank[j]
  <2>1. Below(i) \in SUBSET Below(j) /\ i \in Below(j) /\ i \notin Below(i)
    <3>1. i \in Nat /\ j \in Nat
      BY <1>1
    <3>2. ASSUME NEW k \in Below(i) PROVE k \in Below(j)
      <4>1. k \in Nat /\ k < i
        BY <1>1
      <4> QED
        BY <1>4, <3>1, <4>1
    <3>3. Below(i) \in SUBSET Below(j)
      <4> HIDE DEF Below
      <4> QED
        BY <3>2
    <3>4. i \in Below(j) /\ ~(i < i)
      BY <1>4, <3>1
    <3> QED
      BY <3>3, <3>4
  <2>2. /\ Cardinality(Below(i)) <= Cardinality(Below(j))
        /\ Cardinality(Below(j)) = Cardinality(Below(i)) => Below(j) = Below(i)
    BY <1>2, <2>1, FS_Subset
  <2> QED
    BY <1>2, <2>1, <2>2
<1>8. rank = [i \in I |-> Rank(I, i)] /\ \A i \in I : rank[i] = Rank(I, i)
  OBVIOUS
<1> HIDE DEF rank, Below
<1>5. rank \in [I -> 0..(n - 1)]
  <2>1. \A i \in I : rank[i] \in 0..(n - 1)
    BY <1>1, <1>2, <1>3
  <2> QED
    BY <1>8, <2>1
<1>6. \A i, j \in I : rank[i] = rank[j] => i = j
  <2> SUFFICES ASSUME NEW i \in I, NEW j \in I, rank[i] = rank[j] PROVE i = j
    OBVIOUS
  <2>1. ~(i < j) /\ ~(j < i)
    BY <1>2, <1>4
  <2> QED
    BY <1>1, <2>1
<1>7. \A k \in 0..(n - 1) : \E i \in I : rank[i] = k
  <2>1. rank \in Injection(I, 0..(n - 1))
    BY <1>5, <1>6 DEF Injection, IsInjective
  <2>2. IsFiniteSet(0..(n - 1)) /\ Cardinality(0..(n - 1)) = n
    <3>1. /\ IsFiniteSet(0..(n - 1))
          /\ Cardinality(0..(n - 1)) = IF 0 > n - 1 THEN 0 ELSE (n - 1) - 0 + 1
      BY <1>1, FS_Interval
    <3> HIDE DEF n
    <3> QED
      BY <1>1, <3>1
  <2>3. rank \in Surjection(I, 0..(n - 1))
    BY <2>1, <2>2, FS_Injection
  <2> QED
    BY <2>3 DEF Surjection
<1> QED
  BY <1>5, <1>6, <1>7, <1>8

\* The pools of a list without repetitions that are in a set.
LEMMA AmongIs ==
  ASSUME NEW ps \in Seq(Pool), NEW S
  PROVE  /\ Among(ps, S) \in Seq(Pool)
         /\ ToSet(Among(ps, S)) = ToSet(ps) \intersect S
         /\ Distinct(ps) => Distinct(Among(ps, S))
<1> DEFINE I == {i \in DOMAIN ps : ps[i] \in S}
           rank == [i \in I |-> Rank(I, i)]
           n == Cardinality(I)
           place == [k \in 1..n |-> CHOOSE i \in I : Rank(I, i) = k - 1]
           q == Among(ps, S)
<1>1. DOMAIN ps = 1..Len(ps) /\ Len(ps) \in Nat /\ \A i \in 1..Len(ps) : ps[i] \in Pool
  BY LenProperties, ElementOfSeq
<1>2. IsFiniteSet(I) /\ I \subseteq Nat /\ n \in Nat
  <2>1. I \in SUBSET (1..Len(ps))
    BY <1>1
  <2>2. IsFiniteSet(1..Len(ps))
    BY <1>1, FS_Interval
  <2>3. IsFiniteSet(I)
    BY <2>1, <2>2, FS_Subset
  <2> QED
    BY <1>1, <2>1, <2>3, FS_CardinalityType
<1> HIDE DEF I
<1>3. /\ rank \in [I -> 0..(n - 1)]
      /\ \A i, j \in I : rank[i] = rank[j] => i = j
      /\ \A k \in 0..(n - 1) : \E i \in I : rank[i] = k
  <2>1. /\ \A i \in I : Rank(I, i) \in 0..(n - 1)
        /\ \A i, j \in I : Rank(I, i) = Rank(I, j) => i = j
        /\ \A k \in 0..(n - 1) : \E i \in I : Rank(I, i) = k
    BY <1>2, Ranks
  <2> QED
    BY <2>1
<1>4. ASSUME NEW k \in 1..n PROVE place[k] \in I /\ rank[place[k]] = k - 1
  <2>1. k - 1 \in 0..(n - 1)
    BY <1>2
  <2>2. \E i \in I : Rank(I, i) = k - 1
    BY <1>3, <2>1
  <2>3. place[k] \in I /\ Rank(I, place[k]) = k - 1
    BY <2>2
  <2> QED
    BY <2>3
<1>5. ASSUME NEW i \in I PROVE \E k \in 1..n : place[k] = i
  <2> DEFINE r == rank[i]
  <2>1. r \in 0..(n - 1)
    BY <1>3
  <2> HIDE DEF r
  <2>2. r + 1 \in 1..n /\ (r + 1) - 1 = r
    BY <1>2, <2>1
  <2>3. place[r + 1] \in I /\ rank[place[r + 1]] = rank[i]
    BY <1>4, <2>2 DEF r
  <2> QED
    BY <1>3, <2>2, <2>3
<1>6. q = [k \in 1..n |-> ps[place[k]]]
  BY DEF Among, I, Rank
<1>7. \A k, l \in 1..n : place[k] = place[l] => k = l
  <2> SUFFICES ASSUME NEW k \in 1..n, NEW l \in 1..n, place[k] = place[l] PROVE k = l
    OBVIOUS
  <2>1. k - 1 = l - 1
    BY <1>4
  <2> QED
    BY <2>1
<1> HIDE DEF rank, place, n, q
<1>8. q \in Seq(Pool)
  <2>1. \A k \in 1..n : ps[place[k]] \in Pool
    BY <1>1, <1>4 DEF I
  <2> QED
    BY <1>2, <1>6, <2>1, IsASeq
<1>9. ToSet(q) = ToSet(ps) \intersect S
  <2>1. ToSet(q) = {ps[place[k]] : k \in 1..n}
    BY <1>6 DEF ToSet
  <2>2. ToSet(ps) \intersect S = {ps[i] : i \in I}
    BY DEF ToSet, I
  <2> QED
    BY <1>4, <1>5, <2>1, <2>2
<1>10. ASSUME Distinct(ps) PROVE Distinct(q)
  <2> SUFFICES ASSUME NEW k \in 1..n, NEW l \in 1..n, ps[place[k]] = ps[place[l]] PROVE k = l
    BY <1>6 DEF Distinct
  <2>1. place[k] = place[l]
    BY <1>4, <1>10 DEF Distinct, I
  <2> QED
    BY <1>7, <2>1
<1> QED
  BY <1>8, <1>9, <1>10 DEF q

LEMMA ConcatIs ==
  ASSUME NEW ps \in Seq(Pool), NEW qs \in Seq(Pool)
  PROVE  /\ ps \o qs \in Seq(Pool)
         /\ ToSet(ps \o qs) = ToSet(ps) \union ToSet(qs)
         /\ Distinct(ps) /\ Distinct(qs) /\ ToSet(ps) \intersect ToSet(qs) = {}
              => Distinct(ps \o qs)
<1> DEFINE l == Len(ps)
           m == Len(qs)
           r == ps \o qs
<1>1. /\ l \in Nat /\ DOMAIN ps = 1..l
      /\ m \in Nat /\ DOMAIN qs = 1..m
  BY LenProperties
<1>2. /\ r \in Seq(Pool) /\ DOMAIN r = 1..(l + m)
      /\ \A i \in 1..(l + m) : r[i] = IF i <= l THEN ps[i] ELSE qs[i - l]
  BY ConcatProperties, LenProperties
<1> HIDE DEF l, m, r
<1>3. \A i \in 1..l : i \in 1..(l + m) /\ r[i] = ps[i]
  BY <1>1, <1>2
<1>4. \A i \in 1..m : l + i \in 1..(l + m) /\ r[l + i] = qs[i]
  <2> TAKE i \in 1..m
  <2>1. l + i \in 1..(l + m) /\ ~(l + i <= l) /\ (l + i) - l = i
    BY <1>1
  <2> QED
    BY <1>2, <2>1
<1>5. \A i \in 1..(l + m) : (i \in 1..l /\ r[i] = ps[i]) \/ (i - l \in 1..m /\ r[i] = qs[i - l])
  BY <1>1, <1>2
<1>6. ToSet(r) = ToSet(ps) \union ToSet(qs)
  <2>1. ToSet(r) \subseteq ToSet(ps) \union ToSet(qs)
    BY <1>1, <1>2, <1>5 DEF ToSet
  <2>2. ToSet(ps) \subseteq ToSet(r)
    BY <1>1, <1>2, <1>3 DEF ToSet
  <2>3. ToSet(qs) \subseteq ToSet(r)
    BY <1>1, <1>2, <1>4 DEF ToSet
  <2> QED
    BY <2>1, <2>2, <2>3
<1>7. ASSUME Distinct(ps), Distinct(qs), ToSet(ps) \intersect ToSet(qs) = {}
      PROVE  Distinct(r)
  <2> SUFFICES ASSUME NEW i \in 1..(l + m), NEW j \in 1..(l + m), r[i] = r[j] PROVE i = j
    BY <1>2 DEF Distinct
  <2>1. \A x \in 1..l, y \in 1..m : ps[x] # qs[y]
    BY <1>1, <1>7 DEF ToSet
  <2>2. CASE i \in 1..l /\ r[i] = ps[i]
    BY <1>1, <1>5, <1>7, <2>1, <2>2 DEF Distinct
  <2>3. CASE i - l \in 1..m /\ r[i] = qs[i - l]
    <3>1. j - l \in 1..m /\ r[j] = qs[j - l]
      BY <1>5, <2>1, <2>3
    <3>2. i - l = j - l
      BY <1>1, <1>7, <2>3, <3>1 DEF Distinct
    <3> QED
      BY <1>1, <3>2
  <2> QED
    BY <1>5, <2>2, <2>3
<1> QED
  BY <1>2, <1>6, <1>7 DEF r

LEMMA LastIs ==
  ASSUME NEW ps \in Seq(Pool), ps # << >>
  PROVE  Last(ps) \in ToSet(ps)
<1>1. Len(ps) \in Nat \ {0} /\ DOMAIN ps = 1..Len(ps)
  BY EmptySeq, LenProperties
<1>2. Len(ps) \in DOMAIN ps
  BY <1>1
<1> QED
  BY <1>2 DEF Last, ToSet

LEMMA SingleIs ==
  ASSUME NEW p \in Pool
  PROVE  <<p>> \in Seq(Pool) /\ ToSet(<<p>>) = {p} /\ Distinct(<<p>>)
BY DEF ToSet, Distinct

-------------------------------------------------------------------------------
(* One step at a time *)

LEMMA Initially ==
  ASSUME Init
  PROVE  PoolInv
<1>1. /\ << >> \in Seq(Pool) /\ DOMAIN << >> = {} /\ Len(<< >>) = 0
  BY EmptySeq
<1>2. Types
  BY <1>1 DEF Init, Types, PC
<1>3. Mutex
  BY NoneAssumption DEF Init, Mutex
<1>4. Listed = {} /\ Queued = {}
  BY DEF Init, Listed, Queued, ToSet
<1>5. Lists
  BY <1>1, <1>4 DEF Init, Lists, Distinct, Exists
<1>6. LocalPool /\ Chosen /\ Held
  BY DEF Init, LocalPool, Chosen, Held
<1>7. Looked
  BY DEF Init, Looked, Rounds
<1> QED
  BY <1>2, <1>3, <1>5, <1>6, <1>7 DEF PoolInv

\* What only reads the lists and the pools leaves what is said of them.
LEMMA ListsKept ==
  ASSUME Lists, UNCHANGED <<server, pools_, remove_queue_>>
  PROVE  Lists' /\ Listed' = Listed /\ Queued' = Queued
<1>1. Listed' = Listed /\ Queued' = Queued
  BY DEF Listed, Queued
<1> QED
  BY <1>1 DEF Lists, Exists

\* An idle caller's step that leaves its call and everybody's connections alone.
LEMMA CallsKept ==
  ASSUME Looked, Mutex, mutex_ = NoCaller, UNCHANGED <<pc, tried>>
  PROVE  Looked'
<1> SUFFICES ASSUME NEW c \in Caller PROVE Rounds(c)'
  BY DEF Looked
<1>1. pc[c] = "idle" /\ pc'[c] = "idle" /\ tried'[c] = tried[c] /\ Rounds(c)
  BY NoneAssumption DEF Looked, Mutex
<1> QED
  BY <1>1 DEF Rounds

LEMMA GetStep ==
  ASSUME PoolInv, NEW c \in Caller, Get(c)
  PROVE  PoolInv'
<1> USE DEF PoolInv
<1>1. /\ phase = "running" /\ pc[c] = "idle" /\ mutex_ = NoCaller
      /\ mutex_' = c
      /\ UNCHANGED <<poolVars, listVars, removeVars, held, tried, index_, conn_pool_map_>>
      /\ \/ /\ localhost_pool_ # NoPool
            /\ pool' = [pool EXCEPT ![c] = localhost_pool_]
            /\ pc' = [pc EXCEPT ![c] = "connect"]
         \/ /\ pools_ # << >>
            /\ pool' = pool
            /\ pc' = [pc EXCEPT ![c] = "select"]
  BY DEF Get, Idle, Goto
<1>2. Types'
  BY <1>1 DEF Types, PC, poolVars, listVars, removeVars
<1>3. \A d \in Caller : pc[d] = "idle" /\ (d # c => pc'[d] = "idle" /\ pool'[d] = pool[d])
  BY <1>1, NoneAssumption DEF Mutex, Types
<1>4. Mutex'
  BY <1>1, <1>3 DEF Mutex, Types, removeVars
<1>5. Lists' /\ Listed' = Listed /\ Queued' = Queued
  BY <1>1, ListsKept DEF poolVars, listVars
<1>6. LocalPool'
  BY <1>1, <1>5 DEF LocalPool, poolVars, listVars, removeVars
<1>7. Chosen'
  <2> SUFFICES ASSUME NEW d \in Caller, pc'[d] \in {"found", "exhausted", "connect"}
               PROVE  pool'[d] \in Listed'
    BY DEF Chosen
  <2>1. d = c /\ pc'[c] # "select"
    BY <1>1, <1>3 DEF Types
  <2> QED
    BY <1>1, <1>5, <2>1 DEF Types, LocalPool
<1>8. Held'
  <2>1. \A d \in Caller : pc[d] # "put"
    BY <1>3
  <2> QED
    BY <1>1, <2>1 DEF Held, Exists, poolVars
<1>9. Looked'
  <2> SUFFICES ASSUME NEW d \in Caller PROVE Rounds(d)'
    BY DEF Looked
  <2>1. pc[d] = "idle" /\ tried[d] = << >> /\ tried'[d] = << >>
    BY <1>1, <1>3 DEF Looked, Rounds
  <2>2. Len(<< >>) = 0 /\ (pools_ # << >> => Len(pools_) \in Nat \ {0}) /\ Len(pools_) \in Nat
    BY EmptySeq, LenProperties DEF Types
  <2>3. pools_' = pools_
    BY <1>1 DEF listVars
  <2>4. CASE d # c
    BY <1>3, <2>1, <2>4 DEF Rounds
  <2>5. CASE d = c
    <3>1. pc'[c] = "connect" \/ (pc'[c] = "select" /\ pools_ # << >>)
      BY <1>1 DEF Types
    <3> QED
      BY <2>1, <2>2, <2>3, <2>5, <3>1 DEF Rounds
  <2> QED
    BY <2>4, <2>5
<1> QED
  BY <1>2, <1>4, <1>5, <1>6, <1>7, <1>8, <1>9

LEMMA CheckStep ==
  ASSUME PoolInv, NEW c \in Caller, Check(c)
  PROVE  PoolInv'
<1> USE DEF PoolInv
<1>1. /\ pc[c] \in {"found", "exhausted"} /\ mutex_ = c
      /\ UNCHANGED <<poolVars, listVars, removeVars, held, index_, conn_pool_map_>>
      /\ \/ /\ pc' = [pc EXCEPT ![c] = "connect"]
            /\ UNCHANGED <<mutex_, pool, tried>>
         \/ /\ pc' = [pc EXCEPT ![c] = "idle"]
            /\ mutex_' = NoCaller
            /\ pool' = [pool EXCEPT ![c] = NoPool]
            /\ tried' = [tried EXCEPT ![c] = << >>]
  BY DEF Check, Goto, Unlock, Forget, Mutex
<1>2. Types'
  <2>1. pc' \in [Caller -> PC]
    BY <1>1 DEF Types, PC
  <2>2. pool' \in [Caller -> Pool \union {NoPool}]
    BY <1>1 DEF Types
  <2>3. tried' \in [Caller -> Seq(Pool)]
    <3>1. << >> \in Seq(Pool)
      BY EmptySeq
    <3> QED
      BY <1>1, <3>1 DEF Types
  <2> QED
    BY <1>1, <2>1, <2>2, <2>3 DEF Types, poolVars, listVars, removeVars
<1>3. \A d \in Caller : d # c => pc[d] = "idle" /\ pc'[d] = "idle" /\ tried'[d] = tried[d]
  BY <1>1 DEF Mutex, Types
<1>4. pc'[c] \in {"connect", "idle"} /\ (pc'[c] = "idle" => mutex_' = NoCaller /\ tried'[c] = << >>)
      /\ (pc'[c] = "connect" => mutex_' = c /\ pool' = pool)
  BY <1>1 DEF Types
<1>5. Mutex'
  BY <1>1, <1>3, <1>4, NoneAssumption DEF Mutex, Types, removeVars
<1>6. Lists' /\ Listed' = Listed /\ Queued' = Queued
  BY <1>1, ListsKept DEF poolVars, listVars
<1>7. LocalPool'
  BY <1>1, <1>6 DEF LocalPool, poolVars, listVars, removeVars
<1>8. Chosen'
  BY <1>1, <1>3, <1>4, <1>6 DEF Chosen
<1>9. Held'
  <2>1. \A d \in Caller : pc[d] # "put" /\ pc'[d] # "put"
    BY <1>1, <1>3, <1>4
  <2> QED
    BY <1>1, <2>1 DEF Held, Exists, poolVars
<1>10. Looked'
  <2> SUFFICES ASSUME NEW d \in Caller PROVE Rounds(d)'
    BY DEF Looked
  <2>1. Rounds(d)
    BY DEF Looked
  <2> QED
    BY <1>3, <1>4, <2>1 DEF Rounds
<1> QED
  BY <1>2, <1>5, <1>6, <1>7, <1>8, <1>9, <1>10

LEMMA ConnectStep ==
  ASSUME PoolInv, NEW c \in Caller, Connect(c)
  PROVE  PoolInv' /\ \A p \in Queued \intersect Queued' : allocated'[p] \subseteq allocated[p]
<1> USE DEF PoolInv
<1> DEFINE p == pool[c]
<1>1. /\ pc[c] = "connect" /\ mutex_ = c /\ p \in Listed /\ p \in Pool
      /\ pc' = [pc EXCEPT ![c] = "idle"]
      /\ mutex_' = NoCaller
      /\ pool' = [pool EXCEPT ![c] = NoPool]
      /\ tried' = [tried EXCEPT ![c] = << >>]
      /\ UNCHANGED <<server, status, listVars, removeVars, index_>>
  <2>1. p \in Listed
    BY DEF Connect, Chosen
  <2>2. p \in Pool
    BY <2>1, LenProperties, ElementOfSeq DEF Listed, ToSet, Types
  <2> QED
    BY <2>1, <2>2 DEF Connect, Goto, Unlock, Forget, Mutex
<1>2. \/ \E x \in Conn :
          /\ conn_pool_map_[x] = NoPool
          /\ allocated' = [allocated EXCEPT ![p] = @ \union {x}]
          /\ conn_pool_map_' = [conn_pool_map_ EXCEPT ![x] = p]
          /\ held' = [held EXCEPT ![c] = x]
      \/ UNCHANGED <<allocated, conn_pool_map_, held>>
  BY DEF Connect
<1> HIDE DEF p
<1>3. \A d \in Caller : d # c => pc[d] = "idle" /\ pc'[d] = "idle" /\ tried'[d] = tried[d]
  BY <1>1 DEF Mutex, Types
<1>4. pc'[c] = "idle" /\ tried'[c] = << >>
  BY <1>1 DEF Types
<1>5. Types'
  <2>1. /\ allocated' \in [Pool -> SUBSET Conn]
        /\ conn_pool_map_' \in [Conn -> Pool \union {NoPool}]
        /\ held' \in [Caller -> Conn \union {NoConn}]
    <3>1. CASE UNCHANGED <<allocated, conn_pool_map_, held>>
      BY <3>1 DEF Types
    <3>2. ASSUME NEW x \in Conn,
                 allocated' = [allocated EXCEPT ![p] = @ \union {x}],
                 conn_pool_map_' = [conn_pool_map_ EXCEPT ![x] = p],
                 held' = [held EXCEPT ![c] = x]
          PROVE  /\ allocated' \in [Pool -> SUBSET Conn]
                 /\ conn_pool_map_' \in [Conn -> Pool \union {NoPool}]
                 /\ held' \in [Caller -> Conn \union {NoConn}]
      <4>1. allocated[p] \union {x} \in SUBSET Conn
        BY <1>1 DEF Types
      <4>2. allocated' \in [Pool -> SUBSET Conn]
        BY <3>2, <4>1 DEF Types
      <4>3. conn_pool_map_' \in [Conn -> Pool \union {NoPool}]
        BY <1>1, <3>2 DEF Types
      <4>4. held' \in [Caller -> Conn \union {NoConn}]
        BY <3>2 DEF Types
      <4> QED
        BY <4>2, <4>3, <4>4
    <3> QED
      BY <1>2, <3>1, <3>2
  <2>2. pc' \in [Caller -> PC] /\ pool' \in [Caller -> Pool \union {NoPool}]
    BY <1>1 DEF Types, PC
  <2>3. tried' \in [Caller -> Seq(Pool)]
    BY <1>1, EmptySeq DEF Types
  <2> QED
    BY <1>1, <2>1, <2>2, <2>3 DEF Types, listVars, removeVars
<1>6. Mutex'
  BY <1>1, <1>3, <1>4, NoneAssumption DEF Mutex, Types, removeVars
<1>7. Lists' /\ Listed' = Listed /\ Queued' = Queued
  BY <1>1, ListsKept DEF listVars
<1>8. LocalPool'
  BY <1>1, <1>7 DEF LocalPool, listVars, removeVars
<1>9. Chosen'
  BY <1>3, <1>4 DEF Chosen
<1>10. Held'
  <2>1. \A d \in Caller : pc[d] # "put" /\ pc'[d] # "put"
    BY <1>1, <1>3, <1>4
  <2>2. CASE UNCHANGED <<allocated, conn_pool_map_, held>>
    BY <1>1, <2>1, <2>2 DEF Held, Exists
  <2>3. ASSUME NEW x \in Conn,
               conn_pool_map_[x] = NoPool,
               allocated' = [allocated EXCEPT ![p] = @ \union {x}],
               conn_pool_map_' = [conn_pool_map_ EXCEPT ![x] = p],
               held' = [held EXCEPT ![c] = x]
        PROVE  Held'
    <3>1. \A d \in Caller : held[d] # x
      BY <2>3, NoneAssumption DEF Held
    <3>2. held'[c] = x /\ \A d \in Caller : d # c => held'[d] = held[d]
      BY <2>3 DEF Types
    <3>3. conn_pool_map_'[x] = p /\ \A y \in Conn : y # x => conn_pool_map_'[y] = conn_pool_map_[y]
      BY <2>3 DEF Types
    <3>4. x \in allocated'[p] /\ \A q \in Pool : allocated[q] \subseteq allocated'[q]
      BY <1>1, <2>3 DEF Types
    <3>5. Exists(p) /\ \A q \in Pool : Exists(q) => Exists(q)'
      BY <1>1 DEF Lists, Exists
    <3>6. ASSUME NEW d \in Caller, held'[d] # NoConn
          PROVE  /\ conn_pool_map_'[held'[d]] \in Pool
                 /\ Exists(conn_pool_map_[held[d]])'
                 /\ held'[d] \in allocated'[conn_pool_map_'[held'[d]]]
      <4>1. CASE d = c
        BY <1>1, <3>2, <3>3, <3>4, <3>5, <4>1 DEF Exists
      <4>2. CASE d # c
        <5> DEFINE y == held[d]
        <5>1. y \in Conn /\ y # x /\ held'[d] = y
          BY <3>1, <3>2, <3>6, <4>2 DEF Types
        <5>2. /\ conn_pool_map_[y] \in Pool /\ Exists(conn_pool_map_[y])
              /\ y \in allocated[conn_pool_map_[y]]
          BY <2>1, <3>6, <5>1 DEF Held
        <5> HIDE DEF y
        <5> QED
          BY <1>1, <3>3, <3>4, <5>1, <5>2 DEF Exists
      <4> QED
        BY <4>1, <4>2
    <3>7. \A d, e \in Caller : held'[d] # NoConn /\ held'[d] = held'[e] => d = e
      BY <3>1, <3>2 DEF Held
    <3> QED
      BY <3>6, <3>7 DEF Held
  <2> QED
    BY <1>2, <2>2, <2>3
<1>11. Looked'
  <2> SUFFICES ASSUME NEW d \in Caller PROVE Rounds(d)'
    BY DEF Looked
  <2>1. Rounds(d)
    BY DEF Looked
  <2> QED
    BY <1>3, <1>4, <2>1 DEF Rounds
<1>12. \A q \in Queued \intersect Queued' : allocated'[q] \subseteq allocated[q]
  <2> SUFFICES ASSUME NEW q \in Queued PROVE allocated'[q] \subseteq allocated[q]
    OBVIOUS
  <2>1. q # p
    BY <1>1 DEF Lists
  <2>2. q \in Pool
    BY LenProperties, ElementOfSeq DEF Queued, ToSet, Types
  <2> QED
    BY <1>2, <2>1, <2>2 DEF Types
<1> QED
  BY <1>5, <1>6, <1>7, <1>8, <1>9, <1>10, <1>11, <1>12

LEMMA PutStep ==
  ASSUME PoolInv, NEW c \in Caller, Put(c)
  PROVE  PoolInv' /\ \A q \in Pool : allocated'[q] \subseteq allocated[q]
<1> USE DEF PoolInv
<1> DEFINE y == held[c]
           p == conn_pool_map_[y]
<1>1. /\ phase = "running" /\ pc[c] = "idle" /\ mutex_ = NoCaller
      /\ y # NoConn /\ y \in Conn /\ p \in Pool
      /\ pool' = [pool EXCEPT ![c] = p]
      /\ allocated' = [allocated EXCEPT ![p] = @ \ {y}]
      /\ mutex_' = c
      /\ pc' = [pc EXCEPT ![c] = "put"]
      /\ UNCHANGED <<server, status, listVars, removeVars, tried, held, index_, conn_pool_map_>>
  BY DEF Put, Idle, Goto, Held, Types
<1> HIDE DEF p
<1>2. \A d \in Caller : pc[d] = "idle" /\ (d # c => pc'[d] = "idle")
  BY <1>1, NoneAssumption DEF Mutex, Types
<1>3. pc'[c] = "put"
  BY <1>1 DEF Types
<1>4. Types'
  <2>1. pc' \in [Caller -> PC] /\ pool' \in [Caller -> Pool \union {NoPool}]
    BY <1>1 DEF Types, PC
  <2>2. allocated' \in [Pool -> SUBSET Conn]
    BY <1>1 DEF Types
  <2> QED
    BY <1>1, <2>1, <2>2 DEF Types, listVars, removeVars
<1>5. Mutex'
  BY <1>1, <1>2, <1>3 DEF Mutex, removeVars
<1>6. Lists' /\ Listed' = Listed /\ Queued' = Queued
  BY <1>1, ListsKept DEF listVars
<1>7. LocalPool'
  BY <1>1, <1>6 DEF LocalPool, listVars, removeVars
<1>8. Chosen'
  BY <1>2, <1>3 DEF Chosen
<1>9. Held'
  <2>1. \A q \in Pool, x \in Conn : x # y /\ x \in allocated[q] => x \in allocated'[q]
    BY <1>1 DEF Types
  <2>2. ASSUME NEW d \in Caller, held[d] # NoConn
        PROVE  /\ conn_pool_map_[held[d]] \in Pool
               /\ d # c => /\ Exists(conn_pool_map_[held[d]])
                           /\ held[d] \in allocated'[conn_pool_map_[held[d]]]
    <3>1. d # c => held[d] # y
      BY <1>1, <2>2 DEF Held
    <3>2. held[d] \in Conn
      BY <2>2 DEF Types
    <3>3. /\ conn_pool_map_[held[d]] \in Pool /\ Exists(conn_pool_map_[held[d]])
          /\ held[d] \in allocated[conn_pool_map_[held[d]]]
      BY <1>2, <2>2 DEF Held
    <3> QED
      BY <2>1, <3>1, <3>2, <3>3
  <2> QED
    BY <1>1, <1>3, <2>2 DEF Held, Exists
<1>10. Looked'
  <2> SUFFICES ASSUME NEW d \in Caller PROVE Rounds(d)'
    BY DEF Looked
  <2>1. Rounds(d)
    BY DEF Looked
  <2> QED
    BY <1>1, <1>2, <1>3, <2>1 DEF Rounds
<1>11. \A q \in Pool : allocated'[q] \subseteq allocated[q]
  BY <1>1 DEF Types
<1> QED
  BY <1>4, <1>5, <1>6, <1>7, <1>8, <1>9, <1>10, <1>11

LEMMA PutBackStep ==
  ASSUME PoolInv, NEW c \in Caller, PutBack(c)
  PROVE  PoolInv'
<1> USE DEF PoolInv
<1>1. /\ pc[c] = "put" /\ mutex_ = c
      /\ conn_pool_map_' = [conn_pool_map_ EXCEPT ![held[c]] = NoPool]
      /\ held' = [held EXCEPT ![c] = NoConn]
      /\ pool' = [pool EXCEPT ![c] = NoPool]
      /\ tried' = [tried EXCEPT ![c] = << >>]
      /\ mutex_' = NoCaller
      /\ pc' = [pc EXCEPT ![c] = "idle"]
      /\ UNCHANGED <<poolVars, listVars, removeVars, index_>>
  BY DEF PutBack, Goto, Unlock, Forget, Mutex
<1>2. \A d \in Caller : d # c => pc[d] = "idle" /\ pc'[d] = "idle" /\ tried'[d] = tried[d]
  BY <1>1 DEF Mutex, Types
<1>3. pc'[c] = "idle" /\ tried'[c] = << >>
  BY <1>1 DEF Types
<1>4. Types'
  <2>1. pc' \in [Caller -> PC] /\ pool' \in [Caller -> Pool \union {NoPool}]
    BY <1>1 DEF Types, PC
  <2>2. tried' \in [Caller -> Seq(Pool)]
    BY <1>1, EmptySeq DEF Types
  <2>3. conn_pool_map_' \in [Conn -> Pool \union {NoPool}]
    BY <1>1 DEF Types
  <2>4. held' \in [Caller -> Conn \union {NoConn}]
    BY <1>1 DEF Types
  <2> QED
    BY <1>1, <2>1, <2>2, <2>3, <2>4 DEF Types, poolVars, listVars, removeVars
<1>5. Mutex'
  BY <1>1, <1>2, <1>3, NoneAssumption DEF Mutex, Types, removeVars
<1>6. Lists' /\ Listed' = Listed /\ Queued' = Queued
  BY <1>1, ListsKept DEF poolVars, listVars
<1>7. LocalPool'
  BY <1>1, <1>6 DEF LocalPool, poolVars, listVars, removeVars
<1>8. Chosen'
  BY <1>2, <1>3 DEF Chosen
<1>9. Held'
  <2>1. held'[c] = NoConn /\ \A d \in Caller : d # c => held'[d] = held[d]
    BY <1>1 DEF Types
  <2>2. \A d \in Caller : d # c /\ held[d] # NoConn => held[d] # held[c]
    BY DEF Held
  <2>3. \A x \in Conn : x # held[c] => conn_pool_map_'[x] = conn_pool_map_[x]
    BY <1>1 DEF Types
  <2>4. ASSUME NEW d \in Caller, held'[d] # NoConn
        PROVE  /\ d # c /\ held[d] \in Conn /\ held'[d] = held[d]
               /\ conn_pool_map_'[held'[d]] = conn_pool_map_[held[d]]
               /\ conn_pool_map_[held[d]] \in Pool /\ Exists(conn_pool_map_[held[d]])
               /\ held[d] \in allocated[conn_pool_map_[held[d]]]
    <3>1. d # c /\ held[d] # NoConn /\ held[d] \in Conn /\ held'[d] = held[d] /\ pc[d] = "idle"
      BY <1>2, <2>1, <2>4 DEF Types
    <3> QED
      BY <2>2, <2>3, <3>1 DEF Held
  <2>5. \A d, e \in Caller : held'[d] # NoConn /\ held'[d] = held'[e] => d = e
    BY <2>1, <2>4 DEF Held
  <2> QED
    BY <1>1, <2>4, <2>5 DEF Held, Exists, poolVars
<1>10. Looked'
  <2> SUFFICES ASSUME NEW d \in Caller PROVE Rounds(d)'
    BY DEF Looked
  <2>1. Rounds(d)
    BY DEF Looked
  <2> QED
    BY <1>2, <1>3, <2>1 DEF Rounds
<1> QED
  BY <1>4, <1>5, <1>6, <1>7, <1>8, <1>9, <1>10

\* The pool that index_ leads to.
LEMMA IndexIs ==
  ASSUME NEW n \in Nat \ {0}, index_ \in Nat
  PROVE  Index(n) \in 0..(n - 1) /\ (index_ \in 1..n => Index(n) = IF index_ = n THEN 0 ELSE index_)
<1>1. Index(n) \in 0..(n - 1)
  BY DEF Index
<1>2. ASSUME index_ \in 1..n, index_ # n PROVE index_ % n = index_
  BY <1>2
<1>3. n % n = 0
  OBVIOUS
<1> QED
  BY <1>1, <1>2, <1>3 DEF Index

LEMMA SelectStep ==
  ASSUME PoolInv, NEW c \in Caller, Select(c)
  PROVE  PoolInv'
<1> USE DEF PoolInv
<1> DEFINE n == Len(pools_)
           k == Len(tried[c])
           i == Index(n)
           p == pools_[i + 1]
<1>1. /\ pc[c] = "select" /\ mutex_ = c
      /\ index_' = i + 1
      /\ pool' = [pool EXCEPT ![c] = p]
      /\ tried' = [tried EXCEPT ![c] = Append(@, p)]
      /\ pc' = [pc EXCEPT ![c] = IF status[p] = "kConnected" THEN "found"
                                 ELSE IF k + 1 = n THEN "exhausted" ELSE "select"]
      /\ UNCHANGED <<poolVars, listVars, removeVars, held, mutex_, conn_pool_map_>>
  BY DEF Select, Goto, Mutex
<1>2. n \in Nat \ {0} /\ k \in Nat /\ k < n /\ DOMAIN pools_ = 1..n
  <2>1. n \in Nat /\ k \in Nat /\ DOMAIN pools_ = 1..n
    BY LenProperties DEF Types
  <2>2. k < n
    BY <1>1 DEF Looked, Rounds
  <2> QED
    BY <2>1, <2>2
<1>3. i \in 0..(n - 1) /\ (index_ \in 1..n => i = IF index_ = n THEN 0 ELSE index_)
  <2> HIDE DEF n, i
  <2>1. index_ \in Nat
    BY DEF Types
  <2> QED
    BY <1>2, <2>1, IndexIs DEF i
<1> HIDE DEF i, k
<1>4. i + 1 \in 1..n /\ p \in Pool /\ p \in Listed
  <2>1. i + 1 \in 1..n
    BY <1>2, <1>3
  <2> QED
    BY <1>2, <2>1, ElementOfSeq DEF Listed, ToSet, Types
<1> HIDE DEF n, p
<1>5. \A d \in Caller : d # c => pc[d] = "idle" /\ pc'[d] = "idle" /\ tried'[d] = tried[d]
  BY <1>1 DEF Mutex, Types
<1>6. /\ pc'[c] \in {"found", "exhausted", "select"} /\ pool'[c] = p
      /\ (pc'[c] = "exhausted" => k + 1 = n) /\ (pc'[c] = "select" => k + 1 # n)
      /\ tried'[c] = Append(tried[c], p)
  BY <1>1 DEF Types
<1>7. tried[c] \in Seq(Pool) /\ tried'[c] \in Seq(Pool) /\ Len(tried'[c]) = k + 1
      /\ (\A m \in 1..k : tried'[c][m] = tried[c][m]) /\ tried'[c][k + 1] = p
  <2>1. tried[c] \in Seq(Pool)
    BY DEF Types
  <2> QED
    BY <1>4, <1>6, <2>1, AppendProperties DEF k
<1>8. Types'
  <2>1. pc' \in [Caller -> PC]
    BY <1>1 DEF Types, PC
  <2>2. pool' \in [Caller -> Pool \union {NoPool}]
    BY <1>1, <1>4 DEF Types
  <2>3. tried' \in [Caller -> Seq(Pool)]
    BY <1>1, <1>6, <1>7 DEF Types
  <2>4. index_' \in Nat
    BY <1>1, <1>2, <1>3
  <2> QED
    BY <1>1, <2>1, <2>2, <2>3, <2>4 DEF Types, poolVars, listVars, removeVars
<1>9. Mutex'
  BY <1>1, <1>5, <1>6 DEF Mutex, Types, removeVars
<1>10. Lists' /\ Listed' = Listed /\ Queued' = Queued
  BY <1>1, ListsKept DEF poolVars, listVars
<1>11. LocalPool'
  BY <1>1, <1>10 DEF LocalPool, poolVars, listVars, removeVars
<1>12. Chosen'
  BY <1>4, <1>5, <1>6, <1>10 DEF Chosen
<1>13. Held'
  <2>1. \A d \in Caller : pc[d] # "put" /\ pc'[d] # "put"
    BY <1>1, <1>5, <1>6
  <2> QED
    BY <1>1, <2>1 DEF Held, Exists, poolVars
<1>14. Looked'
  <2> SUFFICES ASSUME NEW d \in Caller PROVE Rounds(d)'
    BY DEF Looked
  <2>1. CASE d # c
    <3>1. Rounds(d)
      BY DEF Looked
    <3> QED
      BY <1>5, <2>1, <3>1 DEF Rounds
  <2>2. CASE d = c
    <3>1. Len(pools_') = n
      BY <1>1 DEF n, listVars
    <3>2. k + 1 <= n /\ (pc'[c] = "select" => k + 1 < n)
      BY <1>2, <1>6
    <3>3. index_' \in 1..n
      BY <1>1, <1>4
    <3>4. ASSUME NEW m \in 1..(k + 1)
          PROVE  tried'[c][m] = pools_'[Place(m, k + 1, index_', n)]
      <4>1. CASE m = k + 1
        <5>1. ((i + 1) + m) - (k + 1) = i + 1 /\ i + 1 >= 1
          BY <1>2, <1>3, <4>1
        <5>2. Place(m, k + 1, i + 1, n) = i + 1
          BY <5>1 DEF Place
        <5> QED
          BY <1>1, <1>7, <4>1, <5>2 DEF p, listVars
      <4>2. CASE m \in 1..k
        <5>1. /\ index_ \in 1..n
              /\ tried[c][m] = pools_[Place(m, k, index_, n)]
          <6>1. k >= 1
            BY <1>2, <4>2
          <6>2. Rounds(c)
            BY DEF Looked
          <6> QED
            BY <1>1, <4>2, <6>1, <6>2 DEF Rounds, n, k
        <5>2. i \in Nat /\ i = IF index_ = n THEN 0 ELSE index_
          BY <1>2, <1>3, <5>1
        <5>3. Place(m, k + 1, i + 1, n) = Place(m, k, index_, n)
          <6>1. m \in Nat /\ 1 <= m /\ m <= k
            BY <1>2, <4>2
          <6>2. CASE index_ = n
            <7>1. Place(m, k, index_, n) = (n + m) - k
              BY <1>2, <6>1, <6>2 DEF Place
            <7>2. i = 0 /\ ~(((i + 1) + m) - (k + 1) >= 1)
              BY <1>2, <5>2, <6>1, <6>2
            <7>3. Place(m, k + 1, i + 1, n) = (((i + 1) + m) - (k + 1)) + n
              BY <7>2 DEF Place
            <7> QED
              BY <1>2, <6>1, <7>1, <7>2, <7>3
          <6>3. CASE index_ # n
            <7>1. i = index_ /\ ((i + 1) + m) - (k + 1) = (i + m) - k
              BY <1>2, <5>2, <6>1, <6>3
            <7> QED
              BY <7>1 DEF Place
          <6> QED
            BY <6>2, <6>3
        <5> QED
          BY <1>1, <1>7, <4>2, <5>1, <5>3 DEF listVars
      <4> QED
        BY <1>2, <4>1, <4>2
    <3> QED
      BY <1>6, <1>7, <2>2, <3>1, <3>2, <3>3, <3>4 DEF Rounds
  <2> QED
    BY <2>1, <2>2
<1> QED
  BY <1>8, <1>9, <1>10, <1>11, <1>12, <1>13, <1>14

-------------------------------------------------------------------------------
(* Adding, removing and deleting pools *)

\* The new objects are in the given memory, which was free, and nothing else changes.
LEMMA ConstructIs ==
  ASSUME Types, NEW ps \in Seq(Pool), NEW ss \in Seq(Server), DOMAIN ss = DOMAIN ps,
         Distinct(ps), Construct(ps, ss)
  PROVE  /\ server' \in [Pool -> Server \union {NoServer}]
         /\ status' \in [Pool -> {"kConnected", "kClosed"}]
         /\ allocated' = allocated
         /\ \A i \in DOMAIN ps : server'[ps[i]] = ss[i] /\ ss[i] \in Server
         /\ \A p \in Pool : p \notin ToSet(ps) => server'[p] = server[p]
         /\ \A p \in ToSet(ps) : p \in Pool /\ ~Exists(p)
<1>1. \A i \in DOMAIN ps : ps[i] \in Pool /\ ss[i] \in Server /\ ps[i] \in ToSet(ps)
  BY ElementOfSeq, LenProperties DEF ToSet
<1>2. \A i \in DOMAIN ps : (CHOOSE j \in DOMAIN ps : ps[j] = ps[i]) = i
  BY DEF Distinct
<1>3. \A i \in DOMAIN ps : server'[ps[i]] = ss[i]
  BY <1>1, <1>2 DEF Construct
<1>4. \A p \in Pool : p \notin ToSet(ps) => server'[p] = server[p]
  BY DEF Construct
<1>5. \A p \in ToSet(ps) : \E i \in DOMAIN ps : p = ps[i]
  BY DEF ToSet
<1>6. \A p \in ToSet(ps) : p \in Pool /\ ~Exists(p)
  BY <1>1, <1>5 DEF Construct
<1>7. ASSUME NEW p \in Pool PROVE server'[p] \in Server \union {NoServer}
  <2>1. CASE p \in ToSet(ps)
    BY <1>1, <1>3, <1>5, <2>1
  <2>2. CASE p \notin ToSet(ps)
    BY <1>4, <2>2 DEF Types
  <2> QED
    BY <2>1, <2>2
<1>8. server' \in [Pool -> Server \union {NoServer}]
  <2>1. server' = [p \in Pool |-> server'[p]]
    BY DEF Construct
  <2> QED
    BY <1>7, <2>1
<1>9. status' \in [Pool -> {"kConnected", "kClosed"}] /\ allocated' = allocated
  BY DEF Construct, Types
<1> QED
  BY <1>1, <1>3, <1>4, <1>6, <1>8, <1>9

\* Pools that existed are put into other places, and new ones in use.
LEMMA ListsChange ==
  ASSUME Types, Lists, NEW ps \in Seq(Pool), NEW ss \in Seq(Server), DOMAIN ss = DOMAIN ps,
         Distinct(ps), Distinct(ss), Construct(ps, ss),
         NEW old \in Seq(Pool), Distinct(old),
         pools_' = old \o ps, remove_queue_' \in Seq(Pool), Distinct(remove_queue_'),
         ToSet(old) \intersect Queued' = {},
         ToSet(old) \union Queued' = Listed \union Queued,
         \A p, q \in ToSet(old) : server[p] = server[q] => p = q,
         \A p \in ToSet(old) : \A i \in DOMAIN ss : server[p] # ss[i]
  PROVE  Lists' /\ pools_' \in Seq(Pool) /\ Listed' = ToSet(old) \union ToSet(ps)
<1>1. /\ \A i \in DOMAIN ps : server'[ps[i]] = ss[i] /\ ss[i] \in Server
      /\ \A p \in Pool : p \notin ToSet(ps) => server'[p] = server[p]
      /\ \A p \in ToSet(ps) : p \in Pool /\ ~Exists(p)
  BY ConstructIs
<1>2. ToSet(ps) \intersect (Listed \union Queued) = {}
  BY <1>1 DEF Lists
<1>3. pools_' \in Seq(Pool) /\ Listed' = ToSet(old) \union ToSet(ps) /\ Distinct(pools_')
  BY <1>2, ConcatIs DEF Listed
<1>4. \A p \in ToSet(ps) : \E i \in DOMAIN ps : p = ps[i]
  BY DEF ToSet
<1>5. Listed' \intersect Queued' = {}
  BY <1>2, <1>3
<1>6. \A p \in Pool : Exists(p)' <=> p \in Listed' \union Queued'
  <2> SUFFICES ASSUME NEW p \in Pool PROVE Exists(p)' <=> p \in Listed' \union Queued'
    OBVIOUS
  <2>1. CASE p \in ToSet(ps)
    BY <1>1, <1>3, <1>4, <2>1, ServerAssumption DEF Exists
  <2>2. CASE p \notin ToSet(ps)
    BY <1>1, <1>3, <2>2 DEF Exists, Lists
  <2> QED
    BY <2>1, <2>2
<1>7. \A p \in ToSet(old) : p \in Pool /\ p \notin ToSet(ps) /\ server'[p] = server[p]
  <2>1. \A p \in ToSet(old) : p \in Pool
    BY ElementOfSeq, LenProperties DEF ToSet
  <2> QED
    BY <1>1, <1>2, <2>1
<1>8. ASSUME NEW p \in Listed', NEW q \in Listed', server'[p] = server'[q]
      PROVE  p = q
  <2>1. CASE p \in ToSet(old) /\ q \in ToSet(old)
    BY <1>7, <1>8, <2>1
  <2>2. CASE p \in ToSet(ps) /\ q \in ToSet(ps)
    <3>1. PICK i \in DOMAIN ps : p = ps[i]
      BY <1>4, <2>2
    <3>2. PICK j \in DOMAIN ps : q = ps[j]
      BY <1>4, <2>2
    <3>3. i = j
      BY <1>1, <1>8, <3>1, <3>2 DEF Distinct
    <3> QED
      BY <3>1, <3>2, <3>3
  <2>3. \A x \in ToSet(old), y \in ToSet(ps) : server'[x] # server'[y]
    BY <1>1, <1>4, <1>7
  <2> QED
    BY <1>3, <1>8, <2>1, <2>2, <2>3
<1> QED
  BY <1>3, <1>5, <1>6, <1>8 DEF Lists

\* The local pool was taken back or made, or there is none, or it stays and
\* none was removed.
LEMMA NewLocalIs ==
  ASSUME NEW srv, NEW gone \in Seq(Pool), NEW add \in Seq(Pool),
         NEW l, l = NewLocal(srv, gone, add)
  PROVE  \/ l \in ToSet(add) /\ srv[l] \in LocalServer
         \/ l = NoPool
         \/ l = localhost_pool_ /\ \A p \in ToSet(gone) : p \in Pool => srv[p] \notin LocalServer
<1> DEFINE L == {p \in Pool : srv[p] \in LocalServer}
           a == Among(add, L)
           g == Among(gone, L)
<1>1. l = IF a # << >> THEN Last(a) ELSE IF g # << >> THEN NoPool ELSE localhost_pool_
  BY DEF NewLocal
<1>2. /\ a \in Seq(Pool) /\ ToSet(a) = ToSet(add) \intersect L
      /\ g \in Seq(Pool) /\ ToSet(g) = ToSet(gone) \intersect L
  <2> HIDE DEF L
  <2> QED
    BY AmongIs
<1> HIDE DEF a, g
<1>3. a # << >> => Last(a) \in ToSet(a)
  BY <1>2, LastIs
<1>4. g = << >> => ToSet(g) = {}
  BY DEF ToSet
<1> QED
  BY <1>1, <1>2, <1>3, <1>4

\* Pools that have allocated connections do not go.
LEMMA HeldKept ==
  ASSUME Held, UNCHANGED <<pc, held, conn_pool_map_, allocated>>,
         \A p \in Pool : Exists(p) /\ allocated[p] # {} => Exists(p)'
  PROVE  Held'
<1> SUFFICES ASSUME NEW c \in Caller, held[c] # NoConn, pc[c] # "put"
             PROVE  Exists(conn_pool_map_[held[c]])'
  BY DEF Held
<1> DEFINE p == conn_pool_map_[held[c]]
<1>1. p \in Pool /\ Exists(p) /\ held[c] \in allocated[p] /\ p' = p
  BY DEF Held
<1> HIDE DEF p
<1>2. Exists(p)'
  BY <1>1
<1> QED
  BY <1>1, <1>2 DEF p, Exists

LEMMA AddServerStep ==
  ASSUME PoolInv, NEW c \in Caller, NEW s \in Server, AddServer(c, s)
  PROVE  PoolInv' /\ allocated' = allocated
<1> USE DEF PoolInv
<1>1. PICK p \in Pool :
         /\ Construct(<<p>>, <<s>>)
         /\ pools_' = Append(pools_, p)
         /\ localhost_pool_' = NewLocal(server', << >>, <<p>>)
  BY DEF AddServer
<1>2. /\ phase = "running" /\ mutex_ = NoCaller /\ s \notin Servers(pools_)
      /\ UNCHANGED <<remove_queue_, removeVars, callVars>>
  BY DEF AddServer, Idle
<1> DEFINE ps == <<p>>
           ss == <<s>>
<1>3. /\ ps \in Seq(Pool) /\ ToSet(ps) = {p} /\ Distinct(ps)
      /\ ss \in Seq(Server) /\ Distinct(ss) /\ DOMAIN ss = DOMAIN ps
      /\ \A i \in DOMAIN ss : ss[i] = s
  BY SingleIs DEF Distinct
<1>4. pools_' = pools_ \o ps
  BY <1>1, AppendIsConcat DEF Types
<1>5. Construct(ps, ss) /\ localhost_pool_' = NewLocal(server', << >>, ps)
  BY <1>1
<1> HIDE DEF ps, ss
<1>6. /\ server' \in [Pool -> Server \union {NoServer}]
      /\ status' \in [Pool -> {"kConnected", "kClosed"}]
      /\ allocated' = allocated
      /\ \A q \in Pool : q \notin ToSet(ps) => server'[q] = server[q]
      /\ \A q \in ToSet(ps) : q \in Pool /\ ~Exists(q)
  BY <1>3, <1>5, ConstructIs
<1>7. Queued' = Queued /\ remove_queue_' = remove_queue_
  BY <1>2 DEF Queued
<1>8. \A q \in Listed : server[q] # s
  BY <1>2 DEF Servers, Listed
<1>9. Lists' /\ pools_' \in Seq(Pool) /\ Listed' = Listed \union ToSet(ps)
  <2> DEFINE old == pools_
  <2>1. /\ old \in Seq(Pool) /\ Distinct(old) /\ ToSet(old) = Listed
        /\ pools_' = old \o ps
        /\ Distinct(remove_queue_') /\ remove_queue_' \in Seq(Pool)
    BY <1>4, <1>7 DEF Lists, Types, Listed
  <2>2. /\ ToSet(old) \intersect Queued' = {}
        /\ ToSet(old) \union Queued' = Listed \union Queued
        /\ \A q, r \in ToSet(old) : server[q] = server[r] => q = r
        /\ \A q \in ToSet(old) : \A i \in DOMAIN ss : server[q] # ss[i]
    BY <1>3, <1>7, <1>8, <2>1 DEF Lists
  <2> HIDE DEF old
  <2>3. Types /\ Lists
    OBVIOUS
  <2> QED
    BY <1>3, <1>5, <2>1, <2>2, <2>3, ListsChange
<1>10. \/ localhost_pool_' \in ToSet(ps) /\ server'[localhost_pool_'] \in LocalServer
       \/ localhost_pool_' = NoPool
       \/ localhost_pool_' = localhost_pool_
  <2> DEFINE none == << >>
             srv == server'
             l == localhost_pool_'
  <2>1. none \in Seq(Pool) /\ l = NewLocal(srv, none, ps)
    BY <1>5, EmptySeq
  <2> HIDE DEF none, srv, l
  <2>2. \/ l \in ToSet(ps) /\ srv[l] \in LocalServer
        \/ l = NoPool
        \/ l = localhost_pool_
    BY <1>3, <2>1, NewLocalIs
  <2> QED
    BY <2>2 DEF srv, l
<1>11. \A q \in Listed : server'[q] = server[q] /\ q \in Pool
  <2>1. \A q \in Listed : q \in Pool
    BY ElementOfSeq, LenProperties DEF Listed, ToSet, Types
  <2> QED
    BY <1>6, <2>1 DEF Lists
<1>12. LocalPool'
  BY <1>2, <1>9, <1>10, <1>11 DEF LocalPool
<1>13. Types'
  <2>1. localhost_pool_' \in Pool \union {NoPool}
    BY <1>6, <1>10 DEF Types
  <2> QED
    BY <1>2, <1>6, <1>7, <1>9, <2>1 DEF Types, removeVars, callVars
<1>14. \A q \in Pool : Exists(q) => Exists(q)'
  BY <1>6 DEF Exists
<1>15. Held'
  BY <1>2, <1>6, <1>14, HeldKept DEF callVars
<1>16. Mutex'
  BY <1>2 DEF Mutex, callVars, removeVars
<1>17. Chosen'
  BY <1>2, NoneAssumption DEF Mutex, Chosen, callVars
<1>18. Looked'
  BY <1>2, CallsKept DEF callVars
<1> QED
  BY <1>6, <1>9, <1>12, <1>13, <1>15, <1>16, <1>17, <1>18

\* What is taken back was waiting, is for those servers, and is one pool for each.
LEMMA BackIs ==
  ASSUME Types, Lists, NEW S
  PROVE  /\ Back(S) \in Seq(Pool) /\ Distinct(Back(S))
         /\ \A p \in ToSet(Back(S)) : p \in Pool /\ p \in Queued /\ server[p] \in S
         /\ \A p, q \in ToSet(Back(S)) : server[p] = server[q] => p = q
<1> DEFINE D == DOMAIN remove_queue_
           B == {p \in Pool :
                   /\ server[p] \in S
                   /\ \A i, j \in D :
                        remove_queue_[j] = p /\ server[remove_queue_[i]] = server[p] => j <= i}
           b == Back(S)
<1>1. b = Among(remove_queue_, B)
  BY DEF Back
<1>2. D \subseteq Nat
  BY LenProperties DEF Types
<1>3. \A p \in B : /\ p \in Pool /\ server[p] \in S
                   /\ \A i, j \in D :
                        remove_queue_[j] = p /\ server[remove_queue_[i]] = server[p] => j <= i
  OBVIOUS
<1>4. remove_queue_ \in Seq(Pool) /\ Distinct(remove_queue_)
  BY DEF Types, Lists
<1> HIDE DEF B, b
<1>5. b \in Seq(Pool) /\ ToSet(b) = ToSet(remove_queue_) \intersect B /\ Distinct(b)
  BY <1>1, <1>4, AmongIs
<1>6. ASSUME NEW p \in ToSet(b), NEW q \in ToSet(b), server[p] = server[q]
      PROVE  p = q
  <2>1. PICK i \in D : p = remove_queue_[i]
    BY <1>5 DEF ToSet
  <2>2. PICK j \in D : q = remove_queue_[j]
    BY <1>5 DEF ToSet
  <2>3. p \in B /\ q \in B
    BY <1>5
  <2>4. i <= j /\ j <= i
    BY <1>3, <1>6, <2>1, <2>2, <2>3
  <2>5. i = j
    BY <1>2, <2>4
  <2> QED
    BY <2>1, <2>2, <2>5
<1> QED
  BY <1>3, <1>5, <1>6 DEF b, Queued

LEMMA UpdateServersStep ==
  ASSUME PoolInv, NEW c \in Caller, NEW S \in SUBSET Server, UpdateServers(c, S)
  PROVE  PoolInv' /\ allocated' = allocated
<1> USE DEF PoolInv
<1> DEFINE K == {p \in Pool : server[p] \in S}
           G == {p \in Pool : server[p] \notin S}
           kept == Among(pools_, K)
           gone == Among(pools_, G)
           queue == remove_queue_ \o gone
           wanted == S \ Servers(kept)
           back == Back(wanted)
           missing == S \ (Servers(kept) \union Servers(back))
<1>1. /\ phase = "running" /\ mutex_ = NoCaller
      /\ UNCHANGED <<removeVars, callVars>>
  BY DEF UpdateServers, Idle
<1>2. PICK new \in SetToSeqs(missing) :
         \E ps \in {q \in [DOMAIN new -> Pool] : IsInjective(q)} :
            /\ Construct(ps, new)
            /\ pools_' = kept \o back \o ps
            /\ remove_queue_' = Waiting(queue, back)
            /\ localhost_pool_' = NewLocal(server', gone, back \o ps)
  BY DEF UpdateServers
<1>3. PICK ps \in [DOMAIN new -> Pool] :
         /\ IsInjective(ps)
         /\ Construct(ps, new)
         /\ pools_' = kept \o back \o ps
         /\ remove_queue_' = Waiting(queue, back)
         /\ localhost_pool_' = NewLocal(server', gone, back \o ps)
  BY <1>2
<1>4. /\ kept \in Seq(Pool) /\ Distinct(kept) /\ ToSet(kept) = Listed \intersect K
      /\ gone \in Seq(Pool) /\ Distinct(gone) /\ ToSet(gone) = Listed \intersect G
  <2> HIDE DEF K, G
  <2>1. pools_ \in Seq(Pool) /\ Distinct(pools_)
    BY DEF Types, Lists
  <2> QED
    BY <2>1, AmongIs DEF Listed
<1>5. /\ \A p \in Listed : p \in Pool
      /\ \A p \in Queued : p \in Pool
  BY ElementOfSeq, LenProperties DEF Listed, Queued, ToSet, Types
<1>6. /\ \A p \in ToSet(kept) : p \in Pool /\ p \in Listed /\ server[p] \in S
      /\ \A p \in ToSet(gone) : p \in Pool /\ p \in Listed /\ server[p] \notin S
      /\ \A p \in Listed : p \in ToSet(kept) \/ p \in ToSet(gone)
  BY <1>4, <1>5
<1> HIDE DEF K, G, kept, gone
<1>7. queue \in Seq(Pool) /\ ToSet(queue) = Queued \union ToSet(gone) /\ Distinct(queue)
  <2>1. /\ remove_queue_ \in Seq(Pool) /\ Distinct(remove_queue_) /\ ToSet(remove_queue_) = Queued
        /\ Queued \intersect ToSet(gone) = {}
    BY <1>6 DEF Types, Lists, Queued
  <2> QED
    BY <1>4, <2>1, ConcatIs
<1> HIDE DEF queue
<1>8. /\ back \in Seq(Pool) /\ Distinct(back)
      /\ \A p \in ToSet(back) : p \in Pool /\ p \in Queued /\ server[p] \in wanted
      /\ \A p, q \in ToSet(back) : server[p] = server[q] => p = q
  <2> HIDE DEF wanted
  <2> QED
    BY BackIs
<1>9. \A p \in ToSet(back), q \in ToSet(kept) : server[p] # server[q]
  BY <1>8 DEF Servers
<1>10. /\ missing \subseteq Server
       /\ \A p \in ToSet(kept) \union ToSet(back) : server[p] \notin missing
  BY DEF Servers
<1> HIDE DEF wanted, back, missing
<1>11. /\ new \in Seq(Server) /\ Distinct(new) /\ ps \in Seq(Pool) /\ Distinct(ps)
       /\ DOMAIN new = DOMAIN ps /\ \A i \in DOMAIN new : new[i] \in missing
  <2> DEFINE n == Cardinality(missing)
  <2>1. n \in Nat
    <3>1. IsFiniteSet(missing)
      BY <1>10, ServerAssumption, FS_Subset
    <3> QED
      BY <3>1, FS_CardinalityType
  <2>2. new \in [1..n -> missing] /\ \A i, j \in 1..n : i # j => new[i] # new[j]
    BY <1>2 DEF SetToSeqs
  <2> HIDE DEF n
  <2>3. new \in [1..n -> Server] /\ ps \in [1..n -> Pool]
    BY <1>3, <1>10, <2>2
  <2>4. new \in Seq(Server) /\ ps \in Seq(Pool)
    BY <2>1, <2>3, SeqDef
  <2>5. Distinct(new) /\ Distinct(ps)
    BY <1>3, <2>2 DEF Distinct, IsInjective
  <2> QED
    BY <2>2, <2>3, <2>4, <2>5
<1>12. /\ server' \in [Pool -> Server \union {NoServer}]
       /\ status' \in [Pool -> {"kConnected", "kClosed"}]
       /\ allocated' = allocated
       /\ \A q \in Pool : q \notin ToSet(ps) => server'[q] = server[q]
       /\ \A q \in ToSet(ps) : q \in Pool /\ ~Exists(q)
  BY <1>3, <1>11, ConstructIs
<1> DEFINE old == kept \o back
<1>13. /\ old \in Seq(Pool) /\ Distinct(old) /\ ToSet(old) = ToSet(kept) \union ToSet(back)
       /\ pools_' = old \o ps
  <2>1. ToSet(kept) \intersect ToSet(back) = {}
    BY <1>9
  <2> QED
    BY <1>3, <1>4, <1>8, <2>1, ConcatIs
<1>14. /\ remove_queue_' \in Seq(Pool) /\ Distinct(remove_queue_')
       /\ Queued' = (Queued \union ToSet(gone)) \ ToSet(back)
  <2> DEFINE W == Pool \ ToSet(back)
  <2>1. remove_queue_' = Among(queue, W)
    BY <1>3 DEF Waiting
  <2> HIDE DEF W
  <2>2. /\ remove_queue_' \in Seq(Pool) /\ Distinct(remove_queue_')
        /\ Queued' = ToSet(queue) \intersect W
    BY <1>7, <2>1, AmongIs DEF Queued
  <2> QED
    BY <1>5, <1>6, <1>7, <2>2 DEF W
<1> HIDE DEF old
<1>15. Lists' /\ pools_' \in Seq(Pool) /\ Listed' = ToSet(old) \union ToSet(ps)
  <2>1. ToSet(old) \intersect Queued' = {}
    BY <1>6, <1>13, <1>14 DEF Lists
  <2>2. ToSet(old) \union Queued' = Listed \union Queued
    BY <1>6, <1>8, <1>13, <1>14
  <2>3. \A p, q \in ToSet(old) : server[p] = server[q] => p = q
    BY <1>6, <1>8, <1>9, <1>13 DEF Lists
  <2>4. \A p \in ToSet(old) : \A i \in DOMAIN new : server[p] # new[i]
    BY <1>10, <1>11, <1>13
  <2>5. Types /\ Lists
    OBVIOUS
  <2>6. Construct(ps, new)
    BY <1>3
  <2>7. /\ ps \in Seq(Pool) /\ new \in Seq(Server) /\ DOMAIN new = DOMAIN ps
        /\ Distinct(ps) /\ Distinct(new)
    BY <1>11
  <2>8. old \in Seq(Pool) /\ Distinct(old) /\ pools_' = old \o ps
    BY <1>13
  <2>9. remove_queue_' \in Seq(Pool) /\ Distinct(remove_queue_')
    BY <1>14
  <2> HIDE DEF PoolInv
  <2> QED
    BY <2>1, <2>2, <2>3, <2>4, <2>5, <2>6, <2>7, <2>8, <2>9, ListsChange
<1>16. \A q \in Listed : server'[q] = server[q]
  BY <1>5, <1>12 DEF Lists
<1>17. \/ localhost_pool_' \in ToSet(back) \union ToSet(ps) /\ server'[localhost_pool_'] \in LocalServer
       \/ localhost_pool_' = NoPool
       \/ localhost_pool_' = localhost_pool_ /\ \A p \in ToSet(gone) : server'[p] \notin LocalServer
  <2> DEFINE add == back \o ps
             srv == server'
             l == localhost_pool_'
  <2>1. add \in Seq(Pool) /\ ToSet(add) = ToSet(back) \union ToSet(ps)
    BY <1>8, <1>11, ConcatIs
  <2>2. l = NewLocal(srv, gone, add)
    BY <1>3
  <2> HIDE DEF add, srv, l
  <2>3. \/ l \in ToSet(add) /\ srv[l] \in LocalServer
        \/ l = NoPool
        \/ l = localhost_pool_ /\ \A p \in ToSet(gone) : p \in Pool => srv[p] \notin LocalServer
    <3>1. gone \in Seq(Pool) /\ add \in Seq(Pool)
      BY <1>4, <2>1
    <3> HIDE DEF PoolInv
    <3> QED
      BY <2>2, <3>1, NewLocalIs
  <2> QED
    BY <1>6, <2>1, <2>3 DEF srv, l
<1>18. LocalPool'
  <2> SUFFICES ASSUME localhost_pool_' # NoPool
               PROVE  localhost_pool_' \in Listed' /\ server'[localhost_pool_'] \in LocalServer
    BY DEF LocalPool
  <2>1. CASE localhost_pool_' \in ToSet(back) \union ToSet(ps) /\ server'[localhost_pool_'] \in LocalServer
    BY <1>13, <1>15, <2>1
  <2>2. CASE localhost_pool_' = localhost_pool_ /\ \A p \in ToSet(gone) : server'[p] \notin LocalServer
    <3>1. localhost_pool_ \in Listed /\ server[localhost_pool_] \in LocalServer
      BY <1>1, <2>2 DEF LocalPool
    <3>2. localhost_pool_ \in ToSet(kept)
      BY <1>6, <1>16, <2>2, <3>1
    <3> QED
      BY <1>13, <1>15, <1>16, <2>2, <3>1, <3>2
  <2> QED
    BY <1>17, <2>1, <2>2
<1>19. Types'
  <2>1. localhost_pool_' \in Pool \union {NoPool}
    BY <1>8, <1>12, <1>17 DEF Types
  <2> QED
    BY <1>1, <1>12, <1>14, <1>15, <2>1 DEF Types, removeVars, callVars
<1>20. \A q \in Pool : Exists(q) => Exists(q)'
  BY <1>12 DEF Exists
<1>21. Held'
  BY <1>1, <1>12, <1>20, HeldKept DEF callVars
<1>22. Mutex'
  BY <1>1 DEF Mutex, callVars, removeVars
<1>23. Chosen'
  BY <1>1, NoneAssumption DEF Mutex, Chosen, callVars
<1>24. Looked'
  BY <1>1, CallsKept DEF callVars
<1> QED
  BY <1>12, <1>15, <1>18, <1>19, <1>21, <1>22, <1>23, <1>24

\* A step that leaves the calls and the pools in use alone.
LEMMA LookedKept ==
  ASSUME Looked, UNCHANGED <<pc, tried, index_, pools_>>
  PROVE  Looked'
<1> SUFFICES ASSUME NEW c \in Caller PROVE Rounds(c)'
  BY DEF Looked
<1>1. Rounds(c)
  BY DEF Looked
<1> QED
  BY <1>1 DEF Rounds

LEMMA RemovePassStep ==
  ASSUME PoolInv, RemovePass
  PROVE  PoolInv' /\ allocated' = allocated
<1> USE DEF PoolInv
<1> DEFINE D == Destroyable
           W == Pool \ D
<1>1. /\ server' = [p \in Pool |-> IF p \in D THEN NoServer ELSE server[p]]
      /\ status' = [p \in Pool |-> IF p \in D THEN "kClosed" ELSE status[p]]
      /\ remove_queue_' = Among(remove_queue_, W)
      /\ remover' \in {"running", "ended"}
      /\ UNCHANGED <<allocated, pools_, localhost_pool_, phase, remove_thread_stop_flag_, callVars>>
  BY DEF RemovePass
<1>2. /\ \A p \in Queued : p \in Pool
      /\ \A p \in Listed : p \in Pool
  BY ElementOfSeq, LenProperties DEF Listed, Queued, ToSet, Types
<1>3. D \subseteq Queued /\ \A p \in D : allocated[p] = {}
  BY DEF Destroyable
<1> HIDE DEF D
<1>4. /\ remove_queue_' \in Seq(Pool) /\ Distinct(remove_queue_') /\ Queued' = Queued \ D
  <2>1. remove_queue_ \in Seq(Pool) /\ Distinct(remove_queue_)
    BY DEF Types, Lists
  <2> HIDE DEF W
  <2>2. /\ remove_queue_' \in Seq(Pool) /\ Distinct(remove_queue_')
        /\ Queued' = Queued \intersect W
    BY <1>1, <2>1, AmongIs DEF Queued
  <2> QED
    BY <1>2, <2>2 DEF W
<1>5. Listed' = Listed /\ \A p \in Listed : p \notin D /\ server'[p] = server[p]
  BY <1>1, <1>2, <1>3 DEF Listed, Lists
<1>6. \A p \in Pool : Exists(p)' <=> Exists(p) /\ p \notin D
  BY <1>1 DEF Exists
<1>7. Types'
  <2>1. /\ server' \in [Pool -> Server \union {NoServer}]
        /\ status' \in [Pool -> {"kConnected", "kClosed"}]
    BY <1>1 DEF Types
  <2> QED
    BY <1>1, <1>4, <2>1 DEF Types, callVars
<1>8. Lists'
  <2>1. \A p \in Pool : Exists(p)' <=> p \in Listed' \union Queued'
    BY <1>3, <1>4, <1>5, <1>6 DEF Lists
  <2>2. Distinct(pools_') /\ Listed' \intersect Queued' = {}
    BY <1>1, <1>4, <1>5 DEF Lists
  <2>3. \A p, q \in Listed' : server'[p] = server'[q] => p = q
    BY <1>5 DEF Lists
  <2> QED
    BY <1>4, <2>1, <2>2, <2>3 DEF Lists
<1>9. LocalPool'
  BY <1>1, <1>5 DEF LocalPool
<1>10. Chosen'
  BY <1>1, <1>5 DEF Chosen, callVars
<1>11. \A p \in Pool : Exists(p) /\ allocated[p] # {} => Exists(p)'
  BY <1>3, <1>6
<1>12. Held'
  BY <1>1, <1>11, HeldKept DEF callVars
<1>13. Mutex' /\ Looked'
  BY <1>1, LookedKept DEF Mutex, callVars
<1> QED
  BY <1>1, <1>7, <1>8, <1>9, <1>10, <1>12, <1>13

LEMMA ClearStep ==
  ASSUME PoolInv, Clear
  PROVE  PoolInv' /\ allocated' = allocated
<1> USE DEF PoolInv
<1>1. /\ mutex_ = NoCaller /\ phase' = "clearing"
      /\ remove_queue_' = remove_queue_ \o pools_
      /\ pools_' = << >>
      /\ UNCHANGED <<poolVars, localhost_pool_, remove_thread_stop_flag_, remover, callVars>>
  BY DEF Clear
<1>2. /\ pools_ \in Seq(Pool) /\ Distinct(pools_) /\ ToSet(pools_) = Listed
      /\ remove_queue_ \in Seq(Pool) /\ Distinct(remove_queue_) /\ ToSet(remove_queue_) = Queued
      /\ Queued \intersect Listed = {}
  BY DEF Types, Lists, Listed, Queued
<1>3. /\ remove_queue_' \in Seq(Pool) /\ Distinct(remove_queue_')
      /\ Queued' = Queued \union Listed
  BY <1>1, <1>2, ConcatIs DEF Queued
<1>4. << >> \in Seq(Pool) /\ DOMAIN << >> = {}
  BY EmptySeq
<1>5. pools_' \in Seq(Pool) /\ Distinct(pools_') /\ Listed' = {}
  BY <1>1, <1>4 DEF Distinct, Listed, ToSet
<1>6. Types'
  BY <1>1, <1>3, <1>5 DEF Types, poolVars, callVars
<1>7. Lists'
  BY <1>1, <1>3, <1>5 DEF Lists, Exists, poolVars
<1>8. LocalPool'
  BY <1>1 DEF LocalPool
<1>9. Mutex'
  BY <1>1 DEF Mutex, callVars
<1>10. Chosen'
  BY <1>1, NoneAssumption DEF Mutex, Chosen, callVars
<1>11. Held'
  BY <1>1, HeldKept DEF poolVars, callVars, Exists
<1>12. Looked'
  BY <1>1, CallsKept DEF callVars
<1> QED
  BY <1>1, <1>6, <1>7, <1>8, <1>9, <1>10, <1>11, <1>12 DEF poolVars

LEMMA EndStep ==
  ASSUME PoolInv, SetStopFlag \/ Join
  PROVE  PoolInv' /\ allocated' = allocated
<1> USE DEF PoolInv
<1>1. /\ phase # "running" /\ phase' \in {"stopping", "destroyed"}
      /\ remove_thread_stop_flag_' \in BOOLEAN
      /\ UNCHANGED <<poolVars, listVars, remover, callVars>>
  BY DEF SetStopFlag, Join, Types
<1>2. Types'
  BY <1>1 DEF Types, poolVars, listVars, callVars
<1>3. Mutex'
  BY <1>1 DEF Mutex, callVars
<1>4. Lists' /\ Listed' = Listed
  BY <1>1, ListsKept DEF poolVars, listVars
<1>5. LocalPool'
  BY <1>1 DEF LocalPool
<1>6. Chosen'
  BY <1>1, <1>4 DEF Chosen, callVars
<1>7. Held'
  BY <1>1, HeldKept DEF poolVars, callVars, Exists
<1>8. Looked'
  BY <1>1, LookedKept DEF listVars, callVars
<1> QED
  BY <1>1, <1>2, <1>3, <1>4, <1>5, <1>6, <1>7, <1>8 DEF poolVars

\* Neither a probe nor a stutter changes anything the invariant is about.
LEMMA QuietStep ==
  ASSUME PoolInv, (\E p \in Pool : StatusChanges(p)) \/ UNCHANGED vars
  PROVE  PoolInv' /\ allocated' = allocated
<1> USE DEF PoolInv
<1>1. /\ status' \in [Pool -> {"kConnected", "kClosed"}]
      /\ UNCHANGED <<server, allocated, listVars, removeVars, callVars>>
  <2>1. CASE UNCHANGED vars
    BY <2>1 DEF vars, poolVars, Types
  <2>2. ASSUME NEW p \in Pool, StatusChanges(p)
        PROVE  <1>1
    BY <2>2 DEF StatusChanges, Types
  <2> QED
    BY <2>1, <2>2
<1>2. Types'
  BY <1>1 DEF Types, listVars, removeVars, callVars
<1>3. Mutex'
  BY <1>1 DEF Mutex, callVars, removeVars
<1>4. Lists' /\ Listed' = Listed
  BY <1>1, ListsKept DEF listVars
<1>5. LocalPool'
  BY <1>1, <1>4 DEF LocalPool, listVars, removeVars
<1>6. Chosen'
  BY <1>1, <1>4 DEF Chosen, callVars
<1>7. Held'
  BY <1>1, HeldKept DEF callVars, Exists
<1>8. Looked'
  BY <1>1, LookedKept DEF listVars, callVars
<1> QED
  BY <1>1, <1>2, <1>3, <1>4, <1>5, <1>6, <1>7, <1>8

-------------------------------------------------------------------------------
(* The invariant, and what follows from it *)

LEMMA Step ==
  ASSUME PoolInv, [Next]_vars
  PROVE  PoolInv' /\ \A p \in Queued \intersect Queued' : allocated'[p] \subseteq allocated[p]
<1> DEFINE Shrunk == \A p \in Queued \intersect Queued' : allocated'[p] \subseteq allocated[p]
<1>1. allocated' = allocated => Shrunk
  OBVIOUS
<1>2. ASSUME NEW c \in Caller, CallerStep(c)
      PROVE  PoolInv' /\ Shrunk
  <2>1. ASSUME NEW s \in Server, AddServer(c, s) PROVE PoolInv' /\ Shrunk
    BY <1>1, <2>1, AddServerStep
  <2>2. ASSUME NEW S \in SUBSET Server, UpdateServers(c, S) PROVE PoolInv' /\ Shrunk
    BY <1>1, <2>2, UpdateServersStep
  <2>3. CASE Get(c)
    BY <1>1, <2>3, GetStep DEF Get, poolVars
  <2>4. CASE Select(c)
    BY <1>1, <2>4, SelectStep DEF Select, poolVars
  <2>5. CASE Check(c)
    BY <1>1, <2>5, CheckStep DEF Check, poolVars
  <2>6. CASE Connect(c)
    BY <2>6, ConnectStep
  <2>7. CASE Put(c)
    <3>1. \A p \in Queued : p \in Pool
      BY ElementOfSeq, LenProperties DEF Queued, ToSet, PoolInv, Types
    <3>2. PoolInv' /\ \A q \in Pool : allocated'[q] \subseteq allocated[q]
      BY <2>7, PutStep
    <3> QED
      BY <3>1, <3>2
  <2>8. CASE PutBack(c)
    BY <1>1, <2>8, PutBackStep DEF PutBack, poolVars
  <2> QED
    BY <1>2, <2>1, <2>2, <2>3, <2>4, <2>5, <2>6, <2>7, <2>8 DEF CallerStep
<1>3. CASE RemovePass
  BY <1>1, <1>3, RemovePassStep
<1>4. CASE Clear
  BY <1>1, <1>4, ClearStep
<1>5. CASE SetStopFlag \/ Join
  BY <1>1, <1>5, EndStep
<1>6. CASE (\E p \in Pool : StatusChanges(p)) \/ UNCHANGED vars
  BY <1>1, <1>6, QuietStep
<1> QED
  BY <1>2, <1>3, <1>4, <1>5, <1>6 DEF Next

LEMMA Invariant == Spec => []PoolInv
<1>1. PoolInv /\ [Next]_vars => PoolInv'
  BY Step
<1> QED
  BY <1>1, Initially, PTL DEF Spec

\* The types, and that whoever is inside get() or put() holds the mutex.
THEOREM PoolTypes == Spec => []TypeOK
<1>1. PoolInv => TypeOK
  BY DEF PoolInv, Types, Mutex, TypeOK
<1> QED
  BY <1>1, Invariant, PTL

\* A pool is in use or waits, once, exactly as long as it exists, and no two
\* pools in use are of one server, for any servers and any number of pools.
THEOREM PoolsOnce == Spec => []EachPoolOnce
<1>1. ASSUME PoolInv PROVE EachPoolOnce
  <2> DEFINE all == pools_ \o remove_queue_
             at(p) == {i \in DOMAIN all : all[i] = p}
  <2>1. /\ pools_ \in Seq(Pool) /\ Distinct(pools_) /\ ToSet(pools_) = Listed
        /\ remove_queue_ \in Seq(Pool) /\ Distinct(remove_queue_) /\ ToSet(remove_queue_) = Queued
        /\ Listed \intersect Queued = {}
    BY <1>1 DEF PoolInv, Types, Lists, Listed, Queued
  <2>2. ToSet(all) = Listed \union Queued /\ Distinct(all)
    BY <2>1, ConcatIs
  <2> HIDE DEF all
  <2>3. ASSUME NEW p \in Pool
        PROVE  Cardinality(at(p)) = IF Exists(p) THEN 1 ELSE 0
    <3>1. CASE Exists(p)
      <4>1. PICK i \in DOMAIN all : all[i] = p
        BY <1>1, <2>2, <3>1 DEF PoolInv, Lists, ToSet
      <4>2. at(p) = {i}
        BY <2>2, <4>1 DEF Distinct
      <4> QED
        BY <3>1, <4>2, FS_Singleton
    <3>2. CASE ~Exists(p)
      <4>1. at(p) = {}
        BY <1>1, <2>2, <3>2 DEF PoolInv, Lists, ToSet
      <4> QED
        BY <3>2, <4>1, FS_EmptySet
    <3> QED
      BY <3>1, <3>2
  <2>4. ASSUME NEW i \in DOMAIN pools_, NEW j \in DOMAIN pools_,
               server[pools_[i]] = server[pools_[j]]
        PROVE  i = j
    <3>1. pools_[i] \in Listed /\ pools_[j] \in Listed
      BY DEF Listed, ToSet
    <3>2. pools_[i] = pools_[j]
      BY <1>1, <2>4, <3>1 DEF PoolInv, Lists
    <3> QED
      BY <2>1, <3>2 DEF Distinct
  <2> QED
    BY <2>3, <2>4 DEF EachPoolOnce, all
<1> QED
  BY <1>1, Invariant, PTL

\* The pool of a connection that a caller has is alive, whatever was removed.
THEOREM PoolsOfHeldAlive == Spec => []HeldAlive
<1>1. ASSUME PoolInv PROVE HeldAlive
  <2> SUFFICES ASSUME NEW c \in Caller, held[c] # NoConn
               PROVE  /\ conn_pool_map_[held[c]] # NoPool
                      /\ pc[c] # "put" => /\ Exists(conn_pool_map_[held[c]])
                                          /\ held[c] \in allocated[conn_pool_map_[held[c]]]
    BY DEF HeldAlive
  <2> QED
    BY <1>1, NoneAssumption DEF PoolInv, Held
<1> QED
  BY <1>1, Invariant, PTL

\* A get() whose loop has found no connected pool has looked at every pool in use
\* (thrift_pool.h:1338-1346).
THEOREM NonePassedOver == Spec => []NoServerSkipped
<1>1. ASSUME PoolInv, NEW c \in Caller, pc[c] = "exhausted"
      PROVE  ToSet(tried[c]) = Listed
  <2> DEFINE n == Len(pools_)
             t == tried[c]
             k == Len(t)
  <2>1. n \in Nat /\ DOMAIN pools_ = 1..n /\ DOMAIN t = 1..k /\ k \in Nat
    BY <1>1, LenProperties DEF PoolInv, Types
  <2>2. /\ k = n
        /\ k >= 1 => /\ index_ \in 1..n
                     /\ \A m \in 1..k : t[m] = pools_[Place(m, k, index_, n)]
    BY <1>1 DEF PoolInv, Looked, Rounds
  <2> HIDE DEF n, t, k
  <2>3. ASSUME NEW m \in 1..n PROVE \E q \in 1..n : t[m] = pools_[q]
    <3>1. index_ \in 1..n /\ t[m] = pools_[Place(m, n, index_, n)]
      BY <2>1, <2>2
    <3>2. Place(m, n, index_, n) \in 1..n
      BY <2>1, <3>1 DEF Place
    <3> QED
      BY <3>1, <3>2
  <2>4. ASSUME NEW q \in 1..n PROVE \E m \in 1..n : t[m] = pools_[q]
    <3> DEFINE m == IF q <= index_ THEN (q - index_) + n ELSE q - index_
    <3>1. index_ \in 1..n
      BY <2>1, <2>2
    <3>2. m \in 1..n /\ Place(m, n, index_, n) = q
      BY <2>1, <3>1 DEF Place
    <3> HIDE DEF m
    <3> QED
      BY <2>1, <2>2, <3>2
  <2>5. ToSet(t) = {t[m] : m \in 1..n} /\ Listed = {pools_[q] : q \in 1..n}
    BY <2>1, <2>2 DEF ToSet, Listed
  <2>6. ToSet(t) = Listed
    BY <2>3, <2>4, <2>5
  <2> QED
    BY <2>6 DEF t
<1>2. PoolInv => NoServerSkipped
  BY <1>1 DEF NoServerSkipped
<1> QED
  BY <1>2, Invariant, PTL

\* From a pool that waits to be deleted nothing is taken any more.
THEOREM NothingTakenFromQueued == Spec => QueuedOnlyShrinks
<1>1. PoolInv /\ [Next]_vars =>
        [\A p \in Queued \intersect Queued' : allocated'[p] \subseteq allocated[p]]_vars
  BY Step
<1> QED
  BY <1>1, Invariant, PTL DEF Spec, QueuedOnlyShrinks
===============================================================================
