-------------------------- MODULE AsioCustodyProofs --------------------------
(***************************************************************************)
(* The custody of connections in AsioPool, and that AsioPool implements    *)
(* ConnectionCustody, for every set of endpoints, callers and connections  *)
(* and every maximum and minimum.                                          *)
(***************************************************************************)
EXTENDS AsioPoolCustody, AsioPoolProofs, FiniteSetTheorems

\* What may have connections: a pool, the variables of a thread, a caller.
PoolOf(e) == <<"pool", e>>
SpareOf(a) == <<"spare", a>>
ConnOf(a) == <<"conn", a>>
HeldBy(c) == <<"held", c>>

Holder == {PoolOf(e) : e \in EndPoint} \union {SpareOf(a) : a \in Actor}
            \union {ConnOf(a) : a \in Actor} \union {HeldBy(c) : c \in Caller}

Holds(h) ==
  CASE h[1] = "pool" -> ToSet(pool[h[2]])
    [] h[1] = "spare" -> ToSet(spare[h[2]])
    [] h[1] = "conn" -> {conn[h[2]]} \ {NoSocket}
    [] OTHER -> {held[h[2]]} \ {NoSocket}

Distinct(p) == \A i, j \in DOMAIN p : p[i] = p[j] => i = j

\* A thread has connections in hand only where it goes on to hand them over,
\* and a caller that waits for one has none.
Hands ==
  \A a \in Actor :
    /\ conn[a] # NoSocket => pc[a] \in {"get_connected", "probe_connected"}
    /\ spare[a] # << >> => pc[a] \in {"fill", "fill_insert"}
    /\ a \in Caller /\ pc[a] \in GetPC => held[a] = NoSocket

NoRepetition ==
  /\ \A e \in EndPoint : Distinct(pool[e])
  /\ \A a \in Actor : Distinct(spare[a])

\* A connection has one holder while it is open, and none when it is closed.
Exclusive == \A h, k \in Holder : \A s \in Holds(h) \intersect Holds(k) : h = k

OpenHeld ==
  /\ \A h \in Holder : Holds(h) \subseteq Socket
  /\ \A s \in Socket : remote[s] # NoEndPoint <=> \E h \in Holder : s \in Holds(h)

CustodyInv == Hands /\ NoRepetition /\ Exclusive /\ OpenHeld /\ FiledUnderPeer

-------------------------------------------------------------------------------
(* Sequences of connections *)

LEMMA AppendDistinct ==
  ASSUME NEW p \in Seq(Socket), Distinct(p), NEW s \in Socket, s \notin ToSet(p)
  PROVE  /\ Append(p, s) \in Seq(Socket) /\ Distinct(Append(p, s))
         /\ ToSet(Append(p, s)) = ToSet(p) \union {s}
<1>1. /\ Append(p, s) \in Seq(Socket) /\ Len(Append(p, s)) = Len(p) + 1
      /\ \A i \in 1..(Len(p) + 1) : Append(p, s)[i] = IF i = Len(p) + 1 THEN s ELSE p[i]
  OBVIOUS
<1>2. Distinct(Append(p, s))
  BY <1>1 DEF Distinct, ToSet
<1>3. ToSet(Append(p, s)) = ToSet(p) \union {s}
  BY <1>1 DEF ToSet
<1> QED
  BY <1>1, <1>2, <1>3

LEMMA JoinDistinct ==
  ASSUME NEW p \in Seq(Socket), Distinct(p), NEW q \in Seq(Socket), Distinct(q),
         ToSet(p) \intersect ToSet(q) = {}
  PROVE  /\ p \o q \in Seq(Socket) /\ Distinct(p \o q)
         /\ ToSet(p \o q) = ToSet(p) \union ToSet(q)
<1>1. /\ p \o q \in Seq(Socket) /\ Len(p \o q) = Len(p) + Len(q)
      /\ \A i \in 1..(Len(p) + Len(q)) :
           (p \o q)[i] = IF i <= Len(p) THEN p[i] ELSE q[i - Len(p)]
  OBVIOUS
<1>2. ASSUME NEW i \in 1..(Len(p) + Len(q)), NEW j \in 1..(Len(p) + Len(q)),
             (p \o q)[i] = (p \o q)[j]
      PROVE  i = j
  <2>1. CASE i <= Len(p) /\ j <= Len(p)
    BY <1>1, <1>2, <2>1 DEF Distinct
  <2>2. CASE i > Len(p) /\ j > Len(p)
    <3>1. i - Len(p) \in DOMAIN q /\ j - Len(p) \in DOMAIN q
      BY <2>2
    <3> QED
      BY <1>1, <1>2, <2>2, <3>1 DEF Distinct
  <2>3. CASE ~(i <= Len(p) <=> j <= Len(p))
    <3>1. \A k \in 1..(Len(p) + Len(q)) :
            IF k <= Len(p) THEN (p \o q)[k] \in ToSet(p) ELSE (p \o q)[k] \in ToSet(q)
      BY <1>1 DEF ToSet
    <3> QED
      BY <1>2, <2>3, <3>1
  <2> QED
    BY <2>1, <2>2, <2>3
<1>3. ToSet(p \o q) = ToSet(p) \union ToSet(q)
  <2>1. ASSUME NEW j \in DOMAIN q PROVE q[j] \in ToSet(p \o q)
    <3>1. Len(p) + j \in DOMAIN (p \o q) /\ (p \o q)[Len(p) + j] = q[j]
      BY <1>1, <2>1
    <3> QED
      BY <3>1 DEF ToSet
  <2>2. ASSUME NEW j \in DOMAIN p PROVE p[j] \in ToSet(p \o q)
    BY <1>1, <2>2 DEF ToSet
  <2>3. ASSUME NEW i \in DOMAIN (p \o q) PROVE (p \o q)[i] \in ToSet(p) \union ToSet(q)
    BY <1>1, <2>3 DEF ToSet
  <2> QED
    BY <2>1, <2>2, <2>3 DEF ToSet
<1> QED
  BY <1>1, <1>2, <1>3 DEF Distinct

LEMMA TrimDistinct ==
  ASSUME NEW p \in Seq(Socket), Distinct(p)
  PROVE  /\ Trim(p) \in Seq(Socket) /\ Distinct(Trim(p))
         /\ ToSet(Trim(p)) \subseteq ToSet(p)
         /\ Trimmed(p) = ToSet(p) \ ToSet(Trim(p))
<1> USE ConnAssumption
<1>1. CASE MaxConn # 0 /\ Len(p) > MaxConn
  <2>1. Trim(p) = SubSeq(p, 1, MaxConn)
    BY <1>1 DEF Trim
  <2>2. /\ Trim(p) \in Seq(Socket) /\ Len(Trim(p)) = MaxConn
        /\ \A i \in 1..MaxConn : Trim(p)[i] = p[i]
    BY <1>1, <2>1, TrimType
  <2> QED
    BY <1>1, <2>2 DEF Distinct, ToSet, Trimmed
<1>2. CASE ~(MaxConn # 0 /\ Len(p) > MaxConn)
  BY <1>2 DEF Trim, Trimmed
<1> QED
  BY <1>1, <1>2

LEMMA FrontDistinct ==
  ASSUME NEW p \in Seq(Socket), Distinct(p), p # << >>
  PROVE  /\ Front(p) \in Seq(Socket) /\ Distinct(Front(p)) /\ Last(p) \in Socket
         /\ Last(p) \notin ToSet(Front(p))
         /\ ToSet(p) = ToSet(Front(p)) \union {Last(p)}
<1>1. Len(p) \in Nat \ {0}
  OBVIOUS
<1>2. /\ Front(p) \in Seq(Socket) /\ Len(Front(p)) = Len(p) - 1
      /\ \A i \in 1..(Len(p) - 1) : Front(p)[i] = p[i]
  <2> DEFINE n == Len(p) - 1
  <2>1. n \in Nat /\ n < Len(p) /\ \A i \in 1..n : p[i] \in Socket
    BY <1>1
  <2>2. Front(p) = SubSeq(p, 1, n)
    BY DEF Front
  <2> HIDE DEF n
  <2>3. /\ Front(p) \in Seq(Socket) /\ Len(Front(p)) = n
        /\ \A i \in 1..n : Front(p)[i] = p[i]
    BY <2>1, <2>2
  <2> QED
    BY <2>3 DEF n
<1>3. Last(p) = p[Len(p)]
  BY DEF Last
<1>4. Distinct(Front(p)) /\ Last(p) \notin ToSet(Front(p))
  BY <1>1, <1>2, <1>3 DEF Distinct, ToSet
<1>5. \A i \in DOMAIN p : p[i] = Last(p) \/ p[i] \in ToSet(Front(p))
  BY <1>1, <1>2, <1>3 DEF ToSet
<1>6. ToSet(Front(p)) \subseteq ToSet(p) /\ Last(p) \in ToSet(p) /\ Last(p) \in Socket
  BY <1>1, <1>2, <1>3 DEF ToSet
<1> QED
  BY <1>2, <1>4, <1>5, <1>6 DEF ToSet

-------------------------------------------------------------------------------
(* Holders *)

LEMMA HolderKinds ==
  /\ \A e \in EndPoint : PoolOf(e) \in Holder /\ Holds(PoolOf(e)) = ToSet(pool[e])
  /\ \A a \in Actor : SpareOf(a) \in Holder /\ Holds(SpareOf(a)) = ToSet(spare[a])
  /\ \A a \in Actor : ConnOf(a) \in Holder /\ Holds(ConnOf(a)) = {conn[a]} \ {NoSocket}
  /\ \A c \in Caller : HeldBy(c) \in Holder /\ Holds(HeldBy(c)) = {held[c]} \ {NoSocket}
BY DEF Holder, Holds, PoolOf, SpareOf, ConnOf, HeldBy

LEMMA HolderKindsPrime ==
  /\ \A e \in EndPoint : Holds(PoolOf(e))' = ToSet(pool'[e])
  /\ \A a \in Actor : Holds(SpareOf(a))' = ToSet(spare'[a])
  /\ \A a \in Actor : Holds(ConnOf(a))' = {conn'[a]} \ {NoSocket}
  /\ \A c \in Caller : Holds(HeldBy(c))' = {held'[c]} \ {NoSocket}
BY DEF Holds, PoolOf, SpareOf, ConnOf, HeldBy

\* Connections pass between the holders of A only: each new one of theirs was one
\* of theirs, and those that are none any more are closed.
LEMMA Redistribute ==
  ASSUME Exclusive, OpenHeld, NEW A \in SUBSET Holder,
         \A h \in Holder \ A : Holds(h)' = Holds(h),
         \A h \in A : \A s \in Holds(h)' : \E k \in A : s \in Holds(k),
         \A h, k \in A : \A s \in Holds(h)' \intersect Holds(k)' : h = k,
         \A s \in Socket :
           remote'[s] = IF /\ \E h \in A : s \in Holds(h)
                           /\ \A h \in A : s \notin Holds(h)'
                        THEN NoEndPoint ELSE remote[s]
  PROVE  Exclusive' /\ OpenHeld' /\ \A h \in Holder : \A s \in Holds(h)' : remote'[s] = remote[s]
<1>1. ASSUME NEW h \in Holder, NEW k \in Holder, NEW s \in Holds(h)' \intersect Holds(k)'
      PROVE  h = k
  <2>1. CASE h \in A /\ k \in A
    BY <1>1, <2>1
  <2>2. CASE h \notin A /\ k \notin A
    BY <1>1, <2>2 DEF Exclusive
  <2>3. CASE h \in A /\ k \notin A
    BY <1>1, <2>3 DEF Exclusive
  <2>4. CASE h \notin A /\ k \in A
    BY <1>1, <2>4 DEF Exclusive
  <2> QED
    BY <2>1, <2>2, <2>3, <2>4
<1>2. ASSUME NEW h \in Holder, NEW s \in Holds(h)'
      PROVE  s \in Socket /\ remote'[s] = remote[s] /\ \E k \in Holder : s \in Holds(k)
  <2>1. CASE h \in A
    BY <1>2, <2>1 DEF OpenHeld
  <2>2. CASE h \notin A
    <3>1. s \in Holds(h) /\ s \in Socket
      BY <1>2, <2>2 DEF OpenHeld
    <3>2. \A k \in A : s \notin Holds(k)
      BY <3>1, <2>2 DEF Exclusive
    <3> QED
      BY <3>1, <3>2
  <2> QED
    BY <2>1, <2>2
<1>3. ASSUME NEW s \in Socket, remote'[s] # NoEndPoint
      PROVE  \E h \in Holder : s \in Holds(h)'
  <2>1. PICK k \in Holder : s \in Holds(k)
    BY <1>3 DEF OpenHeld
  <2> QED
    BY <1>3, <2>1
<1> QED
  BY <1>1, <1>2, <1>3 DEF Exclusive, OpenHeld

\* What all steps but a connect do: nobody gets a connection that was not held,
\* and those still held stay connected as they were.
Kept == Exclusive' /\ OpenHeld' /\ \A h \in Holder : \A s \in Holds(h)' : remote'[s] = remote[s]

LEMMA SameHolders ==
  ASSUME CustodyInv, UNCHANGED <<pool, spare, conn, held, remote>>
  PROVE  Kept /\ NoRepetition'
<1>1. \A h \in Holder : Holds(h)' = Holds(h)
  BY DEF Holds
<1> QED
  BY <1>1 DEF CustodyInv, Kept, Exclusive, OpenHeld, NoRepetition

LEMMA Dropped ==
  ASSUME TypeOK, CustodyInv, NEW E \in SUBSET EndPoint, DropPools(E),
         UNCHANGED <<spare, conn, held>>
  PROVE  Kept /\ NoRepetition'
<1> DEFINE A == {PoolOf(e) : e \in EndPoint}
<1>1. \A e \in EndPoint : pool'[e] = IF e \in E THEN << >> ELSE pool[e]
  BY DEF DropPools
<1>2. \A s \in Socket : remote'[s] = IF \E e \in E : s \in ToSet(pool[e]) THEN NoEndPoint
                                     ELSE remote[s]
  BY DEF DropPools, Close
<1>3. \A e \in EndPoint : ToSet(pool'[e]) = IF e \in E THEN {} ELSE ToSet(pool[e])
  BY <1>1 DEF ToSet
<1>4. \A e \in EndPoint : Holds(PoolOf(e)) = ToSet(pool[e]) /\ Holds(PoolOf(e))' = ToSet(pool'[e])
  BY HolderKinds, HolderKindsPrime
<1>5. \A h \in Holder \ A : Holds(h)' = Holds(h)
  BY DEF Holder, Holds, PoolOf, SpareOf, ConnOf, HeldBy
<1>6. A \in SUBSET Holder
  BY DEF Holder
<1>7. \A h \in A : \A s \in Holds(h)' : s \in Holds(h)
  BY <1>3, <1>4
<1>8. \A h, k \in A : \A s \in Holds(h)' \intersect Holds(k)' : h = k
  BY <1>6, <1>7 DEF CustodyInv, Exclusive
<1>9. ASSUME NEW s \in Socket
      PROVE  remote'[s] = IF /\ \E h \in A : s \in Holds(h)
                             /\ \A h \in A : s \notin Holds(h)'
                          THEN NoEndPoint ELSE remote[s]
  <2>1. CASE \E e \in E : s \in ToSet(pool[e])
    <3>1. PICK e \in E : s \in ToSet(pool[e])
      BY <2>1
    <3>2. \A d \in EndPoint : s \in ToSet(pool[d]) => d = e
      BY <3>1 DEF CustodyInv, FiledUnderPeer
    <3>3. \A d \in EndPoint : s \notin ToSet(pool'[d])
      BY <1>3, <3>1, <3>2
    <3> QED
      BY <1>2, <1>4, <3>1, <3>3
  <2>2. CASE ~\E e \in E : s \in ToSet(pool[e])
    BY <1>2, <1>3, <1>4, <2>2
  <2> QED
    BY <2>1, <2>2
<1> HIDE DEF A
<1>10. Kept
  BY <1>5, <1>6, <1>7, <1>8, <1>9, Redistribute DEF CustodyInv, Kept
<1>11. NoRepetition'
  BY <1>1 DEF CustodyInv, NoRepetition, Distinct
<1> QED
  BY <1>10, <1>11

\* The holder h closes all its connections.
LEMMA LetGo ==
  ASSUME CustodyInv, NEW h \in Holder, Holds(h)' = {}, Close(Holds(h)),
         \A k \in Holder \ {h} : Holds(k)' = Holds(k)
  PROVE  Kept
<1>1. \A s \in Socket : remote'[s] = IF s \in Holds(h) THEN NoEndPoint ELSE remote[s]
  BY DEF Close
<1> DEFINE A == {h}
<1>2. /\ \A k \in A : \A s \in Holds(k)' : \E i \in A : s \in Holds(i)
      /\ \A i, k \in A : \A s \in Holds(i)' \intersect Holds(k)' : i = k
      /\ A \in SUBSET Holder
      /\ \A k \in Holder \ A : Holds(k)' = Holds(k)
  OBVIOUS
<1>3. \A s \in Socket :
           remote'[s] = IF /\ \E k \in A : s \in Holds(k)
                           /\ \A k \in A : s \notin Holds(k)'
                        THEN NoEndPoint ELSE remote[s]
  BY <1>1
<1> HIDE DEF A
<1> QED
  BY <1>2, <1>3, Redistribute DEF CustodyInv, Kept

\* The holder h passes a connection on to the holder k, which has none.
LEMMA PassOn ==
  ASSUME CustodyInv, NEW h \in Holder, NEW k \in Holder, h # k, NEW s \in Holds(h),
         Holds(k) = {}, Holds(k)' = {s}, Holds(h)' = Holds(h) \ {s}, remote' = remote,
         \A i \in Holder \ {h, k} : Holds(i)' = Holds(i)
  PROVE  Kept
<1> DEFINE A == {h, k}
<1>1. /\ \A i \in A : \A c \in Holds(i)' : \E j \in A : c \in Holds(j)
      /\ \A i, j \in A : \A c \in Holds(i)' \intersect Holds(j)' : i = j
      /\ A \in SUBSET Holder
      /\ \A i \in Holder \ A : Holds(i)' = Holds(i)
  OBVIOUS
<1>2. \A c \in Socket :
           remote'[c] = IF /\ \E i \in A : c \in Holds(i)
                           /\ \A i \in A : c \notin Holds(i)'
                        THEN NoEndPoint ELSE remote[c]
  OBVIOUS
<1> HIDE DEF A
<1> QED
  BY <1>1, <1>2, Redistribute DEF CustodyInv, Kept

\* The connections of h join the pool of e, which is trimmed.
LEMMA Deposited ==
  ASSUME TypeOK, CustodyInv, NEW e \in EndPoint, NEW h \in Holder, h # PoolOf(e),
         NEW p \in Seq(Socket), Distinct(p), ToSet(p) = ToSet(pool[e]) \union Holds(h),
         pool' = [pool EXCEPT ![e] = Trim(p)], Close(Trimmed(p)),
         Holds(h)' = {}, \A k \in Holder \ {h, PoolOf(e)} : Holds(k)' = Holds(k)
  PROVE  Kept /\ \A d \in EndPoint : Distinct(pool'[d])
<1> DEFINE A == {h, PoolOf(e)}
<1>1. /\ Trim(p) \in Seq(Socket) /\ Distinct(Trim(p)) /\ ToSet(Trim(p)) \subseteq ToSet(p)
      /\ Trimmed(p) = ToSet(p) \ ToSet(Trim(p))
  BY TrimDistinct
<1>2. pool'[e] = Trim(p) /\ \A d \in EndPoint \ {e} : pool'[d] = pool[d]
  BY DEF TypeOK
<1>3. /\ PoolOf(e) \in Holder
      /\ Holds(PoolOf(e)) = ToSet(pool[e]) /\ Holds(PoolOf(e))' = ToSet(Trim(p))
  BY <1>2, HolderKinds, HolderKindsPrime
<1>4. \A s \in Socket : remote'[s] = IF s \in Trimmed(p) THEN NoEndPoint ELSE remote[s]
  BY DEF Close
<1>5. /\ \A i \in A : \A c \in Holds(i)' : \E j \in A : c \in Holds(j)
      /\ \A i, j \in A : \A c \in Holds(i)' \intersect Holds(j)' : i = j
      /\ A \in SUBSET Holder
      /\ \A i \in Holder \ A : Holds(i)' = Holds(i)
  BY <1>1, <1>3
<1>6. \A c \in Socket :
           remote'[c] = IF /\ \E i \in A : c \in Holds(i)
                           /\ \A i \in A : c \notin Holds(i)'
                        THEN NoEndPoint ELSE remote[c]
  BY <1>1, <1>3, <1>4
<1> HIDE DEF A
<1>7. Kept
  BY <1>5, <1>6, Redistribute DEF CustodyInv, Kept
<1> QED
  BY <1>1, <1>2, <1>7 DEF CustodyInv, NoRepetition

\* The rest of the invariant follows from where the connections of pools and
\* threads come from.
LEMMA Filed ==
  ASSUME CustodyInv, Kept, Hands', NoRepetition',
         \A e \in EndPoint : \A s \in ToSet(pool'[e]) : s \in ToSet(pool[e]) \/ remote[s] = e,
         \A a \in Actor :
           \/ spare'[a] = << >> /\ conn'[a] = NoSocket
           \/ /\ spare'[a] \in {spare[a], << >>} /\ conn'[a] \in {conn[a], NoSocket}
              /\ cur'[a] = cur[a]
  PROVE  CustodyInv'
<1>1. ASSUME NEW e \in EndPoint, NEW s \in ToSet(pool'[e]) PROVE remote'[s] = e
  <2>1. remote'[s] = remote[s]
    BY <1>1, HolderKinds, HolderKindsPrime DEF Kept
  <2> QED
    BY <1>1, <2>1 DEF CustodyInv, FiledUnderPeer
<1>2. ASSUME NEW a \in Actor, NEW s \in ToSet(spare'[a]) \union ({conn'[a]} \ {NoSocket})
      PROVE  remote'[s] = cur'[a]
  <2>1. remote'[s] = remote[s]
    BY <1>2, HolderKinds, HolderKindsPrime DEF Kept
  <2>2. ToSet(<< >>) = {}
    BY DEF ToSet
  <2>3. s \in ToSet(spare[a]) \union ({conn[a]} \ {NoSocket}) /\ cur'[a] = cur[a]
    BY <1>2, <2>2
  <2> QED
    BY <2>1, <2>3 DEF CustodyInv, FiledUnderPeer
<1> QED
  BY <1>1, <1>2 DEF CustodyInv, Kept, FiledUnderPeer

-------------------------------------------------------------------------------
(* The steps *)

\* Steps that leave the connections alone keep the invariant if they leave the
\* threads in hand of them where they are.
LEMMA Unmoved ==
  ASSUME CustodyInv, UNCHANGED <<pool, spare, conn, held, remote>>, Hands',
         \A a \in Actor : cur'[a] = cur[a] \/ (spare[a] = << >> /\ conn[a] = NoSocket)
  PROVE  CustodyInv'
<1>1. Kept /\ NoRepetition'
  BY SameHolders
<1>2. \A e \in EndPoint : \A s \in ToSet(pool'[e]) : s \in ToSet(pool[e])
  OBVIOUS
<1> QED
  BY <1>1, <1>2, Filed

\* ... as do those that swap pools out.
LEMMA SwappedOut ==
  ASSUME TypeOK, CustodyInv, NEW E \in SUBSET EndPoint, DropPools(E),
         UNCHANGED <<spare, conn, held>>, Hands',
         \A a \in Actor : cur'[a] = cur[a] \/ (spare[a] = << >> /\ conn[a] = NoSocket)
  PROVE  CustodyInv'
<1>1. Kept /\ NoRepetition'
  BY Dropped
<1>2. \A e \in EndPoint : \A s \in ToSet(pool'[e]) : s \in ToSet(pool[e])
  BY DEF DropPools, ToSet
<1> QED
  BY <1>1, <1>2, Filed

\* A thread that is not in hand of connections moves on.
LEMMA HandsStay ==
  ASSUME TypeOK, CustodyInv, NEW a \in Actor, NEW label, Goto(a, label),
         pc[a] \notin {"get_connected", "probe_connected", "fill", "fill_insert"},
         label \in GetPC => a \in Caller /\ held[a] = NoSocket,
         UNCHANGED <<spare, conn, held>>
  PROVE  Hands'
BY DEF TypeOK, CustodyInv, Hands, Goto

LEMMA OwnerSteps ==
  ASSUME TypeOK, CustodyInv, Construct \/ StopProbe \/ Destroy \/ ProbeTimer
  PROVE  CustodyInv'
<1>1. CASE Construct
  BY <1>1, Unmoved DEF Construct, probeVars, CustodyInv, Hands
<1>2. CASE StopProbe
  BY <1>2, Unmoved DEF StopProbe, probeVars, CustodyInv, Hands
<1>3. CASE Destroy
  BY <1>3, SwappedOut DEF Destroy, probeVars, CustodyInv, Hands
<1>4. CASE ProbeTimer
  <2>1. Hands'
    BY <1>4, HandsStay DEF ProbeTimer, probeVars, Actor, GetPC
  <2> QED
    BY <1>4, <2>1, Unmoved DEF ProbeTimer, probeVars, poolVars
<1> QED
  BY <1>1, <1>2, <1>3, <1>4

LEMMA ServerSteps ==
  ASSUME TypeOK, CustodyInv, ServerStep
  PROVE  CustodyInv'
<1>1. UNCHANGED <<pool, spare, conn, held, remote, pc, cur>>
  BY DEF ServerStep, ServerDown, ServerUp, ServerClose, poolVars, probeVars
<1> QED
  BY <1>1, Unmoved DEF CustodyInv, Hands

\* The operations of a caller that do not hand connections over.
LEMMA RegisterSteps ==
  ASSUME TypeOK, PCInv, CustodyInv, NEW c \in Caller,
         \/ \E e \in EndPoint : Add(c, e) \/ Del(c, e) \/ GetMiss(c, e)
         \/ \E E \in SUBSET EndPoint : AddAll(c, E)
         \/ Clear(c) \/ GetFailed(c)
  PROVE  CustodyInv'
<1>0. c \in Actor
  BY DEF Actor
<1>1. ASSUME NEW E \in SUBSET EndPoint, Register(E), Goto(c, "scan"), pc[c] = "idle",
             UNCHANGED <<spare, conn, held, cur>>
      PROVE  CustodyInv'
  <2>1. Hands'
    BY <1>0, <1>1, HandsStay DEF GetPC
  <2> QED
    BY <1>1, <2>1, SwappedOut DEF Register, ToAdd
<1>2. ASSUME NEW e \in EndPoint, Add(c, e) PROVE CustodyInv'
  BY <1>1, <1>2 DEF Add, Calling, probeVars
<1>3. ASSUME NEW E \in SUBSET EndPoint, AddAll(c, E) PROVE CustodyInv'
  BY <1>1, <1>3 DEF AddAll, Calling, probeVars
<1>4. ASSUME NEW e \in EndPoint, Del(c, e) PROVE CustodyInv'
  BY <1>4, SwappedOut DEF Del, probeVars, CustodyInv, Hands
<1>5. ASSUME NEW e \in EndPoint, GetMiss(c, e) PROVE CustodyInv'
  <2>1. Hands'
    BY <1>0, <1>5, HandsStay DEF GetMiss, Calling, probeVars
  <2>2. spare[c] = << >> /\ conn[c] = NoSocket
    BY <1>0, <1>5 DEF GetMiss, Calling, CustodyInv, Hands
  <2>3. \A a \in Actor : a # c => cur'[a] = cur[a]
    BY <1>5 DEF GetMiss, TypeOK
  <2> QED
    BY <1>5, <2>1, <2>2, <2>3, SwappedOut DEF GetMiss, probeVars
<1>6. CASE Clear(c)
  BY <1>6, SwappedOut DEF Clear, probeVars, CustodyInv, Hands
<1>7. CASE GetFailed(c)
  <2>1. Hands'
    BY <1>0, <1>7, HandsStay DEF GetFailed, probeVars, GetPC
  <2>2. spare[c] = << >> /\ conn[c] = NoSocket
    BY <1>0, <1>7 DEF GetFailed, CustodyInv, Hands
  <2>3. \A a \in Actor : a # c => cur'[a] = cur[a]
    BY <1>7 DEF GetFailed, TypeOK
  <2>4. cur[c] \in EndPoint
    BY <1>0, <1>7 DEF GetFailed, PCInv
  <2> QED
    BY <1>7, <2>1, <2>2, <2>3, <2>4, SwappedOut DEF GetFailed, probeVars
<1> QED
  BY <1>2, <1>3, <1>4, <1>5, <1>6, <1>7

\* A caller takes the newest connection of a pool.
LEMMA GetPooledStep ==
  ASSUME TypeOK, CustodyInv, NEW c \in Caller, NEW e \in EndPoint, GetPooled(c, e)
  PROVE  CustodyInv'
<1> DEFINE s == Last(pool[e])
<1>1. /\ pool[e] \in Seq(Socket) /\ Distinct(pool[e]) /\ pool[e] # << >> /\ held[c] = NoSocket
      /\ pool' = [pool EXCEPT ![e] = Front(pool[e])] /\ held' = [held EXCEPT ![c] = s]
      /\ UNCHANGED <<pc, cur, conn, spare, remote>>
  BY DEF GetPooled, Usable, TypeOK, CustodyInv, NoRepetition, probeVars
<1>2. /\ Front(pool[e]) \in Seq(Socket) /\ Distinct(Front(pool[e])) /\ s \in Socket
      /\ s \notin ToSet(Front(pool[e]))
      /\ ToSet(pool[e]) = ToSet(Front(pool[e])) \union {s}
  BY <1>1, FrontDistinct
<1> HIDE DEF s
<1>3. /\ pool'[e] = Front(pool[e]) /\ \A d \in EndPoint : d # e => pool'[d] = pool[d]
      /\ held'[c] = s /\ \A d \in Caller : d # c => held'[d] = held[d]
  BY <1>1 DEF TypeOK
<1>4. /\ PoolOf(e) \in Holder /\ HeldBy(c) \in Holder /\ PoolOf(e) # HeldBy(c)
      /\ s \in Holds(PoolOf(e)) /\ Holds(PoolOf(e))' = Holds(PoolOf(e)) \ {s}
      /\ Holds(HeldBy(c)) = {} /\ Holds(HeldBy(c))' = {s}
  <2>1. PoolOf(e) # HeldBy(c)
    BY DEF PoolOf, HeldBy
  <2> QED
    BY <1>1, <1>2, <1>3, <2>1, HolderKinds, HolderKindsPrime, NamesAssumption
<1>5. \A i \in Holder \ {PoolOf(e), HeldBy(c)} : Holds(i)' = Holds(i)
  <2>1. \A d \in EndPoint : d # e => Holds(PoolOf(d))' = Holds(PoolOf(d))
    BY <1>3, HolderKinds, HolderKindsPrime
  <2>2. ASSUME NEW d \in Caller, d # c PROVE Holds(HeldBy(d))' = Holds(HeldBy(d))
    <3>1. held'[d] = held[d]
      BY <1>3, <2>2
    <3> QED
      BY <3>1, HolderKinds, HolderKindsPrime
  <2>3. \A a \in Actor : /\ Holds(SpareOf(a))' = Holds(SpareOf(a))
                         /\ Holds(ConnOf(a))' = Holds(ConnOf(a))
    BY <1>1, HolderKinds, HolderKindsPrime
  <2> QED
    BY <2>1, <2>2, <2>3 DEF Holder
<1>6. Kept
  BY <1>1, <1>4, <1>5, PassOn
<1>7. NoRepetition'
  BY <1>1, <1>2, <1>3 DEF CustodyInv, NoRepetition
<1>8. pc[c] = "idle" /\ Hands'
  <2>1. pc[c] = "idle"
    BY DEF GetPooled, Calling
  <2> QED
    BY <1>1, <1>3, <2>1 DEF CustodyInv, Hands, GetPC
<1>9. \A d \in EndPoint : \A t \in ToSet(pool'[d]) : t \in ToSet(pool[d])
  BY <1>2, <1>3
<1> QED
  BY <1>1, <1>6, <1>7, <1>8, <1>9, Filed

\* The connection that get() has made is its caller's.
LEMMA GetConnectedStep ==
  ASSUME TypeOK, PCInv, CustodyInv, NEW c \in Caller, GetConnected(c)
  PROVE  CustodyInv'
<1> DEFINE s == conn[c]
<1>0. c \in Actor
  BY DEF Actor
<1>1. /\ pc[c] = "get_connected" /\ s \in Socket /\ held[c] = NoSocket
      /\ conn' = [conn EXCEPT ![c] = NoSocket] /\ held' = [held EXCEPT ![c] = s]
      /\ pc' = [pc EXCEPT ![c] = "idle"] /\ cur' = [cur EXCEPT ![c] = NoEndPoint]
      /\ UNCHANGED <<pool, spare, remote>>
  BY <1>0 DEF GetConnected, Goto, PCInv, CustodyInv, Hands, GetPC, poolVars, probeVars
<1> HIDE DEF s
<1>2. /\ conn'[c] = NoSocket /\ \A d \in Actor : d # c => conn'[d] = conn[d] /\ cur'[d] = cur[d]
      /\ held'[c] = s /\ \A d \in Caller : d # c => held'[d] = held[d]
      /\ pc'[c] = "idle" /\ \A d \in Actor : d # c => pc'[d] = pc[d]
  BY <1>0, <1>1 DEF TypeOK
<1>3. /\ ConnOf(c) \in Holder /\ HeldBy(c) \in Holder /\ ConnOf(c) # HeldBy(c)
      /\ Holds(ConnOf(c)) = {s} /\ Holds(ConnOf(c))' = {}
      /\ Holds(HeldBy(c)) = {} /\ Holds(HeldBy(c))' = {s}
  <2>1. ConnOf(c) # HeldBy(c)
    BY DEF ConnOf, HeldBy
  <2> QED
    BY <1>0, <1>1, <1>2, <2>1, HolderKinds, HolderKindsPrime, NamesAssumption DEF s
<1>4. \A i \in Holder \ {ConnOf(c), HeldBy(c)} : Holds(i)' = Holds(i)
  BY <1>1, <1>2 DEF Holder, Holds, PoolOf, SpareOf, ConnOf, HeldBy
<1>5. Kept
  BY <1>1, <1>3, <1>4, PassOn
<1>6. NoRepetition'
  BY <1>1 DEF CustodyInv, NoRepetition
<1>7. spare[c] = << >>
  BY <1>0, <1>1 DEF CustodyInv, Hands
<1>8. Hands'
  BY <1>1, <1>2, <1>7 DEF CustodyInv, Hands, GetPC
<1> QED
  BY <1>1, <1>2, <1>5, <1>6, <1>7, <1>8, Filed

\* A caller hands its connection over to the pool, or closes it.
LEMMA PutSteps ==
  ASSUME TypeOK, CustodyInv, NEW c \in Caller, Put(c) \/ CallerClose(c)
  PROVE  CustodyInv'
<1> DEFINE s == held[c]
           e == remote[s]
           p == Append(pool[e], s)
           accepted == Put(c) /\ Accepts(e)
<1>0. c \in Actor
  BY DEF Actor
<1>1. /\ s \in Socket /\ pc[c] = "idle" /\ held' = [held EXCEPT ![c] = NoSocket]
      /\ UNCHANGED <<pc, cur, conn, spare>>
  BY DEF Put, CallerClose, Calling, probeVars, TypeOK
<1>2. /\ held'[c] = NoSocket /\ \A d \in Caller : d # c => held'[d] = held[d]
  BY <1>1 DEF TypeOK
<1>3. /\ HeldBy(c) \in Holder /\ Holds(HeldBy(c)) = {s} /\ Holds(HeldBy(c))' = {}
  BY <1>1, <1>2, HolderKinds, HolderKindsPrime, NamesAssumption
<1>4. e \in EndPoint
  BY <1>1, <1>3 DEF CustodyInv, OpenHeld, TypeOK
<1>5. Hands'
  BY <1>1, <1>2 DEF CustodyInv, Hands, GetPC
<1>6. CASE ~accepted
  <2>1. UNCHANGED pool /\ Close(Holds(HeldBy(c)))
    BY <1>3, <1>6 DEF Put, CallerClose, poolVars
  <2>2. \A k \in Holder \ {HeldBy(c)} : Holds(k)' = Holds(k)
    BY <1>1, <1>2, <2>1 DEF Holder, Holds, PoolOf, SpareOf, ConnOf, HeldBy
  <2>3. Kept
    BY <1>3, <2>1, <2>2, LetGo
  <2>4. NoRepetition'
    BY <1>1, <2>1 DEF CustodyInv, NoRepetition
  <2> QED
    BY <1>1, <1>5, <2>1, <2>3, <2>4, Filed
<1>7. CASE accepted
  <2>1. pool' = [pool EXCEPT ![e] = Trim(p)] /\ Close(Trimmed(p))
    BY <1>7 DEF Put
  <2>2. pool[e] \in Seq(Socket) /\ Distinct(pool[e])
    BY <1>4 DEF TypeOK, CustodyInv, NoRepetition
  <2>3. PoolOf(e) \in Holder /\ Holds(PoolOf(e)) = ToSet(pool[e]) /\ PoolOf(e) # HeldBy(c)
    <3>1. PoolOf(e) # HeldBy(c)
      BY DEF PoolOf, HeldBy
    <3> QED
      BY <1>4, <3>1, HolderKinds
  <2>4. s \notin ToSet(pool[e])
    BY <1>3, <2>3 DEF CustodyInv, Exclusive
  <2>5. p \in Seq(Socket) /\ Distinct(p) /\ ToSet(p) = ToSet(pool[e]) \union Holds(HeldBy(c))
    BY <1>1, <1>3, <2>2, <2>4, AppendDistinct
  <2>6. \A d \in EndPoint : pool'[d] = IF d = e THEN Trim(p) ELSE pool[d]
    BY <2>1 DEF TypeOK
  <2> HIDE DEF p, s, e
  <2>7. \A k \in Holder \ {HeldBy(c), PoolOf(e)} : Holds(k)' = Holds(k)
    BY <1>1, <1>2, <2>6 DEF Holder, Holds, PoolOf, SpareOf, ConnOf, HeldBy
  <2>8. Kept /\ \A d \in EndPoint : Distinct(pool'[d])
    BY <1>3, <1>4, <2>1, <2>3, <2>5, <2>7, Deposited
  <2>9. NoRepetition'
    BY <1>1, <2>8 DEF CustodyInv, NoRepetition
  <2>10. \A d \in EndPoint : \A t \in ToSet(pool'[d]) : t \in ToSet(pool[d]) \/ remote[t] = d
    <3>1. ToSet(Trim(p)) \subseteq ToSet(pool[e]) \union {s}
      BY <1>3, <2>5, TrimDistinct
    <3>2. remote[s] = e
      BY DEF e
    <3> QED
      BY <2>6, <3>1, <3>2
  <2> QED
    BY <1>1, <1>5, <2>8, <2>9, <2>10, Filed
<1> QED
  BY <1>6, <1>7

\* The steps of a probe that hand nothing over.
LEMMA ProbeScans ==
  ASSUME TypeOK, PCInv, CustodyInv, NEW a \in Actor,
         Scan(a) \/ (\E e \in EndPoint : Recheck(a, e)) \/ ProbeFailed(a) \/ ProbeDone(a)
  PROVE  CustodyInv'
<1>1. /\ pc[a] \in {"scan", "recheck", "probe_failed"}
      /\ spare[a] = << >> /\ conn[a] = NoSocket
      /\ \A b \in Actor : b # a => cur'[b] = cur[b]
      /\ UNCHANGED <<spare, conn, held>>
  <2>1. /\ pc[a] \in {"scan", "recheck", "probe_failed"} /\ UNCHANGED <<spare, conn, held>>
        /\ cur' \in {cur, [cur EXCEPT ![a] = NoEndPoint]} \/ \E e \in EndPoint : cur' = [cur EXCEPT ![a] = e]
    BY DEF Scan, Recheck, ProbeFailed, ProbeDone, probeVars
  <2> QED
    BY <2>1 DEF TypeOK, CustodyInv, Hands
<1>2. Hands'
  <2>1. UNCHANGED pc \/ \E label \in {"recheck", "connect", "idle"} : Goto(a, label)
    BY DEF Scan, Recheck, ProbeFailed, ProbeDone
  <2>2. CASE UNCHANGED pc
    BY <1>1, <2>2 DEF CustodyInv, Hands
  <2>3. CASE \E label \in {"recheck", "connect", "idle"} : Goto(a, label)
    BY <1>1, <2>3, HandsStay DEF GetPC
  <2> QED
    BY <2>1, <2>2, <2>3
<1>3. CASE Scan(a)
  <2>1. PICK E \in SUBSET EndPoint : DropPools(E)
    BY <1>3 DEF Scan, Gone
  <2> QED
    BY <1>1, <1>2, <2>1, SwappedOut
<1>4. CASE UNCHANGED <<pool, remote>>
  BY <1>1, <1>2, <1>4, Unmoved
<1>5. CASE ProbeFailed(a)
  <2>1. cur[a] \in EndPoint
    BY <1>5 DEF ProbeFailed, PCInv
  <2>2. UNCHANGED <<pool, remote>> \/ DropPools({cur[a]})
    BY <1>5 DEF ProbeFailed
  <2> QED
    BY <1>1, <1>2, <1>4, <2>1, <2>2, SwappedOut
<1> QED
  BY <1>3, <1>4, <1>5 DEF Recheck, ProbeDone, poolVars

\* A probe hands over the connection it has made, or closes it.
LEMMA ProbeConnectedStep ==
  ASSUME TypeOK, PCInv, CustodyInv, NEW a \in Actor, ProbeConnected(a)
  PROVE  CustodyInv'
<1> DEFINE s == conn[a]
           e == cur[a]
           p == Append(pool[e], s)
<1>1. /\ pc[a] = "probe_connected" /\ s \in Socket /\ e \in EndPoint
      /\ conn' = [conn EXCEPT ![a] = NoSocket] /\ UNCHANGED <<spare, held>>
      /\ \E label \in {"fill", "recheck"} : pc' = [pc EXCEPT ![a] = label]
      /\ \E f \in {e, NoEndPoint} : cur' = [cur EXCEPT ![a] = f]
  BY DEF ProbeConnected, Goto, PCInv
<1>2. /\ conn'[a] = NoSocket
      /\ \A b \in Actor : b # a => conn'[b] = conn[b] /\ cur'[b] = cur[b] /\ pc'[b] = pc[b]
      /\ pc'[a] \in {"fill", "recheck"}
  BY <1>1 DEF TypeOK
<1>3. ConnOf(a) \in Holder /\ Holds(ConnOf(a)) = {s} /\ Holds(ConnOf(a))' = {}
  BY <1>1, <1>2, HolderKinds, HolderKindsPrime, NamesAssumption
<1>4. spare[a] = << >> /\ remote[s] = e
  BY <1>1, NamesAssumption DEF CustodyInv, Hands, FiledUnderPeer
<1>5. Hands'
  BY <1>1, <1>2, <1>4 DEF CustodyInv, Hands, GetPC
<1>6. CASE status[e] = "kDeleting"
  <2>1. UNCHANGED pool /\ Close(Holds(ConnOf(a)))
    BY <1>3, <1>6 DEF ProbeConnected
  <2>2. \A k \in Holder \ {ConnOf(a)} : Holds(k)' = Holds(k)
    BY <1>1, <1>2, <2>1 DEF Holder, Holds, PoolOf, SpareOf, ConnOf, HeldBy
  <2>3. Kept
    BY <1>3, <2>1, <2>2, LetGo
  <2>4. NoRepetition'
    BY <1>1, <2>1 DEF CustodyInv, NoRepetition
  <2> QED
    BY <1>1, <1>2, <1>4, <1>5, <2>1, <2>3, <2>4, Filed
<1>7. CASE status[e] # "kDeleting"
  <2>1. pool' = [pool EXCEPT ![e] = Trim(p)] /\ Close(Trimmed(p))
    BY <1>7 DEF ProbeConnected
  <2>2. pool[e] \in Seq(Socket) /\ Distinct(pool[e])
    BY <1>1 DEF TypeOK, CustodyInv, NoRepetition
  <2>3. PoolOf(e) \in Holder /\ Holds(PoolOf(e)) = ToSet(pool[e]) /\ PoolOf(e) # ConnOf(a)
    <3>1. PoolOf(e) # ConnOf(a)
      BY DEF PoolOf, ConnOf
    <3> QED
      BY <1>1, <3>1, HolderKinds
  <2>4. s \notin ToSet(pool[e])
    BY <1>3, <2>3 DEF CustodyInv, Exclusive
  <2>5. p \in Seq(Socket) /\ Distinct(p) /\ ToSet(p) = ToSet(pool[e]) \union Holds(ConnOf(a))
    BY <1>1, <1>3, <2>2, <2>4, AppendDistinct
  <2>6. \A d \in EndPoint : pool'[d] = IF d = e THEN Trim(p) ELSE pool[d]
    BY <2>1 DEF TypeOK
  <2> HIDE DEF p, s, e
  <2>7. \A k \in Holder \ {ConnOf(a), PoolOf(e)} : Holds(k)' = Holds(k)
    BY <1>1, <1>2, <2>6 DEF Holder, Holds, PoolOf, SpareOf, ConnOf, HeldBy
  <2>8. Kept /\ \A d \in EndPoint : Distinct(pool'[d])
    BY <1>1, <1>3, <2>1, <2>3, <2>5, <2>7, Deposited
  <2>9. NoRepetition'
    BY <1>1, <2>8 DEF CustodyInv, NoRepetition
  <2>10. \A d \in EndPoint : \A t \in ToSet(pool'[d]) : t \in ToSet(pool[d]) \/ remote[t] = d
    <3>1. ToSet(Trim(p)) \subseteq ToSet(pool[e]) \union {s}
      BY <1>3, <2>5, TrimDistinct
    <3> QED
      BY <1>4, <2>6, <3>1
  <2> QED
    BY <1>1, <1>2, <1>4, <1>5, <2>8, <2>9, <2>10, Filed
<1> QED
  BY <1>6, <1>7

\* A probe hands over the connections made to fill a pool, or closes them.
LEMMA FillInsertStep ==
  ASSUME TypeOK, PCInv, CustodyInv, NEW a \in Actor, FillInsert(a)
  PROVE  CustodyInv'
<1> DEFINE e == cur[a]
           p == pool[e] \o spare[a]
<1>1. /\ pc[a] = "fill_insert" /\ e \in EndPoint /\ conn[a] = NoSocket
      /\ spare' = [spare EXCEPT ![a] = << >>] /\ UNCHANGED <<conn, held>>
      /\ pc' = [pc EXCEPT ![a] = "recheck"] /\ cur' = [cur EXCEPT ![a] = NoEndPoint]
  BY DEF FillInsert, Goto, PCInv, CustodyInv, Hands
<1>2. /\ spare'[a] = << >> /\ pc'[a] = "recheck"
      /\ \A b \in Actor : b # a => spare'[b] = spare[b] /\ cur'[b] = cur[b] /\ pc'[b] = pc[b]
  BY <1>1 DEF TypeOK
<1>3. SpareOf(a) \in Holder /\ Holds(SpareOf(a)) = ToSet(spare[a]) /\ Holds(SpareOf(a))' = {}
  <2>1. ToSet(<< >>) = {}
    BY DEF ToSet
  <2> QED
    BY <1>2, <2>1, HolderKinds, HolderKindsPrime
<1>4. \A t \in ToSet(spare[a]) : remote[t] = e
  BY DEF CustodyInv, FiledUnderPeer
<1>5. Hands'
  BY <1>1, <1>2 DEF CustodyInv, Hands, GetPC
<1>6. \A b \in Actor : Distinct(spare'[b])
  BY <1>2 DEF CustodyInv, NoRepetition, Distinct
<1>7. CASE ~Accepts(e)
  <2>1. UNCHANGED pool /\ Close(Holds(SpareOf(a)))
    BY <1>3, <1>7 DEF FillInsert
  <2>2. \A k \in Holder \ {SpareOf(a)} : Holds(k)' = Holds(k)
    BY <1>1, <1>2, <2>1 DEF Holder, Holds, PoolOf, SpareOf, ConnOf, HeldBy
  <2>3. Kept
    BY <1>3, <2>1, <2>2, LetGo
  <2>4. NoRepetition'
    BY <1>6, <2>1 DEF CustodyInv, NoRepetition
  <2> QED
    BY <1>1, <1>2, <1>5, <2>1, <2>3, <2>4, Filed
<1>8. CASE Accepts(e)
  <2>1. pool' = [pool EXCEPT ![e] = Trim(p)] /\ Close(Trimmed(p))
    BY <1>8 DEF FillInsert
  <2>2. /\ pool[e] \in Seq(Socket) /\ Distinct(pool[e])
        /\ spare[a] \in Seq(Socket) /\ Distinct(spare[a])
    BY <1>1 DEF TypeOK, CustodyInv, NoRepetition
  <2>3. PoolOf(e) \in Holder /\ Holds(PoolOf(e)) = ToSet(pool[e]) /\ PoolOf(e) # SpareOf(a)
    <3>1. PoolOf(e) # SpareOf(a)
      BY DEF PoolOf, SpareOf
    <3> QED
      BY <1>1, <3>1, HolderKinds
  <2>4. ToSet(pool[e]) \intersect ToSet(spare[a]) = {}
    BY <1>3, <2>3 DEF CustodyInv, Exclusive
  <2>5. p \in Seq(Socket) /\ Distinct(p) /\ ToSet(p) = ToSet(pool[e]) \union Holds(SpareOf(a))
    BY <1>3, <2>2, <2>4, JoinDistinct
  <2>6. \A d \in EndPoint : pool'[d] = IF d = e THEN Trim(p) ELSE pool[d]
    BY <2>1 DEF TypeOK
  <2> HIDE DEF p, e
  <2>7. \A k \in Holder \ {SpareOf(a), PoolOf(e)} : Holds(k)' = Holds(k)
    BY <1>1, <1>2, <2>6 DEF Holder, Holds, PoolOf, SpareOf, ConnOf, HeldBy
  <2>8. Kept /\ \A d \in EndPoint : Distinct(pool'[d])
    BY <1>1, <1>3, <2>1, <2>3, <2>5, <2>7, Deposited
  <2>9. NoRepetition'
    BY <1>6, <2>8 DEF NoRepetition
  <2>10. \A d \in EndPoint : \A t \in ToSet(pool'[d]) : t \in ToSet(pool[d]) \/ remote[t] = d
    <3>1. ToSet(Trim(p)) \subseteq ToSet(pool[e]) \union ToSet(spare[a])
      BY <1>3, <2>5, TrimDistinct
    <3> QED
      BY <1>4, <2>6, <3>1
  <2> QED
    BY <1>1, <1>2, <1>5, <2>8, <2>9, <2>10, Filed
<1> QED
  BY <1>7, <1>8

\* The holder h gets a connection that was closed.
LEMMA Opened ==
  ASSUME CustodyInv, NEW h \in Holder, NEW s \in Socket, remote[s] = NoEndPoint,
         NEW e \in EndPoint, \A t \in Socket : remote'[t] = IF t = s THEN e ELSE remote[t],
         Holds(h)' = Holds(h) \union {s}, \A k \in Holder \ {h} : Holds(k)' = Holds(k)
  PROVE  Exclusive' /\ OpenHeld'
<1>1. \A k \in Holder : s \notin Holds(k)
  BY DEF CustodyInv, OpenHeld
<1>2. Exclusive'
  BY <1>1 DEF CustodyInv, Exclusive
<1>3. e # NoEndPoint
  BY NamesAssumption
<1>4. ASSUME NEW k \in Holder PROVE Holds(k)' \subseteq Socket
  BY DEF CustodyInv, OpenHeld
<1>5. ASSUME NEW t \in Socket
      PROVE  remote'[t] # NoEndPoint <=> \E k \in Holder : t \in Holds(k)'
  <2>1. CASE t = s
    BY <1>3, <2>1
  <2>2. CASE t # s
    <3>1. \A k \in Holder : t \in Holds(k)' <=> t \in Holds(k)
      BY <2>2
    <3> QED
      BY <2>2, <3>1 DEF CustodyInv, OpenHeld
  <2> QED
    BY <2>1, <2>2
<1> QED
  BY <1>2, <1>4, <1>5 DEF OpenHeld

LEMMA ConnectSteps ==
  ASSUME TypeOK, PCInv, CustodyInv, NEW a \in Actor, ConnectStep(a)
  PROVE  CustodyInv'
<1>1. CASE ConnectFail(a)
  <2>1. /\ UNCHANGED <<pool, spare, conn, held, remote, cur>> /\ conn[a] = NoSocket
        /\ spare[a] # << >> => pc'[a] = "fill_insert"
        /\ \A b \in Actor : b # a => pc'[b] = pc[b]
        /\ pc'[a] \in GetPC => pc[a] \in GetPC
    BY <1>1 DEF ConnectFail, ConnectPC, Goto, GetPC, poolVars, probeVars, TypeOK, CustodyInv, Hands
  <2>2. Hands'
    BY <2>1 DEF CustodyInv, Hands
  <2> QED
    BY <2>1, <2>2, Unmoved
<1>2. CASE ConnectOk(a)
  <2>1. PICK s \in Socket :
          /\ remote[s] = NoEndPoint /\ remote' = [remote EXCEPT ![s] = cur[a]]
          /\ IF pc[a] = "fill"
               THEN spare' = [spare EXCEPT ![a] = Append(@, s)] /\ UNCHANGED conn
               ELSE conn' = [conn EXCEPT ![a] = s] /\ UNCHANGED spare
    BY <1>2 DEF ConnectOk
  <2>2. /\ pc[a] \in ConnectPC /\ cur[a] \in EndPoint /\ conn[a] = NoSocket
        /\ UNCHANGED <<pool, held, cur>>
        /\ \A b \in Actor : b # a => pc'[b] = pc[b]
        /\ pc'[a] \in GetPC => pc[a] \in GetPC
        /\ pc'[a] \in IF pc[a] = "fill" THEN {"fill", "fill_insert"}
                      ELSE {"get_connected", "probe_connected"}
    BY <1>2 DEF ConnectOk, ConnectPC, Goto, GetPC, poolVars, PCInv, TypeOK, CustodyInv, Hands
  <2>3. \A t \in Socket : remote'[t] = IF t = s THEN cur[a] ELSE remote[t]
    BY <2>1 DEF TypeOK
  <2>4. \A k \in Holder : s \notin Holds(k)
    BY <2>1 DEF CustodyInv, OpenHeld
  <2>5. /\ \A e \in EndPoint : s \notin ToSet(pool[e])
        /\ \A b \in Actor : s \notin ToSet(spare[b]) /\ s # conn[b]
    BY <2>4, HolderKinds, NamesAssumption
  <2>6. ASSUME \A b \in Actor :
                 \A t \in ToSet(spare'[b]) \union ({conn'[b]} \ {NoSocket}) :
                   (b = a /\ t = s) \/ t \in ToSet(spare[b]) \union ({conn[b]} \ {NoSocket})
        PROVE  FiledUnderPeer'
    <3>1. \A e \in EndPoint : \A t \in ToSet(pool[e]) : t \in Socket /\ remote[t] = e
      BY HolderKinds DEF CustodyInv, OpenHeld, FiledUnderPeer
    <3>2. \A b \in Actor : \A t \in ToSet(spare[b]) \union ({conn[b]} \ {NoSocket}) :
            t \in Socket /\ remote[t] = cur[b]
      BY HolderKinds DEF CustodyInv, OpenHeld, FiledUnderPeer
    <3>3. \A e \in EndPoint : \A t \in ToSet(pool'[e]) : remote'[t] = e
      BY <2>2, <2>3, <2>5, <3>1
    <3>4. \A b \in Actor : \A t \in ToSet(spare'[b]) \union ({conn'[b]} \ {NoSocket}) :
            remote'[t] = cur'[b]
      BY <2>2, <2>3, <2>5, <2>6, <3>2
    <3> QED
      BY <3>3, <3>4 DEF FiledUnderPeer
  <2>7. CASE pc[a] = "fill"
    <3>1. spare[a] \in Seq(Socket) /\ Distinct(spare[a])
      BY DEF TypeOK, CustodyInv, NoRepetition
    <3>2. /\ spare'[a] = Append(spare[a], s) /\ \A b \in Actor : b # a => spare'[b] = spare[b]
          /\ conn' = conn
      BY <2>1, <2>7 DEF TypeOK
    <3>3. Distinct(spare'[a]) /\ ToSet(spare'[a]) = ToSet(spare[a]) \union {s}
      BY <2>5, <3>1, <3>2, AppendDistinct
    <3>4. SpareOf(a) \in Holder /\ Holds(SpareOf(a))' = Holds(SpareOf(a)) \union {s}
      BY <3>3, HolderKinds, HolderKindsPrime
    <3>5. \A k \in Holder \ {SpareOf(a)} : Holds(k)' = Holds(k)
      BY <2>2, <3>2 DEF Holder, Holds, PoolOf, SpareOf, ConnOf, HeldBy
    <3>6. Exclusive' /\ OpenHeld'
      BY <2>1, <2>2, <2>3, <3>4, <3>5, Opened
    <3>7. Hands'
      BY <2>2, <2>7, <3>2 DEF CustodyInv, Hands
    <3>8. NoRepetition'
      BY <2>2, <3>2, <3>3 DEF CustodyInv, NoRepetition
    <3>9. FiledUnderPeer'
      BY <3>2, <3>3, <2>6
    <3> QED
      BY <3>6, <3>7, <3>8, <3>9 DEF CustodyInv
  <2>8. CASE pc[a] # "fill"
    <3>1. conn'[a] = s /\ \A b \in Actor : b # a => conn'[b] = conn[b]
      BY <2>1, <2>8 DEF TypeOK
    <3>2. spare' = spare /\ spare[a] = << >>
      BY <2>1, <2>2, <2>8 DEF CustodyInv, Hands, ConnectPC
    <3>3. ConnOf(a) \in Holder /\ Holds(ConnOf(a))' = Holds(ConnOf(a)) \union {s}
      BY <2>2, <3>1, HolderKinds, HolderKindsPrime, NamesAssumption
    <3>4. \A k \in Holder \ {ConnOf(a)} : Holds(k)' = Holds(k)
      BY <2>2, <3>1, <3>2 DEF Holder, Holds, PoolOf, SpareOf, ConnOf, HeldBy
    <3>5. Exclusive' /\ OpenHeld'
      BY <2>1, <2>2, <2>3, <3>3, <3>4, Opened
    <3>6. Hands'
      BY <2>2, <2>8, <3>1, <3>2 DEF CustodyInv, Hands
    <3>7. NoRepetition'
      BY <2>2, <3>2 DEF CustodyInv, NoRepetition
    <3>8. FiledUnderPeer'
      BY <3>1, <3>2, <2>6
    <3> QED
      BY <3>5, <3>6, <3>7, <3>8 DEF CustodyInv
  <2> QED
    BY <2>7, <2>8
<1> QED
  BY <1>1, <1>2 DEF ConnectStep

-------------------------------------------------------------------------------
LEMMA CustodyInit == Init => CustodyInv
<1> SUFFICES ASSUME Init PROVE CustodyInv
  OBVIOUS
<1>0. ToSet(<< >>) = {}
  BY DEF ToSet
<1>1. /\ \A e \in EndPoint : pool[e] = << >>
      /\ \A a \in Actor : spare[a] = << >> /\ conn[a] = NoSocket /\ pc[a] = "idle"
      /\ \A c \in Caller : held[c] = NoSocket
      /\ \A s \in Socket : remote[s] = NoEndPoint
  BY DEF Init
<1>2. \A h \in Holder : Holds(h) = {}
  BY <1>0, <1>1, HolderKinds DEF Holder
<1>3. Exclusive /\ OpenHeld
  BY <1>1, <1>2 DEF Exclusive, OpenHeld
<1>4. Hands /\ NoRepetition
  BY <1>1 DEF Hands, NoRepetition, Distinct, GetPC
<1>5. FiledUnderPeer
  BY <1>0, <1>1 DEF FiledUnderPeer
<1> QED
  BY <1>3, <1>4, <1>5 DEF CustodyInv

LEMMA CustodyStep == TypeInv /\ CustodyInv /\ [Next]_vars => CustodyInv'
<1> SUFFICES ASSUME TypeInv, CustodyInv, [Next]_vars PROVE CustodyInv'
  OBVIOUS
<1>0. TypeOK /\ PCInv
  BY DEF TypeInv
<1>1. CASE Construct \/ StopProbe \/ Destroy \/ ProbeTimer
  BY <1>0, <1>1, OwnerSteps
<1>2. ASSUME NEW c \in Caller, CallerStep(c) PROVE CustodyInv'
  BY <1>0, <1>2, RegisterSteps, GetPooledStep, GetConnectedStep, PutSteps DEF CallerStep
<1>3. ASSUME NEW a \in Actor, ProbeStep(a) PROVE CustodyInv'
  BY <1>0, <1>3, ProbeScans, ProbeConnectedStep, FillInsertStep DEF ProbeStep
<1>4. ASSUME NEW a \in Actor, ConnectStep(a) PROVE CustodyInv'
  BY <1>0, <1>4, ConnectSteps
<1>5. CASE ServerStep
  BY <1>0, <1>5, ServerSteps
<1>6. CASE UNCHANGED vars
  BY <1>6, Unmoved DEF vars, CustodyInv, Hands
<1> QED
  BY <1>1, <1>2, <1>3, <1>4, <1>5, <1>6 DEF Next

\* In every reachable state a connection has one holder while it is open and none
\* once it is closed (asio_pool.cpp).
THEOREM CustodyKept == Spec => []CustodyInv
BY CustodyInit, CustodyStep, TypeCorrect, PTL DEF Spec

\* What holds a connection and the places where it is are the same.
LEMMA PlaceHolder ==
  ASSUME CustodyInv, NEW s \in Socket
  PROVE  /\ \A x \in Places(s) : \E h \in Holder : s \in Holds(h) /\ h = <<x[1], x[2]>>
         /\ \A h \in Holder : s \in Holds(h) => Places(s) # {}
         /\ \A x, y \in Places(s) : x[1] = y[1] /\ x[2] = y[2] => x = y
<1> DEFINE inPool == UNION {{<<"pool", e, i>> : i \in {j \in DOMAIN pool[e] : pool[e][j] = s}} :
                              e \in EndPoint}
           inSpare == UNION {{<<"spare", a, i>> : i \in {j \in DOMAIN spare[a] : spare[a][j] = s}} :
                               a \in Actor}
           inConn == {<<"conn", a>> : a \in {b \in Actor : conn[b] = s}}
           inHeld == {<<"held", c>> : c \in {b \in Caller : held[b] = s}}
<1>1. Places(s) = inPool \union inSpare \union inConn \union inHeld
  BY DEF Places
<1>2. ASSUME NEW x \in Places(s) PROVE \E h \in Holder : s \in Holds(h) /\ h = <<x[1], x[2]>>
  <2>1. CASE x \in inPool
    <3>0. PICK e \in EndPoint : \E i \in DOMAIN pool[e] : pool[e][i] = s /\ x = <<"pool", e, i>>
      BY <2>1
    <3>1. PICK i \in DOMAIN pool[e] : pool[e][i] = s /\ x = <<"pool", e, i>>
      BY <3>0
    <3>2. s \in ToSet(pool[e])
      BY <3>1 DEF ToSet
    <3>3. PoolOf(e) = <<x[1], x[2]>>
      BY <3>1 DEF PoolOf
    <3> QED
      BY <3>2, <3>3, HolderKinds
  <2>2. CASE x \in inSpare
    <3>0. PICK a \in Actor : \E i \in DOMAIN spare[a] : spare[a][i] = s /\ x = <<"spare", a, i>>
      BY <2>2
    <3>1. PICK i \in DOMAIN spare[a] : spare[a][i] = s /\ x = <<"spare", a, i>>
      BY <3>0
    <3>2. s \in ToSet(spare[a])
      BY <3>1 DEF ToSet
    <3>3. SpareOf(a) = <<x[1], x[2]>>
      BY <3>1 DEF SpareOf
    <3> QED
      BY <3>2, <3>3, HolderKinds
  <2>3. CASE x \in inConn
    <3>1. PICK a \in Actor : conn[a] = s /\ x = <<"conn", a>>
      BY <2>3
    <3>2. ConnOf(a) = <<x[1], x[2]>>
      BY <3>1 DEF ConnOf
    <3> QED
      BY <3>1, <3>2, HolderKinds, NamesAssumption
  <2>4. CASE x \in inHeld
    <3>1. PICK c \in Caller : held[c] = s /\ x = <<"held", c>>
      BY <2>4
    <3>2. HeldBy(c) = <<x[1], x[2]>>
      BY <3>1 DEF HeldBy
    <3> QED
      BY <3>1, <3>2, HolderKinds, NamesAssumption
  <2> QED
    BY <1>1, <1>2, <2>1, <2>2, <2>3, <2>4
<1>3. ASSUME NEW h \in Holder, s \in Holds(h) PROVE Places(s) # {}
  <2>1. CASE \E e \in EndPoint : h = PoolOf(e)
    <3>1. PICK e \in EndPoint : s \in ToSet(pool[e])
      BY <1>3, <2>1, HolderKinds
    <3>2. PICK i \in DOMAIN pool[e] : pool[e][i] = s
      BY <3>1 DEF ToSet
    <3>3. <<"pool", e, i>> \in inPool
      BY <3>2
    <3> QED
      BY <1>1, <3>3
  <2>2. CASE \E a \in Actor : h = SpareOf(a)
    <3>1. PICK a \in Actor : s \in ToSet(spare[a])
      BY <1>3, <2>2, HolderKinds
    <3>2. PICK i \in DOMAIN spare[a] : spare[a][i] = s
      BY <3>1 DEF ToSet
    <3>3. <<"spare", a, i>> \in inSpare
      BY <3>2
    <3> QED
      BY <1>1, <3>3
  <2>3. CASE \E a \in Actor : h = ConnOf(a)
    <3>1. PICK a \in Actor : conn[a] = s
      BY <1>3, <2>3, HolderKinds
    <3>2. <<"conn", a>> \in inConn
      BY <3>1
    <3> QED
      BY <1>1, <3>2
  <2>4. CASE \E c \in Caller : h = HeldBy(c)
    <3>1. PICK c \in Caller : held[c] = s
      BY <1>3, <2>4, HolderKinds
    <3>2. <<"held", c>> \in inHeld
      BY <3>1
    <3> QED
      BY <1>1, <3>2
  <2> QED
    BY <2>1, <2>2, <2>3, <2>4 DEF Holder
<1>4. ASSUME NEW x \in Places(s), NEW y \in Places(s), x[1] = y[1], x[2] = y[2]
      PROVE  x = y
  <2>1. CASE x \in inPool
    <3>0. PICK e \in EndPoint : \E i \in DOMAIN pool[e] : pool[e][i] = s /\ x = <<"pool", e, i>>
      BY <2>1
    <3>1. PICK i \in DOMAIN pool[e] : pool[e][i] = s /\ x = <<"pool", e, i>>
      BY <3>0
    <3>2. y \in inPool
      BY <1>1, <1>4, <3>1
    <3>3. PICK j \in DOMAIN pool[e] : pool[e][j] = s /\ y = <<"pool", e, j>>
      BY <1>4, <3>1, <3>2
    <3> QED
      BY <3>1, <3>3 DEF CustodyInv, NoRepetition, Distinct
  <2>2. CASE x \in inSpare
    <3>0. PICK a \in Actor : \E i \in DOMAIN spare[a] : spare[a][i] = s /\ x = <<"spare", a, i>>
      BY <2>2
    <3>1. PICK i \in DOMAIN spare[a] : spare[a][i] = s /\ x = <<"spare", a, i>>
      BY <3>0
    <3>2. y \in inSpare
      BY <1>1, <1>4, <3>1
    <3>3. PICK j \in DOMAIN spare[a] : spare[a][j] = s /\ y = <<"spare", a, j>>
      BY <1>4, <3>1, <3>2
    <3> QED
      BY <3>1, <3>3 DEF CustodyInv, NoRepetition, Distinct
  <2>3. CASE x \in inConn
    BY <1>1, <1>4, <2>3
  <2>4. CASE x \in inHeld
    BY <1>1, <1>4, <2>4
  <2> QED
    BY <1>1, <2>1, <2>2, <2>3, <2>4
<1> QED
  BY <1>2, <1>3, <1>4

\* No two threads or pools ever have the same connection, and none is lost while
\* it is open, for any number of threads, endpoints and connections.
THEOREM OneCustodian == Spec => []SingleCustody
<1>1. CustodyInv => SingleCustody
  <2> SUFFICES ASSUME CustodyInv, NEW s \in Socket
               PROVE  Cardinality(Places(s)) = IF remote[s] = NoEndPoint THEN 0 ELSE 1
    BY DEF SingleCustody
  <2>1. CASE remote[s] = NoEndPoint
    <3>1. Places(s) = {}
      BY <2>1, PlaceHolder DEF CustodyInv, OpenHeld
    <3> QED
      BY <2>1, <3>1, FS_EmptySet
  <2>2. CASE remote[s] # NoEndPoint
    <3>1. PICK h \in Holder : s \in Holds(h)
      BY <2>2 DEF CustodyInv, OpenHeld
    <3>2. PICK x : x \in Places(s)
      BY <3>1, PlaceHolder
    <3>3. ASSUME NEW y \in Places(s) PROVE y = x
      <4>1. <<y[1], y[2]>> = <<x[1], x[2]>>
        BY <3>2, PlaceHolder DEF CustodyInv, Exclusive
      <4> QED
        BY <3>2, <4>1, PlaceHolder
    <3>4. Places(s) = {x}
      BY <3>2, <3>3
    <3> QED
      BY <2>2, <3>4, FS_Singleton
  <2> QED
    BY <2>1, <2>2
<1> QED
  BY <1>1, CustodyKept, PTL

\* Connections are filed under the endpoint they are connected to.
THEOREM WellFiled == Spec => []FiledUnderPeer
<1>1. CustodyInv => FiledUnderPeer
  BY DEF CustodyInv
<1> QED
  BY <1>1, CustodyKept, PTL

-------------------------------------------------------------------------------
(* Owners *)

\* The owner of a connection is the thread or the endpoint of its holder.
OwnersOfHolders ==
  /\ \A h \in Holder : \A s \in Holds(h) : Owner(s) = h[2]
  /\ \A s \in Socket : remote[s] = NoEndPoint => Owner(s) = NoActor

LEMMA OwnersHold == TypeOK /\ CustodyInv => OwnersOfHolders
<1> SUFFICES ASSUME TypeOK, CustodyInv PROVE OwnersOfHolders
  OBVIOUS
<1>1. \A s \in Socket : remote[s] = NoEndPoint => Owner(s) = NoActor
  BY DEF Owner
<1>2. ASSUME NEW h \in Holder, NEW s \in Holds(h) PROVE Owner(s) = h[2]
  <2>1. s \in Socket /\ remote[s] # NoEndPoint
    BY <1>2 DEF CustodyInv, OpenHeld
  <2>2. \A k \in Holder : s \in Holds(k) => k = h
    BY <1>2 DEF CustodyInv, Exclusive
  <2>3. ASSUME NEW e \in EndPoint, h = PoolOf(e) PROVE Owner(s) = h[2]
    <3>1. s \in ToSet(pool[e]) /\ h[2] = e
      BY <1>2, <2>3, HolderKinds DEF PoolOf
    <3>2. remote[s] = e
      BY <3>1 DEF CustodyInv, FiledUnderPeer
    <3> QED
      BY <2>1, <3>1, <3>2 DEF Owner
  <2>4. ASSUME NEW a \in Actor, h \in {SpareOf(a), ConnOf(a)} \/ (a \in Caller /\ h = HeldBy(a))
        PROVE  Owner(s) = h[2]
    <3>1. h[2] = a /\ h[1] # "pool"
      BY <2>4 DEF SpareOf, ConnOf, HeldBy
    <3>2. ~(s \in ToSet(pool[remote[s]]))
      <4>1. CASE remote[s] \in EndPoint
        <5>1. PoolOf(remote[s]) # h
          BY <3>1 DEF PoolOf
        <5> QED
          BY <2>2, <4>1, <5>1, HolderKinds
      <4>2. CASE remote[s] \notin EndPoint
        BY <2>1, <4>2 DEF TypeOK
      <4> QED
        BY <4>1, <4>2
    <3>3. a \in InHand(s)
      BY <1>2, <2>4, HolderKinds DEF InHand
    <3>4. ASSUME NEW b \in InHand(s) PROVE b = a
      <4>1. CASE conn[b] = s
        <5>1. ConnOf(b) = h
          BY <2>1, <2>2, <3>4, <4>1, HolderKinds, NamesAssumption DEF InHand
        <5> QED
          BY <3>1, <5>1 DEF ConnOf
      <4>2. CASE s \in ToSet(spare[b])
        <5>1. SpareOf(b) = h
          BY <2>2, <3>4, <4>2, HolderKinds DEF InHand
        <5> QED
          BY <3>1, <5>1 DEF SpareOf
      <4>3. CASE b \in Caller /\ held[b] = s
        <5>1. HeldBy(b) = h
          BY <2>1, <2>2, <4>3, HolderKinds, NamesAssumption
        <5> QED
          BY <3>1, <5>1 DEF HeldBy
      <4> QED
        BY <3>4, <4>1, <4>2, <4>3 DEF InHand
    <3>5. InHand(s) = {a}
      BY <3>3, <3>4
    <3>6. Owner(s) = a
      BY <2>1, <3>2, <3>5 DEF Owner
    <3> QED
      BY <3>1, <3>6
  <2> QED
    BY <2>3, <2>4 DEF Holder, Actor
<1> QED
  BY <1>1, <1>2 DEF OwnersOfHolders

LEMMA OwnersHoldNext == TypeOK' /\ CustodyInv' => OwnersOfHolders'
BY OwnersHold, PTL

\* What an endpoint owns is its pool; a thread owns what its variables have.
LEMMA Owned ==
  ASSUME TypeOK, CustodyInv
  PROVE  /\ \A e \in EndPoint : Custody!Of(e) = ToSet(pool[e])
         /\ \A h \in Holder : Holds(h) \subseteq Custody!Of(h[2])
<1>1. ASSUME NEW h \in Holder PROVE Holds(h) \subseteq Custody!Of(h[2])
  <2>1. Holds(h) \subseteq Socket
    BY DEF CustodyInv, OpenHeld
  <2> QED
    BY <2>1, OwnersHold DEF OwnersOfHolders, Custody!Of
<1>2. ASSUME NEW e \in EndPoint PROVE Custody!Of(e) = ToSet(pool[e])
  <2>1. ToSet(pool[e]) \subseteq Custody!Of(e)
    BY <1>1, HolderKinds DEF PoolOf
  <2>2. ASSUME NEW s \in Socket, Owner(s) = e PROVE s \in ToSet(pool[e])
    <3>1. remote[s] # NoEndPoint
      BY <2>2, OwnersHold, OwnersAssumption DEF OwnersOfHolders
    <3>2. PICK h \in Holder : s \in Holds(h)
      BY <3>1 DEF CustodyInv, OpenHeld
    <3>3. h[2] = e
      BY <2>2, <3>2, OwnersHold DEF OwnersOfHolders
    <3>4. h = PoolOf(e)
      BY <3>3, OwnersAssumption DEF Holder, PoolOf, SpareOf, ConnOf, HeldBy, Actor
    <3> QED
      BY <3>2, <3>4, HolderKinds
  <2> QED
    BY <2>1, <2>2 DEF Custody!Of
<1> QED
  BY <1>1, <1>2

\* A step that closes S but for K, which it passes to x, and leaves every other
\* connection with its owner.
LEMMA Moved ==
  ASSUME TypeOK, CustodyInv, TypeOK', CustodyInv',
         NEW S \in SUBSET Socket, NEW K \in SUBSET S, NEW x,
         remote' = [s \in Socket |-> IF s \in S \ K THEN NoEndPoint ELSE remote[s]],
         \A h \in Holder : \A s \in Holds(h) \ S :
           \E k \in Holder : k[2] = h[2] /\ s \in Holds(k)',
         \A s \in K : \E k \in Holder : k[2] = x /\ s \in Holds(k)'
  PROVE  Custody!Move(S, K, x)
<1>1. OwnersOfHolders /\ OwnersOfHolders'
  BY OwnersHold, OwnersHoldNext
<1>2. ASSUME NEW s \in Socket
      PROVE  Owner(s)' = IF s \in K THEN x ELSE IF s \in S THEN NoActor ELSE Owner(s)
  <2>1. CASE s \in K
    BY <1>1, <2>1 DEF OwnersOfHolders
  <2>2. CASE s \in S \ K
    <3>1. remote'[s] = NoEndPoint
      BY <2>2
    <3> QED
      BY <1>1, <2>2, <3>1 DEF OwnersOfHolders
  <2>3. CASE s \notin S /\ remote[s] = NoEndPoint
    <3>1. remote'[s] = NoEndPoint
      BY <2>3
    <3> QED
      BY <1>1, <2>3, <3>1 DEF OwnersOfHolders
  <2>4. CASE s \notin S /\ remote[s] # NoEndPoint
    <3>1. PICK h \in Holder : s \in Holds(h)
      BY <2>4 DEF CustodyInv, OpenHeld
    <3> QED
      BY <1>1, <2>4, <3>1 DEF OwnersOfHolders
  <2> QED
    BY <2>1, <2>2, <2>3, <2>4
<1> QED
  BY <1>2 DEF Custody!Move

\* A step that keeps every connection with its owner is none of ConnectionCustody.
LEMMA Stutter ==
  ASSUME TypeOK, CustodyInv, TypeOK', CustodyInv', remote' = remote,
         \A h \in Holder : \A s \in Holds(h) :
           \E k \in Holder : k[2] = h[2] /\ s \in Holds(k)'
  PROVE  UNCHANGED Custody!custodyVars
<1>1. Custody!Move({}, {}, NoActor)
  BY Moved DEF TypeOK
<1> QED
  BY <1>1 DEF Custody!Move, Custody!custodyVars, TypeOK

-------------------------------------------------------------------------------
(* What steps are to the custody of the connections *)

Before == TypeOK /\ CustodyInv /\ PCInv /\ PoolBounded
After == TypeOK' /\ CustodyInv'

LEMMA Untouched ==
  ASSUME Before, After, UNCHANGED <<pool, spare, conn, held, remote>>
  PROVE  UNCHANGED Custody!custodyVars
<1>1. \A h \in Holder : Holds(h)' = Holds(h)
  BY DEF Holds
<1> QED
  BY <1>1, Stutter DEF Before, After

LEMMA Emptied ==
  ASSUME Before, After, NEW E \in SUBSET EndPoint, DropPools(E),
         UNCHANGED <<spare, conn, held>>
  PROVE  Custody!Next
<1> DEFINE S == UNION {Custody!Of(e) : e \in E}
<1>1. S = UNION {ToSet(pool[e]) : e \in E}
  BY Owned DEF Before
<1>2. S \in SUBSET Socket
  BY DEF Custody!Of
<1>3. remote' = [s \in Socket |-> IF s \in S \ {} THEN NoEndPoint ELSE remote[s]]
  BY <1>1 DEF DropPools, Close
<1>4. ASSUME NEW h \in Holder, NEW s \in Holds(h) \ S PROVE s \in Holds(h)'
  <2>1. CASE \E e \in EndPoint : h = PoolOf(e)
    <3>1. PICK e \in EndPoint : h = PoolOf(e)
      BY <2>1
    <3>2. e \notin E /\ s \in ToSet(pool[e])
      BY <1>1, <1>4, <3>1, HolderKinds
    <3>3. pool'[e] = pool[e]
      BY <3>2 DEF DropPools
    <3> QED
      BY <3>1, <3>2, <3>3, HolderKindsPrime
  <2>2. CASE ~\E e \in EndPoint : h = PoolOf(e)
    BY <1>4, <2>2 DEF Holder, Holds, PoolOf, SpareOf, ConnOf, HeldBy
  <2> QED
    BY <2>1, <2>2
<1> HIDE DEF S
<1>5. Custody!Move(S, {}, NoActor)
  BY <1>2, <1>3, <1>4, Moved DEF Before, After
<1>6. Custody!Discard(E)
  BY <1>5 DEF Custody!Discard, S
<1> QED
  BY <1>6 DEF Custody!Next

\* The holder h of a thread closes what it has.
LEMMA Released ==
  ASSUME Before, After, NEW a \in Actor, NEW h \in Holder, h[2] = a, Close(Holds(h)),
         \A k \in Holder \ {h} : Holds(k)' = Holds(k)
  PROVE  Custody!Next
<1>1. Holds(h) \in SUBSET Custody!Of(a) /\ Holds(h) \in SUBSET Socket
  BY Owned DEF Before, CustodyInv, OpenHeld
<1>2. remote' = [s \in Socket |-> IF s \in Holds(h) \ {} THEN NoEndPoint ELSE remote[s]]
  BY DEF Close
<1>3. \A k \in Holder : \A s \in Holds(k) \ Holds(h) : s \in Holds(k)'
  OBVIOUS
<1>4. Custody!Move(Holds(h), {}, NoActor)
  BY <1>1, <1>2, <1>3, Moved DEF Before, After
<1> QED
  BY <1>1, <1>4 DEF Custody!Next, Custody!Release

LEMMA DistinctCardinality ==
  ASSUME NEW p \in Seq(Socket), Distinct(p)
  PROVE  IsFiniteSet(ToSet(p)) /\ Cardinality(ToSet(p)) = Len(p)
<1>1. p \in Bijection(1..Len(p), ToSet(p))
  BY DEF Bijection, Injection, Surjection, IsInjective, Distinct, ToSet
<1>2. IsFiniteSet(1..Len(p)) /\ Cardinality(1..Len(p)) = Len(p)
  <2>1. Len(p) \in Nat
    OBVIOUS
  <2> HIDE DEF Distinct
  <2> QED
    BY <2>1, FS_Interval, Z3
<1> QED
  BY <1>1, <1>2, FS_Bijection DEF ExistsBijection

LEMMA SameCardinality == \A S : Custody!Cardinality(S) = Cardinality(S)
BY DEF Custody!Cardinality, Cardinality

\* The holder h of a thread gives what it has to the pool of e, which keeps as
\* much of it as it has room for.
LEMMA Given ==
  ASSUME Before, After, NEW a \in Actor, NEW e \in EndPoint, NEW h \in Holder, h[2] = a,
         NEW q \in Seq(Socket), Holds(h) = ToSet(q), \A s \in Holds(h) : remote[s] = e,
         pool' = [pool EXCEPT ![e] = Trim(pool[e] \o q)], Close(Trimmed(pool[e] \o q)),
         \A k \in Holder \ {h, PoolOf(e)} : Holds(k)' = Holds(k)
  PROVE  Custody!Next
<1> DEFINE p == pool[e] \o q
           S == Holds(h)
           K == S \intersect ToSet(Trim(p))
<1>1. pool[e] \in Seq(Socket) /\ p \in Seq(Socket) /\ ToSet(p) = ToSet(pool[e]) \union S
  <2>1. pool[e] \in Seq(Socket)
    BY DEF Before, TypeOK
  <2>2. /\ p \in Seq(Socket) /\ Len(p) = Len(pool[e]) + Len(q)
        /\ \A i \in 1..Len(p) :
             p[i] = IF i <= Len(pool[e]) THEN pool[e][i] ELSE q[i - Len(pool[e])]
    BY <2>1
  <2>3. \A i \in DOMAIN q : q[i] \in ToSet(p)
    <3>1. \A i \in DOMAIN q : i + Len(pool[e]) \in DOMAIN p /\ p[i + Len(pool[e])] = q[i]
      BY <2>1, <2>2
    <3> QED
      BY <3>1 DEF ToSet
  <2>4. \A i \in DOMAIN pool[e] : pool[e][i] \in ToSet(p)
    <3>1. \A i \in DOMAIN pool[e] : i \in DOMAIN p /\ p[i] = pool[e][i]
      BY <2>1, <2>2
    <3> QED
      BY <3>1 DEF ToSet
  <2>5. \A i \in DOMAIN p : p[i] \in ToSet(pool[e]) \union ToSet(q)
    BY <2>1, <2>2 DEF ToSet
  <2> QED
    BY <2>1, <2>2, <2>3, <2>4, <2>5 DEF ToSet
<1>2. ToSet(pool[e]) \subseteq ToSet(Trim(p)) /\ ToSet(Trim(p)) \subseteq ToSet(p)
  <2>1. CASE MaxConn # 0 /\ Len(p) > MaxConn
    <3>1. Trim(p) = SubSeq(p, 1, MaxConn) /\ MaxConn \in Nat /\ Len(pool[e]) <= MaxConn
      BY <2>1, ConnAssumption DEF Trim, Before, PoolBounded
    <3>2. Len(Trim(p)) = MaxConn /\ \A i \in 1..MaxConn : Trim(p)[i] = p[i]
      BY <1>1, <2>1, <3>1
    <3>3. \A i \in 1..Len(pool[e]) : p[i] = pool[e][i] /\ i \in 1..MaxConn
      BY <1>1, <3>1
    <3>4. Trim(p) \in Seq(Socket)
      BY <1>1, TrimType
    <3>5. \A i \in DOMAIN pool[e] : i \in DOMAIN Trim(p) /\ Trim(p)[i] = pool[e][i]
      BY <1>1, <3>2, <3>3, <3>4
    <3>6. \A i \in DOMAIN Trim(p) : i \in DOMAIN p /\ Trim(p)[i] = p[i]
      BY <1>1, <2>1, <3>1, <3>2, <3>4
    <3> QED
      BY <3>5, <3>6 DEF ToSet
  <2>2. CASE ~(MaxConn # 0 /\ Len(p) > MaxConn)
    BY <1>1, <2>2 DEF Trim
  <2> QED
    BY <2>1, <2>2
<1>3. ToSet(pool[e]) \intersect S = {}
  <2>1. PoolOf(e) # h
    BY OwnersAssumption DEF PoolOf
  <2> QED
    BY <2>1, HolderKinds DEF Before, CustodyInv, Exclusive
<1>4. pool'[e] = Trim(p)
  BY DEF Before, TypeOK
<1>5. S \in SUBSET Custody!Of(a) /\ S \in SUBSET Socket /\ K \in SUBSET S
  BY Owned DEF Before, CustodyInv, OpenHeld
<1>6. Custody!Move(S, K, e)
  <2>1. remote' = [s \in Socket |-> IF s \in S \ K THEN NoEndPoint ELSE remote[s]]
    <3>1. Trimmed(p) = S \ K
      BY <1>1, <1>2, <1>3 DEF Trimmed
    <3> QED
      BY <3>1 DEF Close
  <2>2. /\ PoolOf(e) \in Holder /\ PoolOf(e)[2] = e
        /\ Holds(PoolOf(e)) = ToSet(pool[e]) /\ Holds(PoolOf(e))' = ToSet(Trim(p))
    BY <1>4, HolderKinds, HolderKindsPrime DEF PoolOf
  <2>3. \A k \in Holder : \A s \in Holds(k) \ S : s \in Holds(k)'
    BY <1>2, <2>2
  <2> HIDE DEF S, K, p
  <2> QED
    BY <1>5, <2>1, <2>2, <2>3, Moved DEF Before, After, K
<1>7. K # S => MaxConn # 0 /\ Cardinality(Custody!Of(e)) + Cardinality(K) = MaxConn
  <2> SUFFICES ASSUME K # S
               PROVE  MaxConn # 0 /\ Cardinality(Custody!Of(e)) + Cardinality(K) = MaxConn
    OBVIOUS
  <2>1. MaxConn # 0 /\ Len(p) > MaxConn
    BY <1>1 DEF Trim
  <2>2. Trim(p) \in Seq(Socket) /\ Distinct(Trim(p))
    BY <1>1, <1>4, TrimType DEF After, CustodyInv, NoRepetition
  <2>3. Len(Trim(p)) = MaxConn
    BY <1>1, <2>1, ConnAssumption DEF Trim
  <2>4. IsFiniteSet(ToSet(Trim(p))) /\ Cardinality(ToSet(Trim(p))) = MaxConn
    BY <2>2, <2>3, DistinctCardinality
  <2>5. /\ ToSet(Trim(p)) = ToSet(pool[e]) \union K
        /\ ToSet(pool[e]) \intersect K = {}
    BY <1>1, <1>2, <1>3
  <2>6. /\ IsFiniteSet(ToSet(pool[e])) /\ IsFiniteSet(K)
        /\ Cardinality(ToSet(pool[e])) \in Nat /\ Cardinality(K) \in Nat
    BY <2>4, <2>5, FS_Subset, FS_CardinalityType
  <2>7. Cardinality(ToSet(pool[e])) + Cardinality(K) = MaxConn
    <3>1. Cardinality(ToSet(pool[e]) \union K)
            = Cardinality(ToSet(pool[e])) + Cardinality(K) - Cardinality(ToSet(pool[e]) \intersect K)
      BY <2>6, FS_Union
    <3>2. Cardinality(ToSet(pool[e]) \intersect K) = 0
      BY <2>5, FS_EmptySet
    <3> HIDE DEF K, p
    <3> QED
      BY <2>4, <2>5, <2>6, <3>1, <3>2, ConnAssumption
  <2>8. Custody!Of(e) = ToSet(pool[e])
    BY Owned DEF Before
  <2> QED
    BY <2>1, <2>7, <2>8
<1>8. Custody!Deposit(a, S, K, e)
  <2>1. \A s \in S : remote[s] = e
    OBVIOUS
  <2> HIDE DEF S, K
  <2> QED
    BY <1>5, <1>6, <1>7, <2>1, SameCardinality DEF Custody!Deposit
<1> QED
  BY <1>5, <1>8 DEF Custody!Next

-------------------------------------------------------------------------------
(* The steps *)

LEMMA OwnerMoves ==
  ASSUME Before, After, Construct \/ StopProbe \/ Destroy \/ ProbeTimer \/ ServerStep
  PROVE  [Custody!Next]_(Custody!custodyVars)
<1>1. CASE Destroy
  BY <1>1, Emptied DEF Destroy, probeVars
<1>2. CASE Construct \/ StopProbe \/ ProbeTimer \/ ServerStep
  <2>1. UNCHANGED <<pool, spare, conn, held, remote>>
    BY <1>2 DEF Construct, StopProbe, ProbeTimer, ServerStep, ServerDown, ServerUp, ServerClose,
                poolVars, probeVars
  <2> QED
    BY <2>1, Untouched
<1> QED
  BY <1>1, <1>2

LEMMA CallerMoves ==
  ASSUME Before, After, NEW c \in Caller, CallerStep(c)
  PROVE  [Custody!Next]_(Custody!custodyVars)
<1>0. /\ c \in Actor /\ HeldBy(c) \in Holder /\ HeldBy(c)[2] = c
      /\ held[c] # NoSocket => held[c] \in Socket /\ Holds(HeldBy(c)) = {held[c]}
  BY HolderKinds DEF HeldBy, Actor, Before, TypeOK
<1>1. CASE \/ \E e \in EndPoint : Add(c, e) \/ Del(c, e) \/ GetMiss(c, e)
           \/ \E E \in SUBSET EndPoint : AddAll(c, E)
           \/ Clear(c) \/ GetFailed(c)
  <2>1. /\ \E E \in SUBSET EndPoint : DropPools(E)
        /\ UNCHANGED <<spare, conn, held>>
    <3>1. pc[c] = "get_failed" => cur[c] \in EndPoint
      BY <1>0 DEF Before, PCInv
    <3> QED
      BY <1>1, <3>1 DEF Add, AddAll, Del, GetMiss, Clear, GetFailed, Register, ToAdd, probeVars
  <2> QED
    BY <2>1, Emptied
<1>2. ASSUME NEW e \in EndPoint, GetPooled(c, e) PROVE Custody!Next
  <2> DEFINE s == Last(pool[e])
  <2>1. /\ pool[e] \in Seq(Socket) /\ Distinct(pool[e]) /\ pool[e] # << >>
        /\ held[c] = NoSocket /\ pool' = [pool EXCEPT ![e] = Front(pool[e])]
        /\ held' = [held EXCEPT ![c] = s] /\ UNCHANGED <<conn, spare, remote>>
    BY <1>2 DEF GetPooled, Usable, Before, TypeOK, CustodyInv, NoRepetition, probeVars
  <2>2. s \in Socket /\ ToSet(pool[e]) = ToSet(Front(pool[e])) \union {s}
    BY <2>1, FrontDistinct
  <2> HIDE DEF s
  <2>3. s \in Custody!Idle
    BY <2>2, Owned DEF Before, Custody!Idle
  <2>4. s \in Holds(HeldBy(c))'
    BY <2>1, <2>2, HolderKindsPrime, NamesAssumption DEF Before, TypeOK
  <2>5. ASSUME NEW h \in Holder, NEW t \in Holds(h) \ {s} PROVE t \in Holds(h)'
    <3>1. CASE \E d \in EndPoint : h = PoolOf(d)
      <4>1. PICK d \in EndPoint : h = PoolOf(d)
        BY <3>1
      <4>2. pool'[d] = IF d = e THEN Front(pool[e]) ELSE pool[d]
        BY <2>1 DEF Before, TypeOK
      <4> QED
        BY <2>2, <2>5, <4>1, <4>2, HolderKinds, HolderKindsPrime
    <3>2. CASE \E d \in Caller : h = HeldBy(d)
      <4>1. PICK d \in Caller : h = HeldBy(d)
        BY <3>2
      <4>2. held'[d] = IF d = c THEN s ELSE held[d]
        BY <2>1 DEF Before, TypeOK
      <4> QED
        BY <2>1, <2>5, <4>1, <4>2, HolderKinds, HolderKindsPrime
    <3>3. CASE \E d \in Actor : h \in {SpareOf(d), ConnOf(d)}
      BY <2>1, <2>5, <3>3, HolderKinds, HolderKindsPrime
    <3> QED
      BY <3>1, <3>2, <3>3 DEF Holder
  <2>6. remote' = [t \in Socket |-> IF t \in {s} \ {s} THEN NoEndPoint ELSE remote[t]]
    BY <2>1 DEF Before, TypeOK
  <2>7. Custody!Move({s}, {s}, c)
    BY <1>0, <2>2, <2>4, <2>5, <2>6, Moved DEF Before, After
  <2> QED
    BY <1>0, <2>2, <2>3, <2>7 DEF Custody!Withdraw, Custody!Next
<1>3. CASE GetConnected(c)
  <2>1. /\ held' = [held EXCEPT ![c] = conn[c]] /\ conn' = [conn EXCEPT ![c] = NoSocket]
        /\ held[c] = NoSocket /\ conn[c] \in Socket /\ UNCHANGED <<pool, spare, remote>>
    BY <1>0, <1>3 DEF GetConnected, Before, PCInv, CustodyInv, Hands, GetPC, poolVars, probeVars
  <2>2. ASSUME NEW h \in Holder, NEW t \in Holds(h)
        PROVE  \E k \in Holder : k[2] = h[2] /\ t \in Holds(k)'
    <3>1. CASE h = ConnOf(c)
      <4>1. t = conn[c] /\ h[2] = c
        BY <1>0, <2>2, <3>1, HolderKinds DEF ConnOf
      <4>2. t \in Holds(HeldBy(c))'
        BY <2>1, <4>1, HolderKindsPrime, NamesAssumption DEF Before, TypeOK
      <4> QED
        BY <1>0, <4>1, <4>2
    <3>2. CASE \E d \in Actor : d # c /\ h = ConnOf(d)
      <4>1. PICK d \in Actor : d # c /\ h = ConnOf(d)
        BY <3>2
      <4>2. conn'[d] = conn[d]
        BY <2>1, <4>1 DEF Before, TypeOK
      <4> QED
        BY <2>2, <4>1, <4>2, HolderKinds, HolderKindsPrime
    <3>3. CASE \E d \in Caller : h = HeldBy(d)
      <4>1. PICK d \in Caller : h = HeldBy(d)
        BY <3>3
      <4>2. d # c /\ held'[d] = held[d]
        BY <2>1, <2>2, <4>1, HolderKinds DEF Before, TypeOK
      <4> QED
        BY <2>2, <4>1, <4>2, HolderKinds, HolderKindsPrime
    <3>4. CASE (\E e \in EndPoint : h = PoolOf(e)) \/ \E d \in Actor : h = SpareOf(d)
      BY <2>1, <2>2, <3>4, HolderKinds, HolderKindsPrime
    <3> QED
      BY <3>1, <3>2, <3>3, <3>4 DEF Holder
  <2> QED
    BY <2>1, <2>2, Stutter DEF Before, After
<1>4. ASSUME Put(c) \/ CallerClose(c) PROVE Custody!Next
  <2> DEFINE s == held[c]
             e == remote[s]
  <2>1. /\ s # NoSocket /\ held' = [held EXCEPT ![c] = NoSocket]
        /\ UNCHANGED <<conn, spare>>
    BY <1>4 DEF Put, CallerClose, probeVars
  <2>2. \A d \in Caller : d # c => held'[d] = held[d]
    BY <2>1 DEF Before, TypeOK
  <2>3. s \in Socket /\ Holds(HeldBy(c)) = {s} /\ e \in EndPoint
    BY <1>0, <2>1 DEF Before, TypeOK, CustodyInv, OpenHeld
  <2>4. CASE UNCHANGED pool /\ Close({s})
    <3>1. \A k \in Holder \ {HeldBy(c)} : Holds(k)' = Holds(k)
      BY <2>1, <2>2, <2>4 DEF Holder, Holds, PoolOf, SpareOf, ConnOf, HeldBy
    <3> QED
      BY <1>0, <2>3, <2>4, <3>1, Released
  <2>5. CASE /\ pool' = [pool EXCEPT ![e] = Trim(Append(pool[e], s))]
             /\ Close(Trimmed(Append(pool[e], s)))
    <3>1. Append(pool[e], s) = pool[e] \o <<s>> /\ <<s>> \in Seq(Socket) /\ ToSet(<<s>>) = {s}
      BY <2>3 DEF Before, TypeOK, ToSet
    <3>2. \A d \in EndPoint : d # e => pool'[d] = pool[d]
      BY <2>5 DEF Before, TypeOK
    <3>3. \A k \in Holder \ {HeldBy(c), PoolOf(e)} : Holds(k)' = Holds(k)
      BY <2>1, <2>2, <3>2 DEF Holder, Holds, PoolOf, SpareOf, ConnOf, HeldBy
    <3> QED
      BY <1>0, <2>3, <2>5, <3>1, <3>3, Given
  <2> QED
    BY <1>4, <2>4, <2>5 DEF Put, CallerClose, poolVars
<1> QED
  BY <1>1, <1>2, <1>3, <1>4 DEF CallerStep

LEMMA ProbeMoves ==
  ASSUME Before, After, NEW a \in Actor, ProbeStep(a)
  PROVE  [Custody!Next]_(Custody!custodyVars)
<1>1. CASE Scan(a)
  BY <1>1, Emptied DEF Scan, Gone
<1>2. CASE (\E e \in EndPoint : Recheck(a, e)) \/ ProbeDone(a)
  <2>1. UNCHANGED <<pool, spare, conn, held, remote>>
    BY <1>2 DEF Recheck, ProbeDone, poolVars, probeVars
  <2> QED
    BY <2>1, Untouched
<1>3. CASE ProbeFailed(a)
  <2>1. cur[a] \in EndPoint /\ UNCHANGED <<spare, conn, held>>
    BY <1>3 DEF ProbeFailed, Before, PCInv, probeVars
  <2>2. UNCHANGED <<pool, remote>> \/ DropPools({cur[a]})
    BY <1>3 DEF ProbeFailed
  <2> QED
    BY <2>1, <2>2, Emptied, Untouched
<1>4. ASSUME ProbeConnected(a) PROVE Custody!Next
  <2> DEFINE s == conn[a]
             e == cur[a]
  <2>1. /\ s \in Socket /\ e \in EndPoint /\ conn' = [conn EXCEPT ![a] = NoSocket]
        /\ UNCHANGED <<spare, held>>
    BY <1>4 DEF ProbeConnected, Before, PCInv
  <2>2. \A b \in Actor : b # a => conn'[b] = conn[b]
    BY <2>1 DEF Before, TypeOK
  <2>3. /\ ConnOf(a) \in Holder /\ ConnOf(a)[2] = a /\ Holds(ConnOf(a)) = {s}
        /\ remote[s] = e
    BY <2>1, HolderKinds, NamesAssumption DEF ConnOf, Before, CustodyInv, FiledUnderPeer
  <2>4. CASE UNCHANGED pool /\ Close({s})
    <3>1. \A k \in Holder \ {ConnOf(a)} : Holds(k)' = Holds(k)
      BY <2>1, <2>2, <2>4 DEF Holder, Holds, PoolOf, SpareOf, ConnOf, HeldBy
    <3> QED
      BY <2>3, <2>4, <3>1, Released
  <2>5. CASE /\ pool' = [pool EXCEPT ![e] = Trim(Append(pool[e], s))]
             /\ Close(Trimmed(Append(pool[e], s)))
    <3>1. Append(pool[e], s) = pool[e] \o <<s>> /\ <<s>> \in Seq(Socket) /\ ToSet(<<s>>) = {s}
      BY <2>1 DEF Before, TypeOK, ToSet
    <3>2. \A d \in EndPoint : d # e => pool'[d] = pool[d]
      BY <2>5 DEF Before, TypeOK
    <3>3. \A k \in Holder \ {ConnOf(a), PoolOf(e)} : Holds(k)' = Holds(k)
      BY <2>1, <2>2, <3>2 DEF Holder, Holds, PoolOf, SpareOf, ConnOf, HeldBy
    <3> QED
      BY <2>1, <2>3, <2>5, <3>1, <3>3, Given
  <2> QED
    BY <1>4, <2>4, <2>5 DEF ProbeConnected
<1>5. ASSUME FillInsert(a) PROVE Custody!Next
  <2> DEFINE e == cur[a]
             q == spare[a]
  <2>1. /\ e \in EndPoint /\ q \in Seq(Socket) /\ spare' = [spare EXCEPT ![a] = << >>]
        /\ UNCHANGED <<conn, held>>
    BY <1>5 DEF FillInsert, Before, PCInv, TypeOK
  <2>2. \A b \in Actor : b # a => spare'[b] = spare[b]
    BY <2>1 DEF Before, TypeOK
  <2>3. /\ SpareOf(a) \in Holder /\ SpareOf(a)[2] = a /\ Holds(SpareOf(a)) = ToSet(q)
        /\ \A s \in ToSet(q) : remote[s] = e
    BY HolderKinds DEF SpareOf, Before, CustodyInv, FiledUnderPeer
  <2>4. CASE UNCHANGED pool /\ Close(ToSet(q))
    <3>1. \A k \in Holder \ {SpareOf(a)} : Holds(k)' = Holds(k)
      BY <2>1, <2>2, <2>4 DEF Holder, Holds, PoolOf, SpareOf, ConnOf, HeldBy
    <3> QED
      BY <2>3, <2>4, <3>1, Released
  <2>5. CASE pool' = [pool EXCEPT ![e] = Trim(pool[e] \o q)] /\ Close(Trimmed(pool[e] \o q))
    <3>1. \A d \in EndPoint : d # e => pool'[d] = pool[d]
      BY <2>5 DEF Before, TypeOK
    <3>2. \A k \in Holder \ {SpareOf(a), PoolOf(e)} : Holds(k)' = Holds(k)
      BY <2>1, <2>2, <3>1 DEF Holder, Holds, PoolOf, SpareOf, ConnOf, HeldBy
    <3> QED
      BY <2>1, <2>3, <2>5, <3>2, Given
  <2> QED
    BY <1>5, <2>4, <2>5 DEF FillInsert
<1> QED
  BY <1>1, <1>2, <1>3, <1>4, <1>5 DEF ProbeStep

LEMMA ConnectMoves ==
  ASSUME Before, After, NEW a \in Actor, ConnectStep(a)
  PROVE  [Custody!Next]_(Custody!custodyVars)
<1>1. CASE ConnectFail(a)
  <2>1. UNCHANGED <<pool, spare, conn, held, remote>>
    BY <1>1 DEF ConnectFail, poolVars, probeVars
  <2> QED
    BY <2>1, Untouched
<1>2. ASSUME ConnectOk(a) PROVE Custody!Next
  <2>1. PICK s \in Socket :
          /\ remote[s] = NoEndPoint /\ remote' = [remote EXCEPT ![s] = cur[a]]
          /\ \/ spare' = [spare EXCEPT ![a] = Append(@, s)] /\ UNCHANGED conn
             \/ /\ conn' = [conn EXCEPT ![a] = s] /\ UNCHANGED spare
                /\ pc[a] \in {"get_connect", "connect"}
          /\ UNCHANGED <<pool, held>>
    BY <1>2 DEF ConnectOk, ConnectPC, poolVars
  <2>2. cur[a] \in EndPoint
    BY <1>2 DEF ConnectOk, ConnectPC, Before, PCInv
  <2>3. \E h \in {SpareOf(a), ConnOf(a)} :
          /\ s \in Holds(h)'
          /\ \A k \in Holder : Holds(k) \subseteq Holds(k)'
    <3>1. CASE spare' = [spare EXCEPT ![a] = Append(@, s)] /\ UNCHANGED conn
      <4>1. spare[a] \in Seq(Socket) /\ spare'[a] = Append(spare[a], s)
        BY <3>1 DEF Before, TypeOK
      <4>2. \A i \in DOMAIN spare[a] : i \in DOMAIN spare'[a] /\ spare'[a][i] = spare[a][i]
        BY <2>1, <4>1
      <4>3. Len(spare[a]) + 1 \in DOMAIN spare'[a] /\ spare'[a][Len(spare[a]) + 1] = s
        BY <2>1, <4>1
      <4>4. ToSet(spare[a]) \subseteq ToSet(spare'[a]) /\ s \in ToSet(spare'[a])
        BY <4>2, <4>3 DEF ToSet
      <4>5. \A b \in Actor : b # a => spare'[b] = spare[b]
        BY <3>1 DEF Before, TypeOK
      <4>6. \A b \in Actor : Holds(SpareOf(b)) \subseteq Holds(SpareOf(b))'
        BY <4>4, <4>5, HolderKinds, HolderKindsPrime
      <4>7. \A k \in Holder : (\A b \in Actor : k # SpareOf(b)) => Holds(k)' = Holds(k)
        BY <2>1, <3>1 DEF Holder, Holds, PoolOf, SpareOf, ConnOf, HeldBy
      <4> QED
        BY <4>4, <4>6, <4>7, HolderKindsPrime
    <3>2. CASE /\ conn' = [conn EXCEPT ![a] = s] /\ UNCHANGED spare
               /\ pc[a] \in {"get_connect", "connect"}
      <4>1. conn[a] = NoSocket
        BY <3>2 DEF Before, CustodyInv, Hands
      <4>2. conn'[a] = s /\ \A b \in Actor : b # a => conn'[b] = conn[b]
        BY <3>2 DEF Before, TypeOK
      <4>3. \A b \in Actor : Holds(ConnOf(b)) \subseteq Holds(ConnOf(b))'
        BY <4>1, <4>2, HolderKinds, HolderKindsPrime
      <4>4. \A k \in Holder : (\A b \in Actor : k # ConnOf(b)) => Holds(k)' = Holds(k)
        BY <2>1, <3>2 DEF Holder, Holds, PoolOf, SpareOf, ConnOf, HeldBy
      <4> QED
        BY <4>2, <4>3, <4>4, HolderKindsPrime, NamesAssumption
    <3> QED
      BY <2>1, <3>1, <3>2
  <2>4. PICK h \in Holder : h[2] = a /\ s \in Holds(h)'
    BY <2>3, HolderKinds DEF SpareOf, ConnOf
  <2>5. OwnersOfHolders /\ OwnersOfHolders'
    BY OwnersHold, OwnersHoldNext DEF Before, After
  <2>6. Owner(s) = NoActor /\ Owner(s)' = a
    BY <2>1, <2>4, <2>5 DEF OwnersOfHolders
  <2>7. ASSUME NEW t \in Socket, t # s PROVE Owner(t)' = Owner(t)
    <3>1. CASE remote[t] = NoEndPoint
      <4>1. remote'[t] = NoEndPoint
        BY <2>1, <2>7, <3>1 DEF Before, TypeOK
      <4> QED
        BY <2>5, <3>1, <4>1 DEF OwnersOfHolders
    <3>2. CASE remote[t] # NoEndPoint
      <4>1. PICK k \in Holder : t \in Holds(k)
        BY <3>2 DEF Before, CustodyInv, OpenHeld
      <4> QED
        BY <2>3, <2>5, <4>1 DEF OwnersOfHolders
    <3> QED
      BY <3>1, <3>2
  <2>8. Custody!Open(a, s, cur[a])
    BY <2>1, <2>6, <2>7 DEF Custody!Open
  <2> QED
    BY <2>2, <2>8 DEF Custody!Next
<1> QED
  BY <1>1, <1>2 DEF ConnectStep

LEMMA CustodyMoves ==
  TypeInv /\ TypeInv' /\ CustodyInv /\ PoolBounded /\ [Next]_vars
    => [Custody!Next]_(Custody!custodyVars)
<1> SUFFICES ASSUME TypeInv, TypeInv', CustodyInv, PoolBounded, [Next]_vars
             PROVE  [Custody!Next]_(Custody!custodyVars)
  OBVIOUS
<1>1. Before /\ After
  BY CustodyStep DEF Before, After, TypeInv
<1>2. CASE UNCHANGED vars
  BY <1>1, <1>2, Untouched DEF vars
<1>3. CASE Next
  BY <1>1, <1>3, OwnerMoves, CallerMoves, ProbeMoves, ConnectMoves DEF Next
<1> QED
  BY <1>2, <1>3

LEMMA CustodyStart == Init => Custody!Init
<1> SUFFICES ASSUME Init PROVE Custody!Init
  OBVIOUS
<1>1. remote = [s \in Socket |-> NoEndPoint]
  BY DEF Init
<1>2. \A s \in Socket : Owner(s) = NoActor
  BY <1>1 DEF Owner
<1> QED
  BY <1>1, <1>2 DEF Custody!Init

\* The pool keeps its promise about every connection: it has one owner, it comes
\* into a pool from the thread that has it and for as long as there is room, and
\* leaves it to one thread or with the whole pool (asio_pool.cpp).
THEOREM PromiseKept == Spec => ImplementsCustody
BY CustodyStart, CustodyMoves, CustodyKept, TypeCorrect, PoolsBounded, PTL
   DEF Spec, ImplementsCustody, Custody!Spec
=============================================================================
