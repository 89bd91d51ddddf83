--------------------------- MODULE AsioPoolProofs ---------------------------
(***************************************************************************)
(* Theorems about AsioPool for every set of endpoints, callers and         *)
(* connections and every maximum and minimum.                              *)
(***************************************************************************)
EXTENDS AsioPool, TLAPS

\* What the labels of a thread say of its locals: past the choice of an
\* endpoint it has one, and past a successful connect it has a connection.
PCInv ==
  \A a \in Actor :
    /\ pc[a] \notin {"idle", "scan", "recheck"} => cur[a] \in EndPoint
    /\ pc[a] \in {"get_connected", "probe_connected"} => conn[a] \in Socket

\* The types alone are not inductive: a thread that inserts its connection
\* into a pool needs to have one.
TypeInv == TypeOK /\ PCInv

-------------------------------------------------------------------------------
(* The helpers *)

\* A function stays typed when one of its values changes to a typed one.
LEMMA UpdateType ==
  ASSUME NEW S, NEW T, NEW f \in [S -> T], NEW x, NEW v \in T
  PROVE  [f EXCEPT ![x] = v] \in [S -> T]
  OBVIOUS

\* A trimmed pool is a pool, and within the maximum when there is one
\* (asio_pool.cpp:731).
LEMMA TrimType ==
  ASSUME NEW p \in Seq(Socket)
  PROVE  /\ Trim(p) \in Seq(Socket)
         /\ Len(Trim(p)) \in Nat
         /\ MaxConn # 0 => Len(Trim(p)) <= MaxConn
  <1> USE ConnAssumption
  <1>1. CASE MaxConn # 0 /\ Len(p) > MaxConn
    <2>1. Trim(p) = SubSeq(p, 1, MaxConn)
      BY <1>1 DEF Trim
    <2>2. \A i \in 1..MaxConn : p[i] \in Socket
      BY <1>1
    <2> QED
      BY <1>1, <2>1, <2>2
  <1>2. CASE ~(MaxConn # 0 /\ Len(p) > MaxConn)
    BY <1>2 DEF Trim
  <1> QED
    BY <1>1, <1>2

\* Closing connections leaves remote and dead typed.
LEMMA CloseType ==
  ASSUME TypeOK, NEW S, Close(S)
  PROVE  /\ remote' \in [Socket -> EndPoint \union {NoEndPoint}]
         /\ dead' \in SUBSET Socket
  BY DEF TypeOK, Close

\* Swapping pools out leaves the pools typed, empty where they were swapped and
\* as they were elsewhere.
LEMMA DropPoolsType ==
  ASSUME TypeOK, NEW E, DropPools(E)
  PROVE  /\ pool' \in [EndPoint -> Seq(Socket)]
         /\ \A e \in EndPoint : pool'[e] = IF e \in E THEN << >> ELSE pool[e]
         /\ remote' \in [Socket -> EndPoint \union {NoEndPoint}]
         /\ dead' \in SUBSET Socket
  <1>1. /\ remote' \in [Socket -> EndPoint \union {NoEndPoint}]
        /\ dead' \in SUBSET Socket
    BY CloseType DEF DropPools
  <1> QED
    BY <1>1 DEF TypeOK, DropPools

\* A need of connections is a natural number (asio_pool.cpp:456).
LEMMA MissingType ==
  ASSUME NEW n \in Nat
  PROVE  Missing(n) \in Nat
  BY ConnAssumption DEF Missing

-------------------------------------------------------------------------------
(* Types *)

LEMMA TypeInit == Init => TypeInv
  BY DEF Init, TypeInv, TypeOK, PCInv, Status, LiveStatus, PC

LEMMA TypeStep ==
  ASSUME TypeInv, [Next]_vars
  PROVE  TypeInv'
  <1> USE NamesAssumption DEF Actor, Status, LiveStatus, PC, GetPC, ProbePC,
                              poolVars, probeVars, Goto, SetStatus
  <1> TypeOK /\ PCInv
    BY DEF TypeInv
  <1>1. CASE Construct
    BY <1>1 DEF Construct, TypeInv, TypeOK, PCInv
  <1>2. CASE StopProbe
    BY <1>2 DEF StopProbe, TypeInv, TypeOK, PCInv
  <1>3. CASE Destroy
    <2>1. /\ pool' \in [EndPoint -> Seq(Socket)]
          /\ remote' \in [Socket -> EndPoint \union {NoEndPoint}]
          /\ dead' \in SUBSET Socket
      BY <1>3, DropPoolsType DEF Destroy
    <2> QED
      BY <1>3, <2>1 DEF Destroy, TypeInv, TypeOK, PCInv
  <1>4. CASE ProbeTimer
    BY <1>4 DEF ProbeTimer, TypeInv, TypeOK, PCInv
  <1>5. ASSUME NEW c \in Caller, CallerStep(c)
        PROVE  TypeInv'
    <2>1. ASSUME NEW e \in EndPoint, Add(c, e)
          PROVE  TypeInv'
      <3>1. /\ pool' \in [EndPoint -> Seq(Socket)]
            /\ remote' \in [Socket -> EndPoint \union {NoEndPoint}]
            /\ dead' \in SUBSET Socket
        BY <2>1, DropPoolsType DEF Add, Register
      <3> QED
        BY <2>1, <3>1 DEF Add, Register, TypeInv, TypeOK, PCInv
    <2>2. ASSUME NEW E \in SUBSET EndPoint, AddAll(c, E)
          PROVE  TypeInv'
      <3>1. /\ pool' \in [EndPoint -> Seq(Socket)]
            /\ remote' \in [Socket -> EndPoint \union {NoEndPoint}]
            /\ dead' \in SUBSET Socket
        BY <2>2, DropPoolsType DEF AddAll, Register
      <3> QED
        BY <2>2, <3>1 DEF AddAll, Register, TypeInv, TypeOK, PCInv
    <2>3. ASSUME NEW e \in EndPoint, Del(c, e)
          PROVE  TypeInv'
      <3>1. /\ pool' \in [EndPoint -> Seq(Socket)]
            /\ remote' \in [Socket -> EndPoint \union {NoEndPoint}]
            /\ dead' \in SUBSET Socket
        BY <2>3, DropPoolsType DEF Del
      <3> QED
        BY <2>3, <3>1 DEF Del, TypeInv, TypeOK, PCInv
    <2>4. ASSUME NEW e \in EndPoint, GetPooled(c, e)
          PROVE  TypeInv'
      <3>1. Last(pool[e]) \in Socket /\ Front(pool[e]) \in Seq(Socket)
        BY <2>4 DEF GetPooled, Usable, Last, Front, TypeOK
      <3> QED
        BY <2>4, <3>1 DEF GetPooled, TypeInv, TypeOK, PCInv
    <2>5. ASSUME NEW e \in EndPoint, GetMiss(c, e)
          PROVE  TypeInv'
      <3>1. /\ pool' \in [EndPoint -> Seq(Socket)]
            /\ remote' \in [Socket -> EndPoint \union {NoEndPoint}]
            /\ dead' \in SUBSET Socket
        BY <2>5, DropPoolsType DEF GetMiss
      <3> QED
        BY <2>5, <3>1 DEF GetMiss, TypeInv, TypeOK, PCInv
    <2>6. CASE Clear(c)
      <3>1. /\ pool' \in [EndPoint -> Seq(Socket)]
            /\ remote' \in [Socket -> EndPoint \union {NoEndPoint}]
            /\ dead' \in SUBSET Socket
        BY <2>6, DropPoolsType DEF Clear
      <3> QED
        BY <2>6, <3>1 DEF Clear, TypeInv, TypeOK, PCInv
    <2>7. CASE GetFailed(c)
      <3>1. /\ pool' \in [EndPoint -> Seq(Socket)]
            /\ remote' \in [Socket -> EndPoint \union {NoEndPoint}]
            /\ dead' \in SUBSET Socket
        BY <2>7, DropPoolsType DEF GetFailed
      <3> QED
        BY <2>7, <3>1 DEF GetFailed, TypeInv, TypeOK, PCInv
    <2>8. CASE GetConnected(c)
      BY <2>8 DEF GetConnected, TypeInv, TypeOK, PCInv
    <2>9. CASE Put(c)
      <3> DEFINE e == remote[held[c]]
                 p == Append(pool[e], held[c])
      <3>1. PICK S : Close(S)
        BY <2>9 DEF Put
      <3>2. e \in EndPoint => p \in Seq(Socket)
        BY <2>9 DEF Put, TypeOK
      <3>3. e \in EndPoint => Trim(p) \in Seq(Socket)
        BY <3>2, TrimType
      <3>4. pool' \in [EndPoint -> Seq(Socket)]
        BY <2>9, <3>3 DEF Put, TypeOK
      <3> QED
        BY <2>9, <3>1, <3>4, CloseType DEF Put, TypeInv, TypeOK, PCInv
    <2>10. CASE CallerClose(c)
      BY <2>10, CloseType DEF CallerClose, TypeInv, TypeOK, PCInv
    <2> QED
      BY <1>5, <2>1, <2>2, <2>3, <2>4, <2>5, <2>6, <2>7, <2>8, <2>9, <2>10
      DEF CallerStep
  <1>6. ASSUME NEW a \in Actor, ProbeStep(a)
        PROVE  TypeInv'
    <2>1. CASE Scan(a)
      <3>1. /\ pool' \in [EndPoint -> Seq(Socket)]
            /\ remote' \in [Socket -> EndPoint \union {NoEndPoint}]
            /\ dead' \in SUBSET Socket
        BY <2>1, DropPoolsType DEF Scan
      <3>2. todo' \in [Actor -> [EndPoint -> LiveStatus \union {"none"}]]
        BY <2>1 DEF Scan, Unavailable, Suspect, TypeOK
      <3>3. status' \in [EndPoint -> Status]
        BY <2>1 DEF Scan, TypeOK
      <3> QED
        BY <2>1, <3>1, <3>2, <3>3 DEF Scan, TypeInv, TypeOK, PCInv
    <2>2. ASSUME NEW e \in EndPoint, Recheck(a, e)
          PROVE  TypeInv'
      <3>1. todo' \in [Actor -> [EndPoint -> LiveStatus \union {"none"}]]
        <4>1. todo[a] \in [EndPoint -> LiveStatus \union {"none"}]
          BY DEF TypeOK
        <4>2. [todo[a] EXCEPT ![e] = "none"] \in [EndPoint -> LiveStatus \union {"none"}]
          BY <4>1
        <4>3. todo' = [todo EXCEPT ![a] = [todo[a] EXCEPT ![e] = "none"]]
          BY <2>2 DEF Recheck, Visited, TypeOK
        <4> QED
          BY <4>2, <4>3 DEF TypeOK
      <3>2. pc' \in [Actor -> PC] /\ cur' \in [Actor -> EndPoint \union {NoEndPoint}]
        <4>1. CASE pc' = pc /\ cur' = cur
          BY <4>1 DEF TypeOK
        <4>2. CASE pc' = [pc EXCEPT ![a] = "connect"] /\ cur' = [cur EXCEPT ![a] = e]
          BY <4>2 DEF TypeOK
        <4> QED
          BY <2>2, <4>1, <4>2 DEF Recheck
      <3>3. PCInv'
        <4>1. conn' = conn
          BY <2>2 DEF Recheck
        <4>2. CASE pc' = pc /\ cur' = cur
          BY <4>1, <4>2 DEF PCInv
        <4>3. CASE pc' = [pc EXCEPT ![a] = "connect"] /\ cur' = [cur EXCEPT ![a] = e]
          BY <4>1, <4>3 DEF PCInv, TypeOK
        <4> QED
          BY <2>2, <4>2, <4>3 DEF Recheck
      <3> QED
        BY <2>2, <3>1, <3>2, <3>3 DEF Recheck, TypeInv, TypeOK
    <2>3. CASE ProbeFailed(a)
      <3>1. /\ pool' \in [EndPoint -> Seq(Socket)]
            /\ remote' \in [Socket -> EndPoint \union {NoEndPoint}]
            /\ dead' \in SUBSET Socket
        BY <2>3, DropPoolsType DEF ProbeFailed, TypeOK
      <3> QED
        BY <2>3, <3>1 DEF ProbeFailed, TypeInv, TypeOK, PCInv
    <2>4. CASE ProbeConnected(a)
      <3> DEFINE e == cur[a]
                 p == Append(pool[e], conn[a])
      <3>1. e \in EndPoint /\ conn[a] \in Socket
        BY <2>4 DEF ProbeConnected, PCInv
      <3>2. p \in Seq(Socket)
        BY <3>1 DEF TypeOK
      <3>3. Trim(p) \in Seq(Socket) /\ Missing(Len(Trim(p))) \in Nat
        BY <3>2, TrimType, MissingType
      <3>4. PICK S : Close(S)
        BY <2>4 DEF ProbeConnected
      <3>5. /\ pool' \in [EndPoint -> Seq(Socket)]
            /\ need' \in [Actor -> Nat]
        <4>1. pool' = pool \/ pool' = [pool EXCEPT ![e] = Trim(p)]
          BY <2>4 DEF ProbeConnected
        <4>2. \E n \in Nat : need' = [need EXCEPT ![a] = n]
          <5>1. CASE status[e] = "kDeleting"
            BY <2>4, <5>1 DEF ProbeConnected
          <5>2. CASE status[e] # "kDeleting"
            BY <2>4, <3>3, <5>2 DEF ProbeConnected
          <5> QED
            BY <5>1, <5>2
        <4> HIDE DEF e, p
        <4>3. pool \in [EndPoint -> Seq(Socket)] /\ need \in [Actor -> Nat]
          BY DEF TypeOK
        <4> QED
          BY <3>3, <4>1, <4>2, <4>3, UpdateType
      <3>6. status' \in [EndPoint -> Status]
        BY <2>4 DEF ProbeConnected, TypeOK
      <3>7. cur' \in [Actor -> EndPoint \union {NoEndPoint}] /\ pc' \in [Actor -> PC]
        BY <2>4 DEF ProbeConnected, TypeOK
      <3>8. PCInv'
        BY <2>4, <3>1 DEF ProbeConnected, TypeOK, PCInv
      <3> HIDE DEF e, p
      <3> QED
        BY <2>4, <3>4, <3>5, <3>6, <3>7, <3>8, CloseType
        DEF ProbeConnected, TypeInv, TypeOK
    <2>5. CASE FillInsert(a)
      <3> DEFINE e == cur[a]
                 p == pool[e] \o spare[a]
      <3>1. e \in EndPoint
        BY <2>5 DEF FillInsert, PCInv
      <3>2. p \in Seq(Socket)
        BY <3>1 DEF TypeOK
      <3>3. Trim(p) \in Seq(Socket)
        BY <3>2, TrimType
      <3>4. PICK S : Close(S)
        BY <2>5 DEF FillInsert
      <3>5. pool' \in [EndPoint -> Seq(Socket)]
        BY <2>5, <3>3 DEF FillInsert, TypeOK
      <3> QED
        BY <2>5, <3>4, <3>5, CloseType DEF FillInsert, TypeInv, TypeOK, PCInv
    <2>6. CASE ProbeDone(a)
      BY <2>6 DEF ProbeDone, Unlock, TypeInv, TypeOK, PCInv
    <2> QED
      BY <1>6, <2>1, <2>2, <2>3, <2>4, <2>5, <2>6 DEF ProbeStep
  <1>7. ASSUME NEW a \in Actor, ConnectStep(a)
        PROVE  TypeInv'
    <2>1. CASE ConnectOk(a)
      <3> USE DEF ConnectPC
      <3>1. remote' \in [Socket -> EndPoint \union {NoEndPoint}]
        BY <2>1 DEF ConnectOk, TypeOK
      <3>2. /\ conn' \in [Actor -> Socket \union {NoSocket}]
            /\ spare' \in [Actor -> Seq(Socket)]
        <4>1. PICK s \in Socket :
                IF pc[a] = "fill"
                  THEN spare' = [spare EXCEPT ![a] = Append(@, s)] /\ conn' = conn
                  ELSE conn' = [conn EXCEPT ![a] = s] /\ spare' = spare
          BY <2>1 DEF ConnectOk
        <4>2. Append(spare[a], s) \in Seq(Socket)
          BY DEF TypeOK
        <4>3. /\ conn \in [Actor -> Socket \union {NoSocket}]
              /\ spare \in [Actor -> Seq(Socket)]
          BY DEF TypeOK
        <4>4. CASE pc[a] = "fill"
          BY <4>1, <4>2, <4>3, <4>4, UpdateType
        <4>5. CASE pc[a] # "fill"
          BY <4>1, <4>3, <4>5, UpdateType
        <4> QED
          BY <4>4, <4>5
      <3>3. pc' \in [Actor -> PC]
        BY <2>1 DEF ConnectOk, TypeOK
      <3>4. PCInv'
        BY <2>1 DEF ConnectOk, TypeOK, PCInv
      <3> QED
        BY <2>1, <3>1, <3>2, <3>3, <3>4 DEF ConnectOk, TypeInv, TypeOK
    <2>2. CASE ConnectFail(a)
      BY <2>2 DEF ConnectFail, ConnectPC, TypeInv, TypeOK, PCInv
    <2> QED
      BY <1>7, <2>1, <2>2 DEF ConnectStep
  <1>8. CASE ServerStep
    BY <1>8 DEF ServerStep, ServerDown, ServerUp, ServerClose, TypeInv, TypeOK, PCInv
  <1>9. CASE UNCHANGED vars
    BY <1>9 DEF vars, TypeInv, TypeOK, PCInv
  <1> QED
    BY <1>1, <1>2, <1>3, <1>4, <1>5, <1>6, <1>7, <1>8, <1>9 DEF Next

\* Every variable keeps its type, and a thread that is about to use an endpoint
\* or a connection of its own has one, in every reachable state.
THEOREM TypeCorrect == Spec => []TypeInv
  <1>1. Init => TypeInv
    BY TypeInit
  <1>2. TypeInv /\ [Next]_vars => TypeInv'
    BY TypeStep
  <1> QED
    BY <1>1, <1>2, PTL DEF Spec

\* Every variable keeps its type.
THEOREM Typed == Spec => []TypeOK
  <1>1. TypeInv => TypeOK
    BY DEF TypeInv
  <1> QED
    BY <1>1, TypeCorrect, PTL

-------------------------------------------------------------------------------
(* Pools *)

\* What a step does to the pool of e: it empties it, takes its newest
\* connection, puts a trimmed sequence in the place of a pool that is, or
\* becomes, connected, or leaves it as it is together with kConnected.
PoolMove(e) ==
  \/ pool'[e] = << >>
  \/ pool'[e] = pool[e] /\ (status[e] = "kConnected" => status'[e] = "kConnected")
  \/ pool[e] # << >> /\ pool'[e] = Front(pool[e]) /\ status'[e] = status[e]
  \/ status'[e] = "kConnected" /\ \E p \in Seq(Socket) : pool'[e] = Trim(p)

LEMMA PoolSteps ==
  ASSUME TypeInv, [Next]_vars, NEW d \in EndPoint
  PROVE  PoolMove(d)
  <1> USE DEF SetStatus, poolVars, PoolMove
  <1>0. TypeOK /\ PCInv
    BY DEF TypeInv
  <1>1. CASE Construct \/ StopProbe \/ ProbeTimer \/ ServerStep \/ UNCHANGED vars
    BY <1>1 DEF Construct, StopProbe, ProbeTimer, ServerStep, ServerDown, ServerUp,
                ServerClose, vars
  <1>2. CASE Destroy
    BY <1>2 DEF Destroy, DropPools
  <1>3. ASSUME NEW c \in Caller, CallerStep(c)
        PROVE  PoolMove(d)
    <2>1. ASSUME NEW E \in SUBSET EndPoint, Register(E)
          PROVE  PoolMove(d)
      BY <2>1 DEF Register, DropPools
    <2>2. ASSUME NEW e \in EndPoint, Add(c, e)
          PROVE  PoolMove(d)
      BY <2>1, <2>2 DEF Add
    <2>3. ASSUME NEW E \in SUBSET EndPoint, AddAll(c, E)
          PROVE  PoolMove(d)
      BY <2>1, <2>3 DEF AddAll
    <2>4. ASSUME NEW e \in EndPoint, Del(c, e)
          PROVE  PoolMove(d)
      BY <1>0, <2>4 DEF Del, DropPools, TypeOK
    <2>5. ASSUME NEW e \in EndPoint, GetPooled(c, e)
          PROVE  PoolMove(d)
      BY <1>0, <2>5 DEF GetPooled, Usable, TypeOK
    <2>6. ASSUME NEW e \in EndPoint, GetMiss(c, e)
          PROVE  PoolMove(d)
      BY <2>6 DEF GetMiss, DropPools
    <2>7. CASE Clear(c)
      BY <2>7 DEF Clear, DropPools
    <2>8. CASE GetFailed(c)
      BY <1>0, <2>8 DEF GetFailed, DropPools, TypeOK
    <2>9. CASE GetConnected(c) \/ CallerClose(c)
      BY <2>9 DEF GetConnected, CallerClose
    <2>10. CASE Put(c)
      <3> DEFINE e == remote[held[c]]
                 p == Append(pool[e], held[c])
      <3>1. status' = status
        BY <2>10 DEF Put
      <3>2. CASE d = e /\ status[e] = "kConnected"
        <4>1. p \in Seq(Socket)
          BY <1>0, <2>10, <3>2 DEF Put, TypeOK
        <4>2. pool'[d] = Trim(p)
          BY <1>0, <2>10, <3>2 DEF Put, Accepts, TypeOK
        <4> HIDE DEF e, p
        <4> QED
          BY <3>1, <3>2, <4>1, <4>2
      <3>3. CASE ~(d = e /\ status[e] = "kConnected")
        BY <1>0, <2>10, <3>1, <3>3 DEF Put, Accepts, TypeOK
      <3> QED
        BY <3>2, <3>3
    <2> QED
      BY <1>3, <2>2, <2>3, <2>4, <2>5, <2>6, <2>7, <2>8, <2>9, <2>10 DEF CallerStep
  <1>4. ASSUME NEW a \in Actor, ProbeStep(a)
        PROVE  PoolMove(d)
    <2>1. CASE Scan(a)
      <3>1. CASE d \in Gone \/ Suspect(a, d)
        BY <2>1, <3>1 DEF Scan, DropPools
      <3>2. CASE ~(d \in Gone \/ Suspect(a, d))
        BY <2>1, <3>2 DEF Scan, DropPools
      <3> QED
        BY <3>1, <3>2
    <2>2. CASE ProbeDone(a) \/ \E e \in EndPoint : Recheck(a, e)
      BY <2>2 DEF ProbeDone, Recheck
    <2>3. CASE ProbeFailed(a)
      BY <1>0, <2>3 DEF ProbeFailed, DropPools, TypeOK
    <2>4. CASE ProbeConnected(a)
      <3> DEFINE e == cur[a]
                 p == Append(pool[e], conn[a])
      <3>1. e \in EndPoint /\ conn[a] \in Socket
        BY <1>0, <2>4 DEF ProbeConnected, PCInv
      <3>2. p \in Seq(Socket)
        BY <1>0, <3>1 DEF TypeOK
      <3>3. CASE status[e] = "kDeleting"
        BY <2>4, <3>3 DEF ProbeConnected
      <3>4. CASE status[e] # "kDeleting"
        <4>1. status' = [status EXCEPT ![e] = "kConnected"]
          BY <2>4, <3>4 DEF ProbeConnected
        <4>2. pool' = [pool EXCEPT ![e] = Trim(p)]
          BY <2>4, <3>4 DEF ProbeConnected
        <4> HIDE DEF e, p
        <4>3. CASE d = e
          BY <1>0, <3>2, <4>1, <4>2, <4>3 DEF TypeOK
        <4>4. CASE d # e
          BY <1>0, <4>1, <4>2, <4>4 DEF TypeOK
        <4> QED
          BY <4>3, <4>4
      <3> QED
        BY <3>3, <3>4
    <2>5. CASE FillInsert(a)
      <3> DEFINE e == cur[a]
                 p == pool[e] \o spare[a]
      <3>1. e \in EndPoint
        BY <1>0, <2>5 DEF FillInsert, PCInv
      <3>2. p \in Seq(Socket)
        BY <1>0, <2>5, <3>1 DEF TypeOK
      <3>3. status' = status
        BY <2>5 DEF FillInsert
      <3>4. CASE d = e /\ status[e] = "kConnected"
        <4>1. pool'[d] = Trim(p)
          BY <1>0, <2>5, <3>4 DEF FillInsert, Accepts, TypeOK
        <4> HIDE DEF e, p
        <4> QED
          BY <3>2, <3>3, <3>4, <4>1
      <3>5. CASE ~(d = e /\ status[e] = "kConnected")
        BY <1>0, <2>5, <3>3, <3>5 DEF FillInsert, Accepts, TypeOK
      <3> QED
        BY <3>4, <3>5
    <2> QED
      BY <1>4, <2>1, <2>2, <2>3, <2>4, <2>5 DEF ProbeStep
  <1>5. ASSUME NEW a \in Actor, ConnectStep(a)
        PROVE  PoolMove(d)
    BY <1>5 DEF ConnectStep, ConnectOk, ConnectFail
  <1> QED
    BY <1>1, <1>2, <1>3, <1>4, <1>5 DEF Next

\* In every reachable state only a connected endpoint has idle connections: no
\* thread moves an endpoint out of kConnected and leaves its pool behind.
THEOREM PoolsOfConnected == Spec => []OnlyConnectedPools
  <1>1. Init => OnlyConnectedPools
    BY DEF Init, OnlyConnectedPools
  <1>2. TypeInv /\ OnlyConnectedPools /\ [Next]_vars => OnlyConnectedPools'
    <2> SUFFICES ASSUME TypeInv, OnlyConnectedPools, [Next]_vars,
                        NEW e \in EndPoint, pool'[e] # << >>
                 PROVE  status'[e] = "kConnected"
      BY DEF OnlyConnectedPools
    <2>1. PoolMove(e)
      BY PoolSteps
    <2> QED
      BY <2>1 DEF PoolMove, OnlyConnectedPools
  <1> QED
    BY <1>1, <1>2, TypeCorrect, PTL DEF Spec

\* In every reachable state a pool has at most max_conn_per_endpoint idle
\* connections, when that is not 0.
THEOREM PoolsBounded == Spec => []PoolBounded
  <1> USE ConnAssumption
  <1>1. Init => PoolBounded
    BY DEF Init, PoolBounded
  <1>2. TypeInv /\ PoolBounded /\ [Next]_vars => PoolBounded'
    <2> SUFFICES ASSUME TypeInv, PoolBounded, [Next]_vars,
                        MaxConn # 0, NEW e \in EndPoint
                 PROVE  Len(pool'[e]) <= MaxConn
      BY DEF PoolBounded
    <2>1. PoolMove(e)
      BY PoolSteps
    <2>2. pool[e] \in Seq(Socket) /\ Len(pool[e]) <= MaxConn
      BY DEF TypeInv, TypeOK, PoolBounded
    <2>3. CASE pool[e] # << >> /\ pool'[e] = Front(pool[e])
      <3>1. Len(Front(pool[e])) = Len(pool[e]) - 1
        BY <2>2, <2>3 DEF Front
      <3> QED
        BY <2>2, <2>3, <3>1
    <2>4. CASE \E p \in Seq(Socket) : pool'[e] = Trim(p)
      BY <2>4, TrimType
    <2> QED
      BY <2>1, <2>2, <2>3, <2>4 DEF PoolMove
  <1> QED
    BY <1>1, <1>2, TypeCorrect, PTL DEF Spec

\* A move of the table (asio_pool.cpp:124).
Move(e) ==
  status'[e] # status[e] =>
    /\ status'[e] = "kAdding" => status[e] \in {"kDeleting", "kDeleted"}
    /\ status'[e] = "kDeleting" => status[e] \in LiveStatus
    /\ status'[e] = "kDeleted" => \/ status[e] = "kDeleting"
                                  \/ \A d \in EndPoint : status'[d] = "kDeleted"

LEMMA MoveSteps ==
  ASSUME TypeInv, [Next]_vars, NEW e \in EndPoint
  PROVE  Move(e)
  <1>1. CASE UNCHANGED status
    BY <1>1 DEF Move
  <1>2. ASSUME NEW E \in SUBSET EndPoint, Register(E) PROVE Move(e)
    BY <1>2 DEF Register, ToAdd, Move
  <1>3. ASSUME NEW d, NEW st \in {"kConnected", "kDisConnected"}, SetStatus(d, st)
        PROVE  Move(e)
    BY <1>3 DEF SetStatus, Move, TypeInv, TypeOK
  <1>4. CASE status' = [d \in EndPoint |-> "kDeleted"]
    BY <1>4 DEF Move
  <1>5. CASE Construct \/ StopProbe \/ ProbeTimer \/ ServerStep \/ UNCHANGED vars
    BY <1>1, <1>5 DEF Construct, StopProbe, ProbeTimer, ServerStep, ServerDown, ServerUp,
                      ServerClose, vars, poolVars
  <1>6. CASE Destroy
    BY <1>4, <1>6 DEF Destroy
  <1>7. ASSUME NEW c \in Caller, CallerStep(c) PROVE Move(e)
    <2>1. ASSUME NEW d \in EndPoint, Del(c, d) PROVE Move(e)
      BY <2>1 DEF Del, SetStatus, LiveStatus, Move, TypeInv, TypeOK
    <2>2. CASE Clear(c)
      BY <1>4, <2>2 DEF Clear
    <2>3. CASE GetFailed(c)
      BY <1>3, <2>3 DEF GetFailed
    <2>4. ASSUME NEW d \in EndPoint, Add(c, d) PROVE Move(e)
      BY <1>2, <2>4 DEF Add
    <2>5. ASSUME NEW E \in SUBSET EndPoint, AddAll(c, E) PROVE Move(e)
      BY <1>2, <2>5 DEF AddAll
    <2>6. ASSUME NEW d \in EndPoint, GetPooled(c, d) \/ GetMiss(c, d) PROVE Move(e)
      BY <1>1, <2>6 DEF GetPooled, GetMiss
    <2>7. CASE GetConnected(c) \/ Put(c) \/ CallerClose(c)
      BY <1>1, <2>7 DEF GetConnected, Put, CallerClose, poolVars
    <2> QED
      BY <1>7, <2>1, <2>2, <2>3, <2>4, <2>5, <2>6, <2>7 DEF CallerStep
  <1>8. ASSUME NEW a \in Actor, ProbeStep(a) PROVE Move(e)
    <2>1. CASE Scan(a)
      BY <2>1 DEF Scan, Gone, Move
    <2>2. CASE ProbeFailed(a) \/ ProbeConnected(a)
      BY <1>1, <1>3, <2>2 DEF ProbeFailed, ProbeConnected
    <2>3. CASE (\E d \in EndPoint : Recheck(a, d)) \/ FillInsert(a) \/ ProbeDone(a)
      BY <1>1, <2>3 DEF Recheck, FillInsert, ProbeDone, poolVars
    <2> QED
      BY <1>8, <2>1, <2>2, <2>3 DEF ProbeStep
  <1>9. ASSUME NEW a \in Actor, ConnectStep(a) PROVE Move(e)
    BY <1>1, <1>9 DEF ConnectStep, ConnectOk, ConnectFail, poolVars
  <1> QED
    BY <1>5, <1>6, <1>7, <1>8, <1>9 DEF Next

\* In every step statuses move along the table, as far as the code keeps it: no
\* thread adds an endpoint that is live, deletes one that is not, or forgets one
\* that was not being deleted.
THEOREM TableKept == Spec => StatusMoves
  <1>1. TypeInv /\ [Next]_vars =>
          [\A e \in EndPoint : status'[e] # status[e] =>
             /\ status'[e] = "kAdding" => status[e] \in {"kDeleting", "kDeleted"}
             /\ status'[e] = "kDeleting" => status[e] \in LiveStatus
             /\ status'[e] = "kDeleted" => \/ status[e] = "kDeleting"
                                           \/ \A d \in EndPoint : status'[d] = "kDeleted"
          ]_vars
    BY MoveSteps DEF Move
  <1> QED
    BY <1>1, TypeCorrect, PTL DEF Spec, StatusMoves
======================================================================
