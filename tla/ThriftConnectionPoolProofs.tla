---------------------- MODULE ThriftConnectionPoolProofs ----------------------
(***************************************************************************)
(* Theorems about ThriftConnectionPool for any number of threads and       *)
(* connections, any minimum and any maximum.                               *)
(***************************************************************************)
EXTENDS ThriftConnectionPool, FiniteSetTheorems, TLAPS

\* TypeOK but for what it says of the connections that exist.
Types ==
  /\ phase \in {"running", "stopping", "destroyed"}
  /\ status_ \in {"kConnected", "kClosed"}
  /\ free_connections_ \subseteq Conn /\ allocated_connections_ \subseteq Conn
  /\ closed_connections_ \subseteq Conn
  /\ pc \in [Thread -> {"idle", "take", "create", "connect", "got", "check", "put",
                        "put_back", "set_status", "reclaim"}]
  /\ task \in [Thread -> Task]
  /\ client \in [Thread -> Conn \union {NoConn}]
  /\ held \in [Caller -> Conn \union {NoConn}]
  /\ {ok, quick, up} \subseteq BOOLEAN
  /\ {create, drop_free, drop_closed} \subseteq Nat

\* A thread has a connection in its hand only on the way of one from place to
\* place, and a caller that was given one is idle until it puts it back.
Hands ==
  /\ \A a \in Thread :
       client[a] # NoConn <=> pc[a] \in {"connect", "got", "check", "put", "put_back"}
  /\ \A a \in Caller : held[a] # NoConn => pc[a] = "idle"

\* A connection is in one set or in one hand.
Apart ==
  /\ free_connections_ \intersect allocated_connections_ = {}
  /\ free_connections_ \intersect closed_connections_ = {}
  /\ allocated_connections_ \intersect closed_connections_ = {}
  /\ \A a \in Thread :
       client[a] \notin free_connections_ \union allocated_connections_ \union closed_connections_
  /\ \A a, b \in Thread : client[a] # NoConn /\ client[a] = client[b] => a = b

\* What is allocated is held by one caller, and marked until it is put back.
Allocated ==
  /\ \A a \in Caller : held[a] # NoConn => held[a] \in allocated_connections_
  /\ \A c \in allocated_connections_ : c \in in_use_ /\ \E a \in Caller : held[a] = c
  /\ \A a, b \in Caller : held[a] # NoConn /\ held[a] = held[b] => a = b
  /\ \A c \in in_use_ \ allocated_connections_ :
       \E a \in Caller : pc[a] = "put" /\ client[a] = c

\* Connections are filed by whether they are open, and only what exists is open.
Filed ==
  /\ free_connections_ \subseteq open
  /\ closed_connections_ \intersect open = {}
  /\ gone \subseteq open
  /\ open \subseteq Live

PlaceInv == Types /\ Hands /\ Apart /\ Allocated /\ Filed

-------------------------------------------------------------------------------
(* Types *)

LEMMA SetSizes ==
  ASSUME Types
  PROVE  /\ Cardinality(free_connections_) \in Nat
         /\ Cardinality(allocated_connections_) \in Nat
         /\ Cardinality(closed_connections_) \in Nat
BY FiniteAssumption, FS_Subset, FS_CardinalityType DEF Types

\* put_connection files the connection in one of the sets.
LEMMA PutSets ==
  ASSUME Types, Hands, NEW a \in Thread, pc[a] \in {"got", "put", "put_back"}, PutConnection(a)
  PROVE  /\ client[a] \in Conn
         /\ free_connections_' = free_connections_ \union ({client[a]} \intersect open)
         /\ closed_connections_' = closed_connections_ \union ({client[a]} \ open)
BY DEF Types, Hands, PutConnection

LEMMA TypesStep == Types /\ Hands /\ [Next]_vars => Types'
<1> SUFFICES ASSUME Types, Hands, [Next]_vars PROVE Types'
  OBVIOUS
<1> USE DEF Types, Goto, Hand, Take, Thread, Task
<1>1. ASSUME NEW c \in Caller, CallerStep(c) PROVE Types'
  <2>1. CASE Get(c)
    BY <2>1 DEF Get, Start, setVars, netVars, reclaimVars
  <2>2. CASE Got(c)
    <3>1. free_connections_' \subseteq Conn /\ closed_connections_' \subseteq Conn
      BY <2>2, PutSets DEF Got
    <3>2. client[c] \in Conn
      BY <2>2 DEF Got, Hands
    <3> QED
      BY <2>2, <3>1, <3>2 DEF Got, setVars, netVars, reclaimVars
  <2>3. CASE Put(c)
    BY <2>3 DEF Put, setVars, netVars, reclaimVars
  <2>4. CASE PutBack(c)
    <3>1. free_connections_' \subseteq Conn /\ closed_connections_' \subseteq Conn
      BY <2>4, PutSets DEF PutBack
    <3> QED
      BY <2>4, <3>1 DEF PutBack, setVars, netVars, reclaimVars
  <2>5. CASE Close(c)
    BY <2>5 DEF Close, setVars, netVars, reclaimVars
  <2> QED
    BY <1>1, <2>1, <2>2, <2>3, <2>4, <2>5 DEF CallerStep
<1>2. ASSUME NEW a \in Thread, Acquire(a) PROVE Types'
  <2>1. CASE TakeFree(a)
    <3>1. pc' \in {[pc EXCEPT ![a] = label] : label \in {"got", "check", "create"}}
      BY <2>1 DEF TakeFree
    <3>2. client' \in [Thread -> Conn \union {NoConn}] /\ free_connections_' \subseteq Conn
      BY <2>1 DEF TakeFree
    <3> QED
      BY <2>1, <3>1, <3>2 DEF TakeFree, setVars, netVars, reclaimVars
  <2>2. CASE CreateConnection(a)
    BY <2>2 DEF CreateConnection, setVars, netVars, reclaimVars
  <2>3. CASE Connect(a)
    <3>1. pc' \in {[pc EXCEPT ![a] = label] : label \in {"got", "put_back", "check"}}
      BY <2>3 DEF Connect
    <3> QED
      BY <2>3, <3>1 DEF Connect, setVars, netVars, reclaimVars
  <2> QED
    BY <1>2, <2>1, <2>2, <2>3 DEF Acquire
<1>3. CASE UpdateStatus \/ QuickUpdateStatus
  BY <1>3 DEF UpdateStatus, QuickUpdateStatus, Start, setVars, netVars, reclaimVars
<1>4. CASE ReclaimConnections
  <2>1. create' \in Nat /\ drop_free' \in Nat /\ drop_closed' \in Nat
    BY <1>4, SetSizes, ConnAssumption DEF ReclaimConnections, ToCreate, Minus, Smaller
  <2> QED
    BY <1>4, <2>1 DEF ReclaimConnections, setVars, netVars, reclaimVars
<1>5. CASE ProbeStep
  <2>1. CASE Acquire(Prober)
    BY <1>2, <2>1
  <2>2. CASE Check
    BY <2>2 DEF Check, setVars, netVars, reclaimVars
  <2>3. CASE ProbePutBack
    <3>1. pc' \in {[pc EXCEPT ![Prober] = label] : label \in {"reclaim", "set_status"}}
      BY <2>3 DEF ProbePutBack
    <3> QED
      BY <2>3, <3>1, PutSets DEF ProbePutBack, setVars, netVars, reclaimVars
  <2>4. CASE SetStatus
    BY <2>4 DEF SetStatus, NewStatus, setVars, netVars, reclaimVars
  <2>5. CASE ReclaimCreate
    BY <2>5 DEF ReclaimCreate, setVars, netVars, reclaimVars
  <2>6. CASE ReclaimFree
    BY <2>6 DEF ReclaimFree, setVars, netVars, reclaimVars
  <2>7. CASE ReclaimClosed
    BY <2>7 DEF ReclaimClosed, setVars, netVars, reclaimVars
  <2>8. CASE ReclaimDone
    BY <2>8 DEF ReclaimDone, setVars, netVars, reclaimVars
  <2> QED
    BY <1>5, <2>1, <2>2, <2>3, <2>4, <2>5, <2>6, <2>7, <2>8 DEF ProbeStep
<1>6. CASE StopProbe \/ Destroy
  BY <1>6 DEF StopProbe, Destroy, setVars, netVars, reclaimVars
<1>7. CASE ServerTurn \/ \E c \in Conn : ServerClose(c)
  BY <1>7 DEF ServerTurn, ServerClose, setVars, netVars, reclaimVars
<1>8. CASE UNCHANGED vars
  BY <1>8 DEF vars, setVars, netVars, reclaimVars
<1> QED
  BY <1>1, <1>2, <1>3, <1>4, <1>5, <1>6, <1>7, <1>8 DEF Next

-------------------------------------------------------------------------------
(* Places *)

\* The connections that exist are in a set or in a hand.
Somewhere ==
  \A c \in Conn :
    c \in Live <=>
      \/ c \in free_connections_ \union allocated_connections_ \union closed_connections_
      \/ \E a \in Thread : client[a] = c
      \/ \E a \in Caller : held[a] = c

LEMMA Existing == Types => Somewhere
<1> SUFFICES ASSUME Types PROVE Somewhere
  OBVIOUS
<1>1. /\ \A c : c \in Values(client) <=> \E a \in Thread : client[a] = c
      /\ \A c : c \in Values(held) <=> \E a \in Caller : held[a] = c
  BY DEF Types, Values
<1>2. \A c \in Conn : c # NoConn
  BY NamesAssumption
<1> QED
  BY <1>1, <1>2 DEF Somewhere, Live

LEMMA ExistingNext == Types' => Somewhere'
BY Existing, PTL

\* Steps that move no connection.
LEMMA StandingSteps ==
  ASSUME PlaceInv, Types', UNCHANGED <<setVars, client, held, in_use_>>,
         \A a \in Thread :
           \/ pc'[a] = pc[a]
           \/ client[a] = NoConn /\ pc'[a] \notin {"connect", "got", "check", "put", "put_back"}
              /\ (a \in Caller /\ held[a] # NoConn => pc'[a] = "idle")
           \/ client[a] # NoConn /\ pc[a] # "put" /\ pc'[a] \in {"got", "check", "put_back"},
         \E S \in SUBSET allocated_connections_ :
           \E T \in SUBSET {client[a] : a \in {b \in Thread : client[b] # NoConn}} :
             open \ (S \union T) \subseteq open' /\ open' \subseteq open \union T,
         gone' \subseteq open'
  PROVE  PlaceInv'
<1>1. Hands'
  BY DEF PlaceInv, Hands, Thread
<1>2. Apart'
  BY DEF PlaceInv, Apart, setVars
<1>3. Allocated'
  BY DEF PlaceInv, Allocated, Hands, setVars, Thread
<1>4. Filed'
  <2>1. PICK S \in SUBSET allocated_connections_ :
               \E T \in SUBSET {client[a] : a \in {b \in Thread : client[b] # NoConn}} :
                 open \ (S \union T) \subseteq open' /\ open' \subseteq open \union T
    OBVIOUS
  <2>2. PICK T \in SUBSET {client[a] : a \in {b \in Thread : client[b] # NoConn}} :
               open \ (S \union T) \subseteq open' /\ open' \subseteq open \union T
    BY <2>1
  <2>3. (S \union T) \intersect free_connections_ = {} /\ T \intersect closed_connections_ = {}
    BY DEF PlaceInv, Apart
  <2>4. Live' = Live
    BY DEF Live, setVars
  <2>5. T \subseteq Live
    BY Existing DEF PlaceInv, Types, Somewhere
  <2> QED
    BY <2>2, <2>3, <2>4, <2>5 DEF PlaceInv, Filed, setVars
<1> QED
  BY <1>1, <1>2, <1>3, <1>4 DEF PlaceInv

\* A thread takes a connection from one of the sets, or a new one.
LEMMA Taken ==
  ASSUME PlaceInv, Types', NEW a \in Thread, NEW c \in Conn, client[a] = NoConn,
         a \in Caller => held[a] = NoConn,
         client' = [client EXCEPT ![a] = c],
         \/ /\ free_connections_' = free_connections_ \ {c} /\ c \in free_connections_
            /\ UNCHANGED closed_connections_
         \/ /\ closed_connections_' = closed_connections_ \ {c} /\ c \in closed_connections_
            /\ UNCHANGED free_connections_
         \/ c \notin Live /\ UNCHANGED <<free_connections_, closed_connections_>>,
         \E label \in {"connect", "got", "check"} : pc' = [pc EXCEPT ![a] = label],
         UNCHANGED <<allocated_connections_, held, in_use_, open, gone>>
  PROVE  PlaceInv'
<1>1. /\ client'[a] = c /\ \A b \in Thread : b # a => client'[b] = client[b]
      /\ pc'[a] \in {"connect", "got", "check"} /\ \A b \in Thread : b # a => pc'[b] = pc[b]
  BY DEF PlaceInv, Types
<1>2. c # NoConn
  BY NamesAssumption
<1>3. Somewhere /\ Somewhere'
  BY Existing, ExistingNext DEF PlaceInv
<1>4. \A b \in Thread : client[b] # c
  BY <1>3 DEF Somewhere, PlaceInv, Apart
<1>5. c \notin allocated_connections_
  BY <1>3 DEF Somewhere, PlaceInv, Apart
<1>6. Hands'
  BY <1>1, <1>2 DEF PlaceInv, Hands, Thread
<1>7. Apart'
  <2>1. \A b \in Thread : client'[b] \notin free_connections_' \union allocated_connections_'
                                              \union closed_connections_'
    BY <1>1, <1>3, <1>5 DEF Somewhere, PlaceInv, Apart
  <2>2. \A b, d \in Thread : client'[b] # NoConn /\ client'[b] = client'[d] => b = d
    BY <1>1, <1>4 DEF PlaceInv, Apart
  <2> QED
    BY <2>1, <2>2 DEF PlaceInv, Apart
<1>8. Allocated'
  <2>1. pc[a] # "put"
    BY DEF PlaceInv, Hands
  <2> QED
    BY <1>1, <2>1 DEF PlaceInv, Allocated, Thread
<1>9. Filed'
  <2>1. \A d \in Conn : d \in Live => d \in Live'
    <3> SUFFICES ASSUME NEW d \in Conn, d \in Live, d # c PROVE d \in Live'
      BY <1>1, <1>3 DEF Somewhere
    <3>1. CASE \E b \in Thread : client[b] = d
      <4>1. PICK b \in Thread : client[b] = d
        BY <3>1
      <4>2. b # a
        BY <4>1, NamesAssumption
      <4> QED
        BY <1>1, <1>3, <4>1, <4>2 DEF Somewhere
    <3>2. CASE ~\E b \in Thread : client[b] = d
      BY <1>3, <3>2 DEF Somewhere
    <3> QED
      BY <3>1, <3>2
  <2>2. Live \subseteq Conn
    BY NamesAssumption DEF Live, Values, PlaceInv, Types
  <2> QED
    BY <2>1, <2>2 DEF PlaceInv, Filed
<1> QED
  BY <1>6, <1>7, <1>8, <1>9 DEF PlaceInv

\* A thread files the connection in its hand.
LEMMA PutAway ==
  ASSUME PlaceInv, Types', NEW a \in Thread, pc[a] \in {"got", "put", "put_back"},
         PutConnection(a), client' = [client EXCEPT ![a] = NoConn],
         \E label \in {"idle", "reclaim", "set_status"} : pc' = [pc EXCEPT ![a] = label],
         a \in Caller => pc'[a] = "idle",
         in_use_' = IF pc[a] = "put" THEN in_use_ \ {client[a]} ELSE in_use_,
         UNCHANGED <<allocated_connections_, held, open, gone>>
  PROVE  PlaceInv'
<1> DEFINE c == client[a]
<1>1. /\ client'[a] = NoConn /\ \A b \in Thread : b # a => client'[b] = client[b]
      /\ pc'[a] \in {"idle", "reclaim", "set_status"}
      /\ \A b \in Thread : b # a => pc'[b] = pc[b]
  BY DEF PlaceInv, Types
<1>2. /\ c \in Conn
      /\ free_connections_' = free_connections_ \union ({c} \intersect open)
      /\ closed_connections_' = closed_connections_ \union ({c} \ open)
  BY PutSets DEF PlaceInv
<1>3. c # NoConn /\ \A b \in Thread : b # a => client[b] # c
  BY <1>2, NamesAssumption DEF PlaceInv, Apart
<1> HIDE DEF c
<1>4. Hands'
  BY <1>1 DEF PlaceInv, Hands, Thread
<1>5. c \notin free_connections_ \union allocated_connections_ \union closed_connections_
  BY DEF PlaceInv, Apart, c
<1>6. Apart'
  <2>1. \A b \in Thread : client'[b] \notin free_connections_' \union allocated_connections_'
                                              \union closed_connections_'
    BY <1>1, <1>2, <1>3, NamesAssumption DEF PlaceInv, Apart, Types
  <2>2. \A b, d \in Thread : client'[b] # NoConn /\ client'[b] = client'[d] => b = d
    BY <1>1 DEF PlaceInv, Apart
  <2> QED
    BY <1>2, <1>5, <2>1, <2>2 DEF PlaceInv, Apart
<1>7. Allocated'
  <2>1. \A d \in in_use_' \ allocated_connections_' :
          \E b \in Caller : pc'[b] = "put" /\ client'[b] = d
    <3> SUFFICES ASSUME NEW d \in in_use_' \ allocated_connections_'
                 PROVE  \E b \in Caller : pc'[b] = "put" /\ client'[b] = d
      OBVIOUS
    <3>1. PICK b \in Caller : pc[b] = "put" /\ client[b] = d
      BY DEF PlaceInv, Allocated
    <3>2. b # a
      BY <3>1 DEF c
    <3> QED
      BY <1>1, <3>1, <3>2 DEF Thread
  <2>2. \A d \in allocated_connections_ : d \in in_use_'
    BY <1>5 DEF PlaceInv, Allocated, c
  <2> QED
    BY <2>1, <2>2 DEF PlaceInv, Allocated
<1>8. Filed'
  <2>1. Somewhere /\ Somewhere'
    BY Existing, ExistingNext DEF PlaceInv
  <2>2. \A d \in Conn : d \in Live => d \in Live'
    BY <1>1, <1>2, <2>1 DEF Somewhere, c
  <2>3. Live \subseteq Conn
    BY NamesAssumption DEF Live, Values, PlaceInv, Types
  <2> QED
    BY <1>2, <2>2, <2>3 DEF PlaceInv, Filed
<1> QED
  BY <1>4, <1>6, <1>7, <1>8 DEF PlaceInv

LEMMA CallerSteps ==
  ASSUME PlaceInv, Types', NEW c \in Caller, CallerStep(c)
  PROVE  PlaceInv'
<1>0. c \in Thread
  BY DEF Thread
<1>1. CASE Get(c)
  <2>1. client[c] = NoConn /\ held[c] = NoConn /\ pc' = [pc EXCEPT ![c] = "take"]
    BY <1>0, <1>1 DEF Get, Start, Goto, PlaceInv, Hands
  <2>2. pc'[c] = "take" /\ \A a \in Thread : a # c => pc'[a] = pc[a]
    BY <1>0, <2>1 DEF PlaceInv, Types
  <2> QED
    BY <1>1, <2>1, <2>2, StandingSteps DEF Get, netVars, PlaceInv, Filed
<1>2. CASE Got(c)
  <2>1. /\ pc[c] = "got" /\ client' = [client EXCEPT ![c] = NoConn]
        /\ pc' = [pc EXCEPT ![c] = "idle"] /\ UNCHANGED <<open, gone>>
    BY <1>2 DEF Got, Hand, Goto, netVars
  <2>2. client[c] \in Conn /\ held[c] = NoConn
    BY <1>0, <2>1 DEF PlaceInv, Types, Hands
  <2>3. CASE client[c] \in open /\ client[c] \notin in_use_
    <3>1. /\ in_use_' = in_use_ \union {client[c]}
          /\ allocated_connections_' = allocated_connections_ \union {client[c]}
          /\ held' = [held EXCEPT ![c] = client[c]]
          /\ UNCHANGED <<free_connections_, closed_connections_>>
      BY <1>2, <2>3 DEF Got
    <3>2. /\ client'[c] = NoConn /\ pc'[c] = "idle" /\ held'[c] = client[c]
          /\ \A a \in Thread : a # c => client'[a] = client[a] /\ pc'[a] = pc[a]
          /\ \A a \in Caller : a # c => held'[a] = held[a]
      BY <1>0, <2>1, <3>1 DEF PlaceInv, Types
    <3>3. \A a \in Thread : a # c => client[a] # client[c]
      BY <1>0, <2>2, NamesAssumption DEF PlaceInv, Apart
    <3>4. Hands'
      BY <3>2 DEF PlaceInv, Hands, Thread
    <3>5. NoConn \notin free_connections_ \union allocated_connections_ \union closed_connections_
      BY NamesAssumption DEF PlaceInv, Types
    <3>6. \A a \in Thread : client'[a] \notin free_connections_' \union allocated_connections_'
                                                \union closed_connections_'
      BY <2>2, <3>1, <3>2, <3>3, <3>5, NamesAssumption DEF PlaceInv, Apart
    <3>7. \A a, b \in Thread : client'[a] # NoConn /\ client'[a] = client'[b] => a = b
      BY <3>2 DEF PlaceInv, Apart
    <3>8. Apart'
      BY <1>0, <3>1, <3>6, <3>7 DEF PlaceInv, Apart
    <3>9. \A a, b \in Caller : held'[a] # NoConn /\ held'[a] = held'[b] => a = b
      <4>1. \A a \in Caller : held[a] # client[c]
        BY <1>0, <2>2, NamesAssumption DEF PlaceInv, Apart, Allocated
      <4> QED
        BY <3>2, <4>1 DEF PlaceInv, Allocated
    <3>10. \A d \in allocated_connections_' : \E a \in Caller : held'[a] = d
      <4> SUFFICES ASSUME NEW d \in allocated_connections_ PROVE \E a \in Caller : held'[a] = d
        BY <3>1, <3>2
      <4>1. PICK a \in Caller : held[a] = d
        BY DEF PlaceInv, Allocated
      <4>2. a # c
        BY <2>2, <3>5, <4>1
      <4> QED
        BY <3>2, <4>1, <4>2
    <3>11. \A d \in in_use_' \ allocated_connections_' :
             \E a \in Caller : pc'[a] = "put" /\ client'[a] = d
      BY <2>1, <3>1, <3>2, <1>0 DEF PlaceInv, Allocated, Thread
    <3>12. Allocated'
      BY <3>1, <3>2, <3>9, <3>10, <3>11 DEF PlaceInv, Allocated
    <3>13. Filed'
      <4>1. Somewhere /\ Somewhere'
        BY Existing, ExistingNext DEF PlaceInv
      <4>2. \A d \in Conn : d \in Live => d \in Live'
        <5> SUFFICES ASSUME NEW d \in Conn, d \in Live, d # client[c] PROVE d \in Live'
          BY <3>1, <4>1 DEF Somewhere
        <5>1. \A a \in Caller : held[a] = d => held'[a] = d
          BY <2>2, <3>2, NamesAssumption
        <5>2. \A a \in Thread : client[a] = d => client'[a] = d
          BY <3>2
        <5> QED
          BY <3>1, <4>1, <5>1, <5>2 DEF Somewhere
      <4>3. Live \subseteq Conn
        BY NamesAssumption DEF Live, Values, PlaceInv, Types
      <4> QED
        BY <2>1, <3>1, <4>2, <4>3 DEF PlaceInv, Filed
    <3> QED
      BY <3>4, <3>8, <3>12, <3>13 DEF PlaceInv
  <2>4. CASE ~(client[c] \in open /\ client[c] \notin in_use_)
    <3>1. PutConnection(c) /\ UNCHANGED <<in_use_, allocated_connections_, held>>
      BY <1>2, <2>4 DEF Got
    <3>2. pc'[c] = "idle"
      BY <1>0, <2>1 DEF PlaceInv, Types
    <3> QED
      BY <1>0, <2>1, <3>1, <3>2, PutAway
  <2> QED
    BY <2>3, <2>4
<1>3. CASE Put(c)
  <2> DEFINE d == held[c]
  <2>1. /\ pc[c] = "idle" /\ d # NoConn /\ client[c] = NoConn
        /\ allocated_connections_' = allocated_connections_ \ {d}
        /\ client' = [client EXCEPT ![c] = d] /\ held' = [held EXCEPT ![c] = NoConn]
        /\ pc' = [pc EXCEPT ![c] = "put"]
        /\ UNCHANGED <<free_connections_, closed_connections_, in_use_, open, gone>>
    BY <1>0, <1>3 DEF Put, Hand, Goto, netVars, PlaceInv, Hands
  <2>2. /\ client'[c] = d /\ pc'[c] = "put" /\ held'[c] = NoConn
        /\ \A a \in Thread : a # c => client'[a] = client[a] /\ pc'[a] = pc[a]
        /\ \A a \in Caller : a # c => held'[a] = held[a]
    BY <1>0, <2>1 DEF PlaceInv, Types
  <2>3. d \in allocated_connections_ /\ d \in Conn
    BY <2>1 DEF PlaceInv, Allocated, Types
  <2>4. \A a \in Thread : client[a] # d
    BY <2>3 DEF PlaceInv, Apart
  <2>5. \A a \in Caller : a # c => held[a] # d
    BY <2>1 DEF PlaceInv, Allocated
  <2> HIDE DEF d
  <2>6. Hands'
    BY <2>1, <2>2 DEF PlaceInv, Hands, Thread
  <2>7. Apart'
    <3>1. \A a \in Thread : client'[a] \notin free_connections_' \union allocated_connections_'
                                                \union closed_connections_'
      BY <2>1, <2>2, <2>3 DEF PlaceInv, Apart
    <3>2. \A a, b \in Thread : client'[a] # NoConn /\ client'[a] = client'[b] => a = b
      BY <2>2, <2>4 DEF PlaceInv, Apart
    <3> QED
      BY <2>1, <3>1, <3>2 DEF PlaceInv, Apart
  <2>8. Allocated'
    <3>1. \A b \in allocated_connections_' : b \in in_use_' /\ \E a \in Caller : held'[a] = b
      <4> SUFFICES ASSUME NEW b \in allocated_connections_, b # d
                   PROVE  b \in in_use_ /\ \E a \in Caller : held'[a] = b
        BY <2>1
      <4>1. PICK a \in Caller : b \in in_use_ /\ held[a] = b
        BY DEF PlaceInv, Allocated
      <4>2. a # c
        BY <4>1 DEF d
      <4> QED
        BY <2>2, <4>1, <4>2
    <3>2. \A b \in in_use_' \ allocated_connections_' :
            \E a \in Caller : pc'[a] = "put" /\ client'[a] = b
      BY <2>1, <2>2, <1>0 DEF PlaceInv, Allocated, Thread
    <3>3. \A a \in Caller : held'[a] # NoConn => held'[a] \in allocated_connections_'
      BY <2>1, <2>2, <2>5 DEF PlaceInv, Allocated
    <3>4. \A a, b \in Caller : held'[a] # NoConn /\ held'[a] = held'[b] => a = b
      BY <2>2 DEF PlaceInv, Allocated
    <3> QED
      BY <3>1, <3>2, <3>3, <3>4 DEF Allocated
  <2>9. Filed'
    <3>1. Somewhere /\ Somewhere'
      BY Existing, ExistingNext DEF PlaceInv
    <3>2. \A b \in Conn : b \in Live => b \in Live'
      <4> SUFFICES ASSUME NEW b \in Conn, b \in Live, b # d PROVE b \in Live'
        BY <1>0, <2>2, <3>1 DEF Somewhere
      <4>1. \A a \in Caller : held[a] = b => held'[a] = b
        BY <2>2 DEF d
      <4>2. \A a \in Thread : client[a] = b => client'[a] = b
        BY <2>1, <2>2, NamesAssumption
      <4> QED
        BY <2>1, <3>1, <4>1, <4>2 DEF Somewhere
    <3>3. Live \subseteq Conn
      BY NamesAssumption DEF Live, Values, PlaceInv, Types
    <3> QED
      BY <2>1, <3>2, <3>3 DEF PlaceInv, Filed
  <2> QED
    BY <2>6, <2>7, <2>8, <2>9 DEF PlaceInv
<1>4. CASE PutBack(c)
  <2>1. pc' = [pc EXCEPT ![c] = "idle"] /\ pc'[c] = "idle"
    BY <1>0, <1>4 DEF PutBack, Goto, PlaceInv, Types
  <2> QED
    BY <1>0, <1>4, <2>1, PutAway DEF PutBack, Release, Hand, netVars
<1>5. CASE Close(c)
  <2>1. held[c] \in allocated_connections_
    BY <1>5 DEF Close, PlaceInv, Allocated
  <2>2. /\ open' = open \ ({held[c]} \union {}) /\ gone' \subseteq open'
        /\ UNCHANGED <<setVars, client, held, in_use_, pc>>
    BY <1>5 DEF Close, PlaceInv, Filed
  <2>3. /\ {held[c]} \in SUBSET allocated_connections_
        /\ {} \in SUBSET {client[a] : a \in {b \in Thread : client[b] # NoConn}}
        /\ open \ ({held[c]} \union {}) \subseteq open' /\ open' \subseteq open \union {}
    BY <2>1, <2>2
  <2> QED
    BY <2>2, <2>3, StandingSteps
<1> QED
  BY <1>1, <1>2, <1>3, <1>4, <1>5 DEF CallerStep

LEMMA AcquireSteps ==
  ASSUME PlaceInv, Types', NEW a \in Thread, Acquire(a)
  PROVE  PlaceInv'
<1>1. CASE TakeFree(a)
  <2>1. /\ pc[a] = "take" /\ client[a] = NoConn
        /\ (a \in Caller => held[a] = NoConn)
        /\ UNCHANGED <<allocated_connections_, closed_connections_, held, in_use_, open, gone>>
    BY <1>1 DEF TakeFree, netVars, PlaceInv, Hands
  <2>2. CASE free_connections_ # {}
    <3>1. PICK c \in free_connections_ :
            /\ free_connections_' = free_connections_ \ {c}
            /\ client' = [client EXCEPT ![a] = c]
            /\ \E label \in {"got", "check"} : pc' = [pc EXCEPT ![a] = label]
      BY <1>1, <2>2 DEF TakeFree, Take, Hand, Goto
    <3>2. c \in Conn
      BY DEF PlaceInv, Types
    <3>3. \E label \in {"connect", "got", "check"} : pc' = [pc EXCEPT ![a] = label]
      BY <3>1
    <3> QED
      BY <2>1, <3>1, <3>2, <3>3, Taken
  <2>3. CASE free_connections_ = {}
    <3>1. pc' = [pc EXCEPT ![a] = "create"] /\ UNCHANGED <<free_connections_, client>>
      BY <1>1, <2>3 DEF TakeFree, Goto
    <3>2. pc'[a] = "create" /\ \A b \in Thread : b # a => pc'[b] = pc[b]
      BY <3>1 DEF PlaceInv, Types
    <3>3. /\ {} \in SUBSET allocated_connections_
          /\ {} \in SUBSET {client[b] : b \in {d \in Thread : client[d] # NoConn}}
          /\ open \ ({} \union {}) \subseteq open' /\ open' \subseteq open \union {}
          /\ gone' \subseteq open' /\ UNCHANGED <<setVars, client, held, in_use_>>
      BY <2>1, <3>1 DEF setVars, PlaceInv, Filed
    <3> QED
      BY <2>1, <3>2, <3>3, StandingSteps
  <2> QED
    BY <2>2, <2>3
<1>2. CASE CreateConnection(a)
  <2>1. /\ pc[a] = "create" /\ client[a] = NoConn
        /\ (a \in Caller => held[a] = NoConn)
        /\ pc' = [pc EXCEPT ![a] = "connect"]
        /\ UNCHANGED <<free_connections_, allocated_connections_, held, in_use_, open, gone>>
    BY <1>2 DEF CreateConnection, Goto, netVars, PlaceInv, Hands
  <2>2. PICK c \in Conn :
          /\ client' = [client EXCEPT ![a] = c]
          /\ \/ /\ closed_connections_' = closed_connections_ \ {c} /\ c \in closed_connections_
             \/ c \notin Live /\ UNCHANGED closed_connections_
    BY <1>2 DEF CreateConnection, Take, Hand, PlaceInv, Types
  <2>3. \E label \in {"connect", "got", "check"} : pc' = [pc EXCEPT ![a] = label]
    BY <2>1
  <2> QED
    BY <2>1, <2>2, <2>3, Taken
<1>3. CASE Connect(a)
  <2>1. /\ pc[a] = "connect" /\ \E label \in {"got", "check", "put_back"} : pc' = [pc EXCEPT ![a] = label]
        /\ UNCHANGED <<setVars, client, held, in_use_, gone>>
    BY <1>3 DEF Connect, Goto
  <2>2. /\ pc'[a] \in {"got", "check", "put_back"}
        /\ \A b \in Thread : b # a => pc'[b] = pc[b]
    BY <2>1 DEF PlaceInv, Types
  <2>3. client[a] # NoConn
    BY <2>1 DEF PlaceInv, Hands
  <2>4. open' \subseteq open \union {client[a]} /\ open \subseteq open'
    BY <1>3 DEF Connect
  <2>5. /\ {} \in SUBSET allocated_connections_
        /\ {client[a]} \in SUBSET {client[b] : b \in {d \in Thread : client[d] # NoConn}}
        /\ open \ ({} \union {client[a]}) \subseteq open' /\ open' \subseteq open \union {client[a]}
    BY <2>3, <2>4
  <2>6. gone' \subseteq open'
    BY <2>1, <2>4 DEF PlaceInv, Filed
  <2> QED
    BY <2>1, <2>2, <2>3, <2>5, <2>6, StandingSteps
<1> QED
  BY <1>1, <1>2, <1>3 DEF Acquire

LEMMA HandlerSteps ==
  ASSUME PlaceInv, Types',
         \/ UpdateStatus \/ QuickUpdateStatus \/ ReclaimConnections
         \/ SetStatus \/ ReclaimCreate \/ ReclaimDone \/ StopProbe \/ ServerTurn
         \/ (\E c \in Conn : ServerClose(c)) \/ UNCHANGED vars
  PROVE  PlaceInv'
<1>1. /\ UNCHANGED <<setVars, client, held, in_use_, open>>
      /\ gone' \subseteq open'
  BY DEF UpdateStatus, QuickUpdateStatus, Start, ReclaimConnections, SetStatus, ReclaimCreate,
         ReclaimDone, StopProbe, ServerTurn, ServerClose, vars, setVars, netVars, PlaceInv, Filed
<1>2. \/ UNCHANGED pc
      \/ /\ pc[Prober] \in {"idle", "set_status", "reclaim"}
         /\ \E label \in {"take", "idle", "create", "reclaim"} : pc' = [pc EXCEPT ![Prober] = label]
  BY DEF UpdateStatus, QuickUpdateStatus, Start, ReclaimConnections, SetStatus, ReclaimCreate,
         ReclaimDone, StopProbe, ServerTurn, ServerClose, vars, Goto
<1>3. ASSUME NEW a \in Thread
      PROVE  \/ pc'[a] = pc[a]
             \/ /\ client[a] = NoConn /\ a \notin Caller
                /\ pc'[a] \in {"take", "idle", "create", "reclaim"}
  BY <1>2, NamesAssumption DEF PlaceInv, Types, Hands, Thread
<1>4. /\ {} \in SUBSET allocated_connections_
      /\ {} \in SUBSET {client[a] : a \in {b \in Thread : client[b] # NoConn}}
      /\ open \ ({} \union {}) \subseteq open' /\ open' \subseteq open \union {}
  BY <1>1
<1> QED
  BY <1>1, <1>3, <1>4, StandingSteps

LEMMA ProbeSteps ==
  ASSUME PlaceInv, Types', Check \/ ProbePutBack \/ ReclaimFree \/ ReclaimClosed \/ Destroy
  PROVE  PlaceInv'
<1>0. Prober \in Thread /\ Prober \notin Caller
  BY NamesAssumption DEF Thread
<1>1. CASE Check
  <2> DEFINE c == client[Prober]
  <2>1. /\ pc[Prober] = "check" /\ pc' = [pc EXCEPT ![Prober] = "put_back"]
        /\ UNCHANGED <<setVars, client, held, in_use_>>
        /\ \/ UNCHANGED <<open, gone>>
           \/ open' = open \ {c} /\ gone' = gone \ {c}
    BY <1>1 DEF Check, Goto
  <2>2. pc'[Prober] = "put_back" /\ \A b \in Thread : b # Prober => pc'[b] = pc[b]
    BY <1>0, <2>1 DEF PlaceInv, Types
  <2>3. c # NoConn
    BY <1>0, <2>1 DEF PlaceInv, Hands
  <2>4. /\ {} \in SUBSET allocated_connections_
        /\ {c} \in SUBSET {client[b] : b \in {d \in Thread : client[d] # NoConn}}
        /\ open \ ({} \union {c}) \subseteq open' /\ open' \subseteq open \union {c}
        /\ gone' \subseteq open'
    BY <1>0, <2>1, <2>3 DEF PlaceInv, Filed
  <2> QED
    BY <2>1, <2>2, <2>3, <2>4, StandingSteps
<1>2. CASE ProbePutBack
  BY <1>0, <1>2, PutAway DEF ProbePutBack, Hand, Goto, netVars
<1>3. CASE ReclaimFree \/ ReclaimClosed \/ Destroy
  <2>1. /\ UNCHANGED <<allocated_connections_, in_use_, client, held, pc>>
        /\ \E S \in SUBSET (free_connections_ \union closed_connections_) :
             /\ free_connections_' = free_connections_ \ S
             /\ closed_connections_' = closed_connections_ \ S
             /\ open' = open \ S /\ gone' = gone \ S
    <3>1. CASE ReclaimFree
      <4>1. CASE free_connections_ = {}
        <5>1. UNCHANGED <<free_connections_, closed_connections_, open, gone>>
          BY <3>1, <4>1 DEF ReclaimFree
        <5>2. {} \in SUBSET (free_connections_ \union closed_connections_)
          OBVIOUS
        <5> QED
          BY <3>1, <5>1, <5>2 DEF ReclaimFree
      <4>2. CASE free_connections_ # {}
        <5>1. PICK c \in free_connections_ :
                /\ free_connections_' = free_connections_ \ {c}
                /\ open' = open \ {c} /\ gone' = gone \ {c}
          BY <3>1, <4>2 DEF ReclaimFree
        <5>2. closed_connections_' = closed_connections_ \ {c}
          BY <3>1 DEF ReclaimFree, PlaceInv, Apart
        <5>3. {c} \in SUBSET (free_connections_ \union closed_connections_)
          OBVIOUS
        <5> QED
          BY <3>1, <5>1, <5>2, <5>3 DEF ReclaimFree
      <4> QED
        BY <4>1, <4>2
    <3>2. CASE ReclaimClosed
      <4>1. UNCHANGED <<free_connections_, open, gone>>
        BY <3>2 DEF ReclaimClosed, netVars
      <4>2. CASE closed_connections_ = {}
        <5>1. closed_connections_' = closed_connections_
          BY <3>2, <4>2 DEF ReclaimClosed
        <5>2. {} \in SUBSET (free_connections_ \union closed_connections_)
          OBVIOUS
        <5> QED
          BY <3>2, <4>1, <5>1, <5>2 DEF ReclaimClosed
      <4>3. CASE closed_connections_ # {}
        <5>1. PICK c \in closed_connections_ : closed_connections_' = closed_connections_ \ {c}
          BY <3>2, <4>3 DEF ReclaimClosed
        <5>2. /\ free_connections_' = free_connections_ \ {c}
              /\ open' = open \ {c} /\ gone' = gone \ {c}
          BY <4>1, <5>1 DEF PlaceInv, Apart, Filed
        <5>3. {c} \in SUBSET (free_connections_ \union closed_connections_)
          OBVIOUS
        <5> QED
          BY <3>2, <5>1, <5>2, <5>3 DEF ReclaimClosed
      <4> QED
        BY <4>2, <4>3
    <3>3. CASE Destroy
      <4> DEFINE S == free_connections_ \union closed_connections_
      <4>1. /\ free_connections_' = free_connections_ \ S
            /\ closed_connections_' = closed_connections_ \ S
            /\ open' = open \ S /\ gone' = gone \ S /\ S \in SUBSET S
        BY <3>3 DEF Destroy
      <4> QED
        BY <3>3, <4>1 DEF Destroy
    <3> QED
      BY <1>3, <3>1, <3>2, <3>3
  <2>2. PICK S \in SUBSET (free_connections_ \union closed_connections_) :
             /\ free_connections_' = free_connections_ \ S
             /\ closed_connections_' = closed_connections_ \ S
             /\ open' = open \ S /\ gone' = gone \ S
    BY <2>1
  <2>3. Hands'
    BY <2>1 DEF PlaceInv, Hands
  <2>4. Apart'
    BY <2>1, <2>2 DEF PlaceInv, Apart
  <2>5. Allocated'
    BY <2>1, <2>2 DEF PlaceInv, Allocated
  <2>6. Filed'
    <3>1. \A d \in Live : d \in S \/ d \in Live'
      BY <2>1, <2>2 DEF Live
    <3> QED
      BY <2>2, <3>1 DEF PlaceInv, Filed
  <2> QED
    BY <2>3, <2>4, <2>5, <2>6 DEF PlaceInv
<1> QED
  BY <1>1, <1>2, <1>3

LEMMA PlaceInit == Init => PlaceInv
<1> SUFFICES ASSUME Init PROVE PlaceInv
  OBVIOUS
<1>1. /\ free_connections_ \subseteq Conn /\ closed_connections_ \subseteq Conn
      /\ free_connections_ \intersect closed_connections_ = {} /\ open = free_connections_
  BY DEF Init
<1>2. Types
  <2>1. /\ pc \in [Thread -> {"idle"}] /\ task \in [Thread -> Task]
        /\ client \in [Thread -> {NoConn}] /\ held \in [Caller -> {NoConn}]
    BY DEF Init, Task
  <2>2. {ok, quick, up} \subseteq BOOLEAN
    BY DEF Init
  <2>3. {create, drop_free, drop_closed} \subseteq Nat /\ allocated_connections_ = {}
    BY DEF Init
  <2>4. phase = "running" /\ status_ = "kClosed"
    BY DEF Init
  <2> QED
    BY <1>1, <2>1, <2>2, <2>3, <2>4 DEF Types
<1>3. Hands /\ Allocated
  BY DEF Init, Hands, Allocated, Thread
<1>4. Apart
  BY <1>1, NamesAssumption DEF Init, Apart
<1>5. Filed
  BY <1>1 DEF Init, Filed, Live
<1> QED
  BY <1>2, <1>3, <1>4, <1>5 DEF PlaceInv

LEMMA PlaceStep == PlaceInv /\ [Next]_vars => PlaceInv'
<1> SUFFICES ASSUME PlaceInv, [Next]_vars PROVE PlaceInv'
  OBVIOUS
<1>1. Types'
  BY TypesStep DEF PlaceInv
<1>2. Prober \in Thread /\ \A c \in Caller : c \in Thread
  BY DEF Thread
<1>3. CASE ProbeStep
  BY <1>1, <1>2, <1>3, AcquireSteps, HandlerSteps, ProbeSteps DEF ProbeStep
<1>4. CASE \E c \in Caller : CallerStep(c) \/ Acquire(c)
  BY <1>1, <1>2, <1>4, CallerSteps, AcquireSteps
<1>5. CASE \/ UpdateStatus \/ QuickUpdateStatus \/ ReclaimConnections \/ StopProbe
           \/ ServerTurn \/ (\E c \in Conn : ServerClose(c)) \/ UNCHANGED vars
  BY <1>1, <1>5, HandlerSteps
<1>6. CASE Destroy
  BY <1>1, <1>6, ProbeSteps
<1> QED
  BY <1>3, <1>4, <1>5, <1>6 DEF Next

\* In every reachable state each connection is in one set or in one hand, filed
\* by whether it is open, and marked while it is given out (thrift_pool.h).
THEOREM PlaceCorrect == Spec => []PlaceInv
BY PlaceInit, PlaceStep, PTL DEF Spec

\* Every variable has its type, for any number of threads and connections; so
\* reclaim_connections never counts below zero.
THEOREM Typed == Spec => []TypeOK
<1>1. PlaceInv => TypeOK
  <2> SUFFICES ASSUME PlaceInv PROVE TypeOK
    OBVIOUS
  <2>1. in_use_ \subseteq Live
    <3> SUFFICES ASSUME NEW c \in in_use_, c \notin allocated_connections_ PROVE c \in Live
      BY DEF Live
    <3>1. PICK a \in Thread : pc[a] = "put" /\ client[a] = c
      BY DEF PlaceInv, Allocated, Thread
    <3>2. c \in Conn
      BY <3>1 DEF PlaceInv, Types, Hands
    <3> QED
      BY <3>1, <3>2, Existing DEF PlaceInv, Somewhere
  <2> QED
    BY <2>1 DEF PlaceInv, Types, Filed, TypeOK
<1> QED
  BY <1>1, PlaceCorrect, PTL

\* Each connection is in one place, whatever get(), put(), the probe thread and
\* its reclaiming do between two critical sections.
THEOREM InOnePlace == Spec => []OnePlace
<1>1. PlaceInv => OnePlace
  <2> SUFFICES ASSUME PlaceInv PROVE OnePlace
    OBVIOUS
  <2>1. ASSUME NEW c \in Live
        PROVE  Cardinality({x \in {"free", "allocated", "closed"} :
                              c \in CASE x = "free" -> free_connections_
                                      [] x = "allocated" -> allocated_connections_
                                      [] OTHER -> closed_connections_})
                 + Cardinality({a \in Thread : client[a] = c}) = 1
    <3> DEFINE Sets == {x \in {"free", "allocated", "closed"} :
                          c \in CASE x = "free" -> free_connections_
                                  [] x = "allocated" -> allocated_connections_
                                  [] OTHER -> closed_connections_}
               Its == {a \in Thread : client[a] = c}
    <3>1. c \in Conn
      BY NamesAssumption DEF Live, Values, PlaceInv, Types
    <3>2. CASE \E a \in Thread : client[a] = c
      <4>1. PICK a \in Thread : client[a] = c
        BY <3>2
      <4>2. Its = {a}
        BY <3>1, <4>1, NamesAssumption DEF PlaceInv, Apart
      <4>3. Sets = {}
        BY <4>1 DEF PlaceInv, Apart
      <4> HIDE DEF Sets, Its
      <4>4. Cardinality(Its) = 1 /\ Cardinality(Sets) = 0
        BY <4>2, <4>3, FS_EmptySet, FS_Singleton
      <4> QED
        BY <4>4 DEF Sets, Its
    <3>3. CASE ~\E a \in Thread : client[a] = c
      <4>1. Its = {}
        BY <3>3
      <4>2. c \in free_connections_ \union allocated_connections_ \union closed_connections_
        BY <3>1, <3>3, Existing, NamesAssumption DEF PlaceInv, Allocated, Somewhere
      <4>3. \E x : Sets = {x}
        <5>1. c \in free_connections_ => Sets = {"free"}
          BY DEF PlaceInv, Apart
        <5>2. c \in allocated_connections_ => Sets = {"allocated"}
          BY DEF PlaceInv, Apart
        <5>3. c \in closed_connections_ => Sets = {"closed"}
          BY DEF PlaceInv, Apart
        <5> HIDE DEF Sets
        <5> QED
          BY <4>2, <5>1, <5>2, <5>3
      <4> HIDE DEF Sets, Its
      <4>4. Cardinality(Its) = 0 /\ Cardinality(Sets) = 1
        BY <4>1, <4>3, FS_EmptySet, FS_Singleton
      <4> QED
        BY <4>4 DEF Sets, Its
    <3> QED
      BY <3>2, <3>3
  <2>2. ASSUME NEW c \in allocated_connections_
        PROVE  c \in in_use_ /\ Cardinality({a \in Caller : held[a] = c}) = 1
    <3>1. PICK a \in Caller : c \in in_use_ /\ held[a] = c
      BY DEF PlaceInv, Allocated
    <3>2. {b \in Caller : held[b] = c} = {a}
      BY <3>1, NamesAssumption DEF PlaceInv, Allocated, Types
    <3> QED
      BY <3>1, <3>2, FS_Singleton
  <2>3. in_use_ \intersect (free_connections_ \union closed_connections_) = {}
    BY DEF PlaceInv, Allocated, Apart, Thread
  <2> QED
    BY <2>1, <2>2, <2>3 DEF PlaceInv, Allocated, Filed, OnePlace
<1> QED
  BY <1>1, PlaceCorrect, PTL

-------------------------------------------------------------------------------
(* The number of connections *)

\* The threads that have a connection or are about to create one.
Has(a) == client[a] # NoConn \/ (a \in Caller /\ held[a] # NoConn)
Busy == {a \in Thread : pc[a] = "create" \/ Has(a)}

\* Bounded is not inductive.  A thread that creates a connection found no free one
\* earlier; that there is room for it still needs that the threads and the
\* creations due, with the free connections, stay within the bound.
BoundInv ==
  /\ create <= min_free_conn_
  /\ Cardinality(free_connections_) + Cardinality(Busy) + create
       <= min_free_conn_ + Cardinality(Thread)
  /\ Bounded

Finite ==
  /\ IsFiniteSet(free_connections_) /\ Cardinality(free_connections_) \in Nat
  /\ IsFiniteSet(Busy) /\ Cardinality(Busy) \in Nat
  /\ IsFiniteSet(Live) /\ Cardinality(Live) \in Nat
  /\ Cardinality(Thread) \in Nat /\ Cardinality(Busy) <= Cardinality(Thread)

LEMMA ThreadFinite == IsFiniteSet(Thread) /\ Cardinality(Thread) \in Nat
BY FiniteAssumption, FS_AddElement, FS_CardinalityType DEF Thread

LEMMA AreFinite == Types => Finite
<1> SUFFICES ASSUME Types PROVE Finite
  OBVIOUS
<1>1. IsFiniteSet(free_connections_)
  BY FiniteAssumption, FS_Subset DEF Types
<1>2. IsFiniteSet(Busy) /\ Cardinality(Busy) <= Cardinality(Thread)
  BY ThreadFinite, FS_Subset DEF Busy
<1>3. Live \subseteq Conn
  BY NamesAssumption DEF Live, Values, Types
<1>4. IsFiniteSet(Live)
  BY <1>3, FiniteAssumption, FS_Subset
<1> QED
  BY <1>1, <1>2, <1>4, ThreadFinite, FS_CardinalityType DEF Finite

LEMMA AreFiniteNext == Types' => Finite'
BY AreFinite, PTL

\* A step that brings no connection into being.
LEMMA NoneNew ==
  ASSUME Types, Types', BoundInv, create' <= min_free_conn_,
         Cardinality(free_connections_)' + Cardinality(Busy)' + create'
           <= min_free_conn_ + Cardinality(Thread),
         \A c \in Conn :
           \/ c \in free_connections_' \union allocated_connections_' \union closed_connections_'
           \/ (\E a \in Thread : client'[a] = c) \/ (\E a \in Caller : held'[a] = c)
           => c \in Live
  PROVE  BoundInv'
<1>1. Live' \subseteq Live
  <2>1. Live' \subseteq Conn
    BY NamesAssumption DEF Live, Values, Types
  <2> QED
    BY <2>1, ExistingNext DEF Somewhere
<1>2. Cardinality(Live') <= Cardinality(Live) /\ Cardinality(Live') \in Nat
  BY <1>1, AreFinite, FS_Subset, FS_CardinalityType DEF Finite
<1>3. Bounded'
  BY <1>2, AreFinite, ConnAssumption DEF Finite, BoundInv, Bounded
<1> QED
  BY <1>3 DEF BoundInv

\* One that takes no connection to another thread or to the free ones.
LEMMA NoneMore ==
  ASSUME PlaceInv, Types', BoundInv, create' <= create,
         free_connections_' \subseteq free_connections_, Busy' \subseteq Busy,
         allocated_connections_' \subseteq Live, closed_connections_' \subseteq Live,
         \A a \in Thread : client'[a] \in Live \union {NoConn},
         \A a \in Caller : held'[a] \in Live \union {NoConn}
  PROVE  BoundInv'
<1>1. /\ Cardinality(free_connections_)' <= Cardinality(free_connections_)
      /\ Cardinality(Busy)' <= Cardinality(Busy)
  BY AreFinite, FS_Subset DEF Finite, PlaceInv
<1>2. {create, create'} \subseteq Nat
  BY DEF PlaceInv, Types
<1>3. /\ create' <= min_free_conn_
      /\ Cardinality(free_connections_)' + Cardinality(Busy)' + create'
           <= min_free_conn_ + Cardinality(Thread)
  BY <1>1, <1>2, AreFinite, AreFiniteNext, ConnAssumption DEF Finite, BoundInv, PlaceInv
<1>4. free_connections_ \subseteq Live /\ NoConn \notin Conn
  BY NamesAssumption DEF Live
<1> QED
  BY <1>3, <1>4, NoneNew DEF PlaceInv

\* The connections in hand are no more than the threads that have one.
LEMMA InHands ==
  ASSUME PlaceInv
  PROVE  Cardinality((Values(client) \union Values(held)) \ {NoConn})
           <= Cardinality({a \in Thread : Has(a)})
<1> DEFINE H == {a \in Thread : Has(a)}
           C == (Values(client) \union Values(held)) \ {NoConn}
           f == [a \in H |-> IF client[a] # NoConn THEN client[a] ELSE held[a]]
<1>1. IsFiniteSet(H)
  BY ThreadFinite, FS_Subset
<1>2. \A a \in H : f[a] \in C
  BY DEF Has, Values, PlaceInv, Types
<1>3. ASSUME NEW c \in C PROVE \E a \in H : f[a] = c
  <2>1. CASE \E a \in Thread : client[a] = c
    BY <1>3, <2>1 DEF Has
  <2>2. CASE \E a \in Caller : held[a] = c
    <3>1. PICK a \in Caller : held[a] = c
      BY <2>2
    <3>2. a \in H /\ client[a] = NoConn
      BY <1>3, <3>1 DEF Has, PlaceInv, Hands, Thread
    <3> QED
      BY <3>1, <3>2
  <2> QED
    BY <1>3, <2>1, <2>2 DEF Values, PlaceInv, Types
<1>4. f \in Surjection(H, C)
  <2> HIDE DEF C, H
  <2>1. f \in [H -> C]
    BY <1>2
  <2> HIDE DEF f
  <2> QED
    BY <1>3, <2>1 DEF Surjection
<1> HIDE DEF f, H, C
<1>5. Cardinality(C) <= Cardinality(H)
  BY <1>1, <1>4, FS_Surjection
<1> QED
  BY <1>5 DEF H, C

\* A connection is created when nothing is closed, by a thread that has none.
LEMMA OneMore ==
  ASSUME PlaceInv, Types', BoundInv, NEW a \in Thread, NEW c \in Conn,
         pc[a] = "create", closed_connections_ = {},
         client' = [client EXCEPT ![a] = c], pc' = [pc EXCEPT ![a] = "connect"],
         UNCHANGED <<setVars, held, create>>
  PROVE  BoundInv'
<1> DEFINE H == {b \in Thread : Has(b)}
           C == (Values(client) \union Values(held)) \ {NoConn}
<1>1. /\ client'[a] = c /\ pc'[a] = "connect"
      /\ \A b \in Thread : b # a => client'[b] = client[b] /\ pc'[b] = pc[b]
  BY DEF PlaceInv, Types
<1>2. Busy' \subseteq Busy
  BY <1>1 DEF Busy, Has
<1>3. H \subseteq Busy \ {a} /\ a \in Busy
  BY DEF Busy, Has, PlaceInv, Hands
<1>4. allocated_connections_ \subseteq C
  BY NamesAssumption DEF PlaceInv, Allocated, Types, Values
<1>5. Live = free_connections_ \union C
  BY <1>4 DEF Live
<1> HIDE DEF C, H
<1>6. IsFiniteSet(C) /\ Cardinality(C) \in Nat
  BY <1>5, AreFinite, FS_Subset, FS_CardinalityType DEF Finite, PlaceInv
<1>7. Cardinality(C) + 1 <= Cardinality(Busy)
  <2>1. IsFiniteSet(Busy \ {a}) /\ Cardinality(Busy \ {a}) = Cardinality(Busy) - 1
    BY <1>3, AreFinite, FS_RemoveElement DEF Finite, PlaceInv
  <2>2. Cardinality(H) <= Cardinality(Busy) - 1 /\ Cardinality(H) \in Nat
    BY <1>3, <2>1, FS_Subset, FS_CardinalityType
  <2>3. Cardinality(C) <= Cardinality(H)
    BY InHands DEF C, H
  <2> QED
    BY <1>6, <2>2, <2>3, AreFinite DEF Finite, PlaceInv
<1>8. Cardinality(Live) <= Cardinality(free_connections_) + Cardinality(C)
  <2>1. Cardinality(Live) = Cardinality(free_connections_) + Cardinality(C)
                              - Cardinality(free_connections_ \intersect C)
    BY <1>5, <1>6, AreFinite, FS_Union DEF Finite, PlaceInv
  <2>2. Cardinality(free_connections_ \intersect C) \in Nat
    BY <1>6, FS_Subset, FS_CardinalityType
  <2> QED
    BY <1>6, <2>1, <2>2, AreFinite DEF Finite, PlaceInv
<1>9. Live' \subseteq Live \union {c}
  <2>1. Live' \subseteq Conn
    BY NamesAssumption DEF Live, Values, Types
  <2>2. ASSUME NEW d \in Conn, d \in Live' PROVE d \in Live \union {c}
    BY <1>1, <2>2, ExistingNext, Existing DEF Somewhere, PlaceInv, setVars
  <2> QED
    BY <2>1, <2>2
<1>10. Cardinality(Live') <= Cardinality(Live) + 1 /\ Cardinality(Live)' = Cardinality(Live')
  <2> HIDE DEF Live
  <2>0. IsFiniteSet(Live) /\ Cardinality(Live) \in Nat
    BY AreFinite, FS_CardinalityType DEF Finite, PlaceInv
  <2>1. IsFiniteSet(Live \union {c}) /\ Cardinality(Live \union {c}) <= Cardinality(Live) + 1
    BY <2>0, FS_AddElement
  <2>2. Cardinality(Live') <= Cardinality(Live \union {c})
    BY <1>9, <2>1, FS_Subset
  <2> QED
    BY <2>1, <2>2, AreFinite, AreFiniteNext, FS_CardinalityType DEF Finite, PlaceInv
<1>11. Cardinality(Busy') <= Cardinality(Busy)
  BY <1>2, AreFinite, FS_Subset DEF Finite, PlaceInv
<1>12. create \in Nat /\ create' = create /\ free_connections_' = free_connections_
  BY DEF PlaceInv, Types, setVars
<1>13. /\ Finite /\ Finite' /\ min_free_conn_ \in Nat
  BY AreFinite, AreFiniteNext, ConnAssumption DEF PlaceInv
<1> HIDE DEF Busy
<1> QED
  BY <1>6, <1>7, <1>8, <1>10, <1>11, <1>12, <1>13 DEF BoundInv, Bounded, Finite

\* A thread that files its connection is not busy any more.
LEMMA FiledOne ==
  ASSUME PlaceInv, Types', BoundInv, NEW a \in Thread, pc[a] \in {"got", "put", "put_back"},
         PutConnection(a), client' = [client EXCEPT ![a] = NoConn],
         \E label \in {"idle", "reclaim", "set_status"} : pc' = [pc EXCEPT ![a] = label],
         UNCHANGED <<allocated_connections_, held, create>>
  PROVE  BoundInv'
<1> DEFINE c == client[a]
<1>1. /\ client'[a] = NoConn /\ pc'[a] # "create"
      /\ \A b \in Thread : b # a => client'[b] = client[b] /\ pc'[b] = pc[b]
  BY DEF PlaceInv, Types
<1>2. a \in Busy /\ c # NoConn /\ (a \in Caller => held[a] = NoConn)
  BY DEF Busy, Has, PlaceInv, Hands
<1>3. Busy' \subseteq Busy \ {a}
  BY <1>1, <1>2 DEF Busy, Has
<1>4. /\ c \in Conn /\ free_connections_' \subseteq free_connections_ \union {c}
      /\ closed_connections_' \subseteq closed_connections_ \union {c}
  BY PutSets DEF PlaceInv
<1>5. c \in Live
  BY <1>4, Existing DEF Somewhere, PlaceInv
<1> HIDE DEF c
<1>6. Cardinality(Busy') <= Cardinality(Busy) - 1
  <2>1. IsFiniteSet(Busy \ {a}) /\ Cardinality(Busy \ {a}) = Cardinality(Busy) - 1
    BY <1>2, AreFinite, FS_RemoveElement DEF Finite, PlaceInv
  <2> QED
    BY <1>3, <2>1, FS_Subset
<1>7. Cardinality(free_connections_') <= Cardinality(free_connections_) + 1
  <2>1. /\ IsFiniteSet(free_connections_ \union {c})
        /\ Cardinality(free_connections_ \union {c}) <= Cardinality(free_connections_) + 1
    BY AreFinite, FS_AddElement DEF Finite, PlaceInv
  <2>2. Cardinality(free_connections_') <= Cardinality(free_connections_ \union {c})
    BY <1>4, <2>1, FS_Subset
  <2> QED
    BY <2>1, <2>2, AreFinite, AreFiniteNext, FS_CardinalityType DEF Finite, PlaceInv
<1>8. create \in Nat /\ Finite /\ Finite' /\ min_free_conn_ \in Nat
  BY AreFinite, AreFiniteNext, ConnAssumption DEF PlaceInv, Types
<1>9. /\ create' <= min_free_conn_
      /\ Cardinality(free_connections_)' + Cardinality(Busy)' + create'
           <= min_free_conn_ + Cardinality(Thread)
  <2> HIDE DEF Busy
  <2> QED
    BY <1>6, <1>7, <1>8 DEF Finite, BoundInv
<1>10. ASSUME NEW d \in Conn,
              \/ d \in free_connections_' \union allocated_connections_' \union closed_connections_'
              \/ (\E b \in Thread : client'[b] = d) \/ (\E b \in Caller : held'[b] = d)
       PROVE  d \in Live
  BY <1>1, <1>4, <1>5, <1>10, Existing, NamesAssumption DEF Somewhere, PlaceInv
<1> QED
  BY <1>9, <1>10, NoneNew DEF PlaceInv

\* What the threads hold and what the sets hold is alive.
LEMMA InLive ==
  ASSUME PlaceInv
  PROVE  /\ free_connections_ \subseteq Live /\ allocated_connections_ \subseteq Live
         /\ closed_connections_ \subseteq Live
         /\ \A a \in Thread : client[a] \in Live \union {NoConn}
         /\ \A a \in Caller : held[a] \in Live \union {NoConn}
BY DEF PlaceInv, Types, Live, Values

\* A step that leaves the sets, what the threads hold and the creations due
\* alone, and lets no thread begin to create.
LEMMA NoneMoved ==
  ASSUME PlaceInv, Types', BoundInv, UNCHANGED <<setVars, client, held, create>>,
         \A a \in Thread : pc'[a] = "create" => pc[a] = "create"
  PROVE  BoundInv'
<1>1. Busy' \subseteq Busy
  BY DEF Busy, Has
<1>2. create' <= create
  BY DEF PlaceInv, Types
<1> QED
  BY <1>1, <1>2, InLive, NoneMore DEF setVars

LEMMA BoundCaller ==
  ASSUME PlaceInv, Types', BoundInv, NEW c \in Caller, CallerStep(c)
  PROVE  BoundInv'
<1>1. CASE Get(c)
  <2>1. \A a \in Thread : pc'[a] = "create" => pc[a] = "create"
    BY <1>1 DEF Get, Start, Goto, PlaceInv, Types
  <2> QED
    BY <1>1, <2>1, NoneMoved DEF Get, Start, reclaimVars
<1>2. CASE Got(c)
  <2>1. c \in Thread /\ client' = [client EXCEPT ![c] = NoConn]
          /\ pc' = [pc EXCEPT ![c] = "idle"] /\ create' = create
    BY <1>2 DEF Got, Hand, Goto, reclaimVars, Thread
  <2>2. CASE client[c] \in open /\ client[c] \notin in_use_
    <3>1. /\ held' = [held EXCEPT ![c] = client[c]]
          /\ allocated_connections_' = allocated_connections_ \union {client[c]}
          /\ UNCHANGED <<free_connections_, closed_connections_>>
      BY <1>2, <2>2 DEF Got
    <3>2. client[c] # NoConn
      BY <1>2 DEF Got, PlaceInv, Hands, Thread
    <3>3. Busy' \subseteq Busy
      BY <2>1, <3>1, <3>2 DEF Busy, Has, PlaceInv, Types
    <3>4. client[c] \in Live
      BY <2>1, <3>2, InLive
    <3>5. /\ \A a \in Thread : client'[a] \in Live \union {NoConn}
          /\ \A a \in Caller : held'[a] \in Live \union {NoConn}
          /\ allocated_connections_' \subseteq Live
      BY <2>1, <3>1, <3>4, InLive DEF PlaceInv, Types
    <3>6. create' <= create
      BY <2>1 DEF PlaceInv, Types
    <3> QED
      BY <3>1, <3>3, <3>5, <3>6, InLive, NoneMore
  <2>3. CASE ~(client[c] \in open /\ client[c] \notin in_use_)
    <3>1. PutConnection(c) /\ UNCHANGED <<allocated_connections_, held>> /\ pc[c] = "got"
      BY <1>2, <2>3 DEF Got
    <3> QED
      BY <2>1, <3>1, FiledOne
  <2> QED
    BY <2>2, <2>3
<1>3. CASE Put(c)
  <2>1. /\ c \in Thread /\ client' = [client EXCEPT ![c] = held[c]]
        /\ held' = [held EXCEPT ![c] = NoConn] /\ pc' = [pc EXCEPT ![c] = "put"]
        /\ allocated_connections_' \subseteq allocated_connections_
        /\ UNCHANGED <<free_connections_, closed_connections_, create>> /\ held[c] # NoConn
    BY <1>3 DEF Put, Hand, Goto, reclaimVars, Thread
  <2>2. Busy' \subseteq Busy
    BY <2>1 DEF Busy, Has, PlaceInv, Types
  <2>3. /\ \A a \in Thread : client'[a] \in Live \union {NoConn}
        /\ \A a \in Caller : held'[a] \in Live \union {NoConn}
    BY <2>1, InLive DEF PlaceInv, Types
  <2>4. create' <= create
    BY <2>1 DEF PlaceInv, Types
  <2> QED
    BY <2>1, <2>2, <2>3, <2>4, InLive, NoneMore
<1>4. CASE PutBack(c)
  BY <1>4, FiledOne DEF PutBack, Hand, Goto, reclaimVars, Thread
<1>5. CASE Close(c)
  BY <1>5, NoneMoved DEF Close, reclaimVars
<1> QED
  BY <1>1, <1>2, <1>3, <1>4, <1>5 DEF CallerStep

LEMMA BoundAcquire ==
  ASSUME PlaceInv, Types', BoundInv, NEW a \in Thread, Acquire(a)
  PROVE  BoundInv'
<1>0. /\ Finite /\ Finite' /\ min_free_conn_ \in Nat /\ create \in Nat
      /\ client \in [Thread -> Conn \union {NoConn}] /\ pc \in [Thread -> Values(pc)]
  BY AreFinite, AreFiniteNext, ConnAssumption DEF PlaceInv, Types, Values
<1>1. CASE TakeFree(a) /\ free_connections_ # {}
  <2>1. PICK c \in free_connections_ :
               free_connections_' = free_connections_ \ {c} /\ client' = [client EXCEPT ![a] = c]
    BY <1>1 DEF TakeFree, Take, Hand
  <2>2. /\ \E label \in {"got", "check"} : pc' = [pc EXCEPT ![a] = label]
        /\ UNCHANGED <<allocated_connections_, closed_connections_, held, create>>
    BY <1>1 DEF TakeFree, Goto, reclaimVars
  <2>3. c \in Live
    BY InLive
  <2>4. Busy' \subseteq Busy \union {a}
    BY <1>0, <2>1, <2>2 DEF Busy, Has
  <2>5. \A d \in Conn :
           \/ d \in free_connections_' \union allocated_connections_' \union closed_connections_'
           \/ (\E b \in Thread : client'[b] = d) \/ (\E b \in Caller : held'[b] = d)
           => d \in Live
    BY <1>0, <2>1, <2>2, <2>3, InLive, NamesAssumption
  <2> HIDE DEF Busy
  <2>6. Cardinality(Busy)' <= Cardinality(Busy) + 1
    <3>1. IsFiniteSet(Busy) /\ Cardinality(Busy) \in Nat
      BY <1>0 DEF Finite
    <3>2. /\ IsFiniteSet(Busy \union {a})
          /\ Cardinality(Busy \union {a}) <= Cardinality(Busy) + 1
      BY <3>1, FS_AddElement
    <3>3. Cardinality(Busy') <= Cardinality(Busy \union {a})
      BY <2>4, <3>2, FS_Subset
    <3> QED
      BY <1>0, <3>1, <3>2, <3>3, FS_CardinalityType DEF Finite
  <2>7. Cardinality(free_connections_)' = Cardinality(free_connections_) - 1
    <3>1. Cardinality(free_connections_ \ {c}) = Cardinality(free_connections_) - 1
      BY <1>0, <2>1, FS_RemoveElement DEF Finite
    <3> QED
      BY <2>1, <3>1
  <2>8. /\ create' <= min_free_conn_
        /\ Cardinality(free_connections_)' + Cardinality(Busy)' + create'
             <= min_free_conn_ + Cardinality(Thread)
    BY <1>0, <2>2, <2>6, <2>7 DEF Finite, BoundInv
  <2> QED
    BY <2>5, <2>8, NoneNew DEF PlaceInv
<1>2. CASE TakeFree(a) /\ free_connections_ = {}
  <2>1. UNCHANGED <<setVars, client, held, create>>
    BY <1>2 DEF TakeFree, setVars, reclaimVars
  <2>2. \A d \in Conn :
           \/ d \in free_connections_' \union allocated_connections_' \union closed_connections_'
           \/ (\E b \in Thread : client'[b] = d) \/ (\E b \in Caller : held'[b] = d)
           => d \in Live
    BY <2>1, InLive, NamesAssumption DEF setVars
  <2>3. Cardinality(free_connections_)' = 0 /\ create' = create
    BY <1>2, <2>1, FS_EmptySet DEF setVars
  <2>4. /\ create' <= min_free_conn_
        /\ Cardinality(free_connections_)' + Cardinality(Busy)' + create'
             <= min_free_conn_ + Cardinality(Thread)
    BY <1>0, <2>3 DEF Finite, BoundInv
  <2> QED
    BY <2>2, <2>4, NoneNew DEF PlaceInv
<1>3. CASE CreateConnection(a) /\ closed_connections_ # {}
  <2>1. PICK c \in closed_connections_ :
               closed_connections_' = closed_connections_ \ {c} /\ client' = [client EXCEPT ![a] = c]
    BY <1>3 DEF CreateConnection, Take, Hand
  <2>2. /\ pc[a] = "create" /\ pc' = [pc EXCEPT ![a] = "connect"]
        /\ UNCHANGED <<free_connections_, allocated_connections_, held, create>>
    BY <1>3 DEF CreateConnection, Goto, reclaimVars
  <2>3. Busy' \subseteq Busy
    BY <1>0, <2>1, <2>2 DEF Busy, Has
  <2>4. \A b \in Thread : client'[b] \in Live \union {NoConn}
    BY <1>0, <2>1, InLive
  <2> QED
    BY <1>0, <2>1, <2>2, <2>3, <2>4, InLive, NoneMore
<1>4. CASE CreateConnection(a) /\ closed_connections_ = {}
  <2>1. PICK c \in Conn : client' = [client EXCEPT ![a] = c]
    BY <1>4 DEF CreateConnection, Hand
  <2> QED
    BY <1>4, <2>1, OneMore DEF CreateConnection, Goto, reclaimVars, setVars
<1>5. CASE Connect(a)
  <2>1. \E label \in {"got", "put_back", "check"} : pc' = [pc EXCEPT ![a] = label]
    BY <1>5 DEF Connect, Goto
  <2>2. \A b \in Thread : pc'[b] = "create" => pc[b] = "create"
    BY <1>0, <2>1
  <2> QED
    BY <1>5, <2>2, NoneMoved DEF Connect, reclaimVars
<1> QED
  BY <1>1, <1>2, <1>3, <1>4, <1>5 DEF Acquire

LEMMA BoundProbe ==
  ASSUME PlaceInv, Types', BoundInv, ProbeStep
  PROVE  BoundInv'
<1>0. /\ Finite /\ Finite' /\ min_free_conn_ \in Nat /\ create \in Nat
      /\ client \in [Thread -> Conn \union {NoConn}] /\ pc \in [Thread -> Values(pc)]
      /\ Prober \in Thread
  BY AreFinite, AreFiniteNext, ConnAssumption DEF PlaceInv, Types, Values, Thread
<1>1. CASE Acquire(Prober)
  BY <1>0, <1>1, BoundAcquire
<1>2. CASE Check
  <2>1. \A b \in Thread : pc'[b] = "create" => pc[b] = "create"
    BY <1>0, <1>2 DEF Check, Goto
  <2> QED
    BY <1>2, <2>1, NoneMoved DEF Check, reclaimVars
<1>3. CASE ProbePutBack
  <2>1. \E label \in {"idle", "reclaim", "set_status"} : pc' = [pc EXCEPT ![Prober] = label]
    BY <1>3 DEF ProbePutBack, Goto
  <2> QED
    BY <1>0, <1>3, <2>1, FiledOne DEF ProbePutBack, Hand, reclaimVars
<1>4. CASE SetStatus
  <2>1. \A b \in Thread : pc'[b] = "create" => pc[b] = "create"
    BY <1>0, <1>4 DEF SetStatus, Goto
  <2> QED
    BY <1>4, <2>1, NoneMoved DEF SetStatus, reclaimVars
<1>5. CASE ReclaimCreate
  <2>1. /\ UNCHANGED <<setVars, client, held>> /\ pc' = [pc EXCEPT ![Prober] = "create"]
        /\ create > 0 /\ create' = create - 1
    BY <1>5 DEF ReclaimCreate, Goto
  <2>2. Busy' \subseteq Busy \union {Prober}
    BY <1>0, <2>1 DEF Busy, Has
  <2>3. \A d \in Conn :
           \/ d \in free_connections_' \union allocated_connections_' \union closed_connections_'
           \/ (\E b \in Thread : client'[b] = d) \/ (\E b \in Caller : held'[b] = d)
           => d \in Live
    BY <2>1, InLive, NamesAssumption DEF setVars
  <2> HIDE DEF Busy
  <2>4. Cardinality(Busy') <= Cardinality(Busy) + 1
    <3>1. IsFiniteSet(Busy) /\ Cardinality(Busy) \in Nat
      BY <1>0 DEF Finite
    <3>2. /\ IsFiniteSet(Busy \union {Prober})
          /\ Cardinality(Busy \union {Prober}) <= Cardinality(Busy) + 1
      BY <3>1, FS_AddElement
    <3>3. Cardinality(Busy') <= Cardinality(Busy \union {Prober})
      BY <2>2, <3>2, FS_Subset
    <3> QED
      BY <1>0, <3>1, <3>2, <3>3, FS_CardinalityType DEF Finite
  <2>5. Cardinality(free_connections_)' = Cardinality(free_connections_)
    BY <2>1 DEF setVars
  <2>6. /\ create' <= min_free_conn_
        /\ Cardinality(free_connections_)' + Cardinality(Busy)' + create'
             <= min_free_conn_ + Cardinality(Thread)
    BY <1>0, <2>1, <2>4, <2>5 DEF Finite, BoundInv
  <2> QED
    BY <2>3, <2>6, NoneNew DEF PlaceInv
<1>6. CASE ReclaimFree
  <2>1. /\ free_connections_' \subseteq free_connections_ /\ create' <= create
        /\ UNCHANGED <<allocated_connections_, closed_connections_, pc, client, held>>
    BY <1>0, <1>6 DEF ReclaimFree
  <2>2. Busy' \subseteq Busy
    BY <2>1 DEF Busy, Has
  <2> QED
    BY <2>1, <2>2, InLive, NoneMore
<1>7. CASE ReclaimClosed
  <2>1. /\ closed_connections_' \subseteq closed_connections_ /\ create' <= create
        /\ UNCHANGED <<free_connections_, allocated_connections_, pc, client, held>>
    BY <1>0, <1>7 DEF ReclaimClosed
  <2>2. Busy' \subseteq Busy
    BY <2>1 DEF Busy, Has
  <2> QED
    BY <2>1, <2>2, InLive, NoneMore
<1>8. CASE ReclaimDone
  <2>1. \A b \in Thread : pc'[b] = "create" => pc[b] = "create"
    BY <1>0, <1>8 DEF ReclaimDone, Goto
  <2> QED
    BY <1>8, <2>1, NoneMoved DEF ReclaimDone, reclaimVars
<1> QED
  BY <1>1, <1>2, <1>3, <1>4, <1>5, <1>6, <1>7, <1>8 DEF ProbeStep

\* A round of reclaiming starts with as many creations due as free connections
\* are missing, or with none.
LEMMA BoundReclaim ==
  ASSUME PlaceInv, Types', BoundInv, ReclaimConnections
  PROVE  BoundInv'
<1> DEFINE fs == Cardinality(free_connections_)
<1>0. /\ Finite /\ Finite' /\ min_free_conn_ \in Nat /\ create \in Nat /\ fs \in Nat
  BY AreFinite, AreFiniteNext, ConnAssumption DEF PlaceInv, Types, Finite
<1>1. UNCHANGED <<setVars, client, held>> /\ pc' = [pc EXCEPT ![Prober] = "reclaim"]
  BY DEF ReclaimConnections, Goto
<1>2. create' = 0 \/ create' = Minus(min_free_conn_, fs)
  BY DEF ReclaimConnections, ToCreate
<1>3. create' <= min_free_conn_ /\ (create' = 0 \/ fs + create' = min_free_conn_)
  BY <1>0, <1>2 DEF Minus
<1>4. Busy' \subseteq Busy
  BY <1>1 DEF Busy, Has, PlaceInv, Types
<1>5. Cardinality(Busy)' <= Cardinality(Busy)
  BY <1>0, <1>4, FS_Subset DEF Finite
<1>6. fs' = fs
  BY <1>1 DEF setVars
<1>7. create' \in Nat
  BY DEF Types
<1>8. Cardinality(free_connections_)' + Cardinality(Busy)' + create'
        <= min_free_conn_ + Cardinality(Thread)
  <2> HIDE DEF Busy
  <2>1. fs + Cardinality(Busy) <= min_free_conn_ + Cardinality(Thread)
    BY <1>0 DEF BoundInv, Finite
  <2> QED
    BY <1>0, <1>3, <1>5, <1>6, <1>7, <2>1 DEF Finite
<1>9. \A d \in Conn :
         \/ d \in free_connections_' \union allocated_connections_' \union closed_connections_'
         \/ (\E b \in Thread : client'[b] = d) \/ (\E b \in Caller : held'[b] = d)
         => d \in Live
  BY <1>1, InLive, NamesAssumption DEF setVars
<1> QED
  BY <1>3, <1>8, <1>9, NoneNew DEF PlaceInv

LEMMA BoundStep == PlaceInv /\ Types' /\ BoundInv /\ [Next]_vars => BoundInv'
<1> SUFFICES ASSUME PlaceInv, Types', BoundInv, [Next]_vars PROVE BoundInv'
  OBVIOUS
<1>1. ASSUME NEW c \in Caller, CallerStep(c) \/ Acquire(c) PROVE BoundInv'
  BY <1>1, BoundCaller, BoundAcquire DEF Thread
<1>2. CASE UpdateStatus \/ QuickUpdateStatus
  <2>1. \A b \in Thread : pc'[b] = "create" => pc[b] = "create"
    BY <1>2 DEF UpdateStatus, QuickUpdateStatus, Start, Goto, PlaceInv, Types
  <2> QED
    BY <1>2, <2>1, NoneMoved DEF UpdateStatus, QuickUpdateStatus, reclaimVars
<1>3. CASE ReclaimConnections
  BY <1>3, BoundReclaim
<1>4. CASE ProbeStep
  BY <1>4, BoundProbe
<1>5. CASE StopProbe
  BY <1>5, NoneMoved DEF StopProbe, reclaimVars
<1>6. CASE Destroy
  <2>1. /\ free_connections_' = {} /\ closed_connections_' = {}
        /\ UNCHANGED <<allocated_connections_, pc, client, held, create>>
    BY <1>6 DEF Destroy, reclaimVars
  <2>2. Busy' \subseteq Busy /\ create' <= create
    BY <2>1 DEF Busy, Has, PlaceInv, Types
  <2> QED
    BY <2>1, <2>2, InLive, NoneMore
<1>7. CASE ServerTurn \/ \E c \in Conn : ServerClose(c)
  BY <1>7, NoneMoved DEF ServerTurn, ServerClose, reclaimVars
<1>8. CASE UNCHANGED vars
  BY <1>8, NoneMoved DEF vars, reclaimVars
<1> QED
  BY <1>1, <1>2, <1>3, <1>4, <1>5, <1>6, <1>7, <1>8 DEF Next

\* The constructor stops at the first connection that fails, the one it files as
\* closed.
LEMMA BoundInit == Init => BoundInv
<1> SUFFICES ASSUME Init PROVE BoundInv
  OBVIOUS
<1>1. PICK S \in SUBSET Conn, c \in SUBSET Conn :
             /\ Cardinality(S) <= min_free_conn_
             /\ Cardinality(c) = IF Cardinality(S) < min_free_conn_ THEN 1 ELSE 0
             /\ free_connections_ = S /\ closed_connections_ = c
  BY DEF Init
<1>2. /\ IsFiniteSet(S) /\ Cardinality(S) \in Nat
      /\ IsFiniteSet(c) /\ Cardinality(c) \in Nat
  BY FiniteAssumption, FS_Subset, FS_CardinalityType
<1>3. Busy = {}
  BY DEF Init, Busy, Has, Thread
<1>4. Cardinality(Busy) = 0
  BY <1>3, FS_EmptySet
<1>5. Live = S \union c
  BY <1>1 DEF Init, Live, Values
<1>6. Cardinality(S \union c) <= min_free_conn_
  <2>1. Cardinality(S \union c) = Cardinality(S) + Cardinality(c) - Cardinality(S \intersect c)
    BY <1>2, FS_Union
  <2>2. Cardinality(S \intersect c) \in Nat
    BY <1>2, FS_Subset, FS_CardinalityType
  <2> QED
    BY <1>1, <1>2, <2>1, <2>2, ConnAssumption
<1>7. create = 0
  BY DEF Init
<1>8. Cardinality(Thread) \in Nat /\ min_free_conn_ \in Nat
  BY ThreadFinite, ConnAssumption
<1>9. Bounded
  <2>1. Cardinality(Live) \in Nat
    BY <1>2, <1>5, FS_Union, FS_CardinalityType
  <2> QED
    BY <1>5, <1>6, <1>8, <2>1 DEF Bounded
<1> QED
  BY <1>1, <1>2, <1>4, <1>7, <1>8, <1>9 DEF BoundInv

\* Although reclaim_connections acts on sizes that are out of date, the
\* connections never outnumber min_free_conn_ and the threads.
THEOREM Limited == Spec => []Bounded
<1>1. PlaceInv => Types
  BY DEF PlaceInv
<1>2. BoundInv => Bounded
  BY DEF BoundInv
<1> QED
  BY <1>1, <1>2, PlaceCorrect, BoundInit, BoundStep, PTL DEF Spec
=============================================================================
