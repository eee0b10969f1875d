------------------------- MODULE DatabasePoolProofs -------------------------
(***************************************************************************)
(* Theorems about the database worker pool, for any number of callers,     *)
(* workers and connections and for a queue of any length.                  *)
(***************************************************************************)
EXTENDS DatabasePool, FiniteSetTheorems, TLAPS

\* What a caller has promised to enqueue, the connection it is looking at, and
\* the connections it is in.
CallerInv(c) ==
    /\ callerPc[c] = "enqueue" => toEnqueue[c] >= 1 /\ delayed[c] + toEnqueue[c] <= MaxOps
    /\ callerPc[c] \in {"ping", "pinged"} =>
          c = WorldThread /\ delayed[c] + Cardinality(Workers) <= MaxOps
    /\ callerPc[c] \in {"seek", "direct", "pinged"} => probe[c] < Connections
    /\ using[c] = IF callerPc[c] \in {"direct", "pinged"} THEN {probe[c]} ELSE {}

LockInv ==
    /\ locked = UNION {using[c] : c \in Callers}
    /\ \A c, d \in Callers : c # d => using[c] \cap using[d] = {}

PoolInv == TypeOK /\ (\A c \in Callers : CallerInv(c)) /\ LockInv

LEMMA PoolInit == Init => PoolInv
<1> SUFFICES ASSUME Init PROVE PoolInv
  OBVIOUS
<1>1. TypeOK
  BY PoolAssumption DEF Init, QueueInit, TypeOK, QueueTypeOK, Workers
<1>2. \A c \in Callers : CallerInv(c)
  BY DEF Init, CallerInv
<1>3. LockInv
  BY DEF Init, LockInv
<1> QED
  BY <1>1, <1>2, <1>3 DEF PoolInv

\* A caller that takes a free connection, and one that gives its back, keep the
\* mutexes and the users of the connections in step.
LEMMA LockIfReadyStep ==
    ASSUME PoolInv, NEW c \in Callers, LockIfReady(c), using[c] = {}
    PROVE  LockInv' /\ using'[c] = {probe[c]} /\ \A d \in Callers : d # c => using'[d] = using[d]
<1> USE DEF PoolInv, TypeOK, LockInv
<1>1. /\ using' = [using EXCEPT ![c] = {probe[c]}]
      /\ locked' = locked \cup {probe[c]}
      /\ probe[c] \notin locked
  BY DEF LockIfReady
<1>2. \A d \in Callers : probe[c] \notin using[d]
  BY <1>1
<1>3. \A d, e \in Callers : d # e => using'[d] \cap using'[e] = {}
  BY <1>1, <1>2
<1>4. locked' = UNION {using'[d] : d \in Callers}
  BY <1>1
<1> QED
  BY <1>1, <1>3, <1>4

LEMMA UnlockStep ==
    ASSUME PoolInv, NEW c \in Callers, Unlock(c), using[c] = {probe[c]}
    PROVE  LockInv' /\ using'[c] = {} /\ \A d \in Callers : d # c => using'[d] = using[d]
<1> USE DEF PoolInv, TypeOK, LockInv
<1>1. using' = [using EXCEPT ![c] = {}] /\ locked' = locked \ {probe[c]}
  BY DEF Unlock
<1>2. \A d \in Callers : d # c => probe[c] \notin using[d]
  OBVIOUS
<1>3. \A d, e \in Callers : d # e => using'[d] \cap using'[e] = {}
  BY <1>1
<1>4. locked' = UNION {using'[d] : d \in Callers}
  BY <1>1, <1>2
<1> QED
  BY <1>1, <1>3, <1>4

\* A step of one caller changes nothing the others rely on.
LEMMA OneCaller ==
    ASSUME PoolInv, TypeOK', LockInv', NEW c \in Callers, CallerInv(c)',
           \A d \in Callers : d # c =>
              /\ callerPc'[d] = callerPc[d] /\ probe'[d] = probe[d] /\ using'[d] = using[d]
              /\ toEnqueue'[d] = toEnqueue[d] /\ delayed'[d] = delayed[d]
    PROVE  PoolInv'
<1>1. ASSUME NEW d \in Callers, d # c
      PROVE  CallerInv(d)'
  BY <1>1 DEF PoolInv, CallerInv
<1> QED
  BY <1>1 DEF PoolInv

\* Neither does a step that no caller takes part in.
LEMMA NoCaller ==
    ASSUME PoolInv, TypeOK', UNCHANGED callerVars
    PROVE  PoolInv'
<1>1. \A d \in Callers : CallerInv(d)'
  BY DEF PoolInv, CallerInv, callerVars
<1>2. LockInv'
  BY DEF PoolInv, LockInv, callerVars
<1> QED
  BY <1>1, <1>2 DEF PoolInv

\* Every step keeps the types.
LEMMA TypeStep == PoolInv /\ [Next]_vars => TypeOK'
<1> SUFFICES ASSUME PoolInv, [Next]_vars
             PROVE  TypeOK'
  OBVIOUS
<1> USE DEF TypeOK, QueueTypeOK, Workers, queueVars, callerVars, workerVars
<1>t. TypeOK /\ \A c \in Callers : CallerInv(c)
  BY DEF PoolInv
<1>c. Connections \in Nat \ {0} /\ MaxOps \in Nat /\ WorldThread \in Callers
  BY PoolAssumption
<1>f. Cardinality(Workers) \in Nat
  BY PoolAssumption, FS_CardinalityType
<1>l. ASSUME NEW c \in Callers, probe[c] \in ConnectionIds, LockIfReady(c)
      PROVE  locked' \subseteq ConnectionIds /\ using' \in [Callers -> SUBSET ConnectionIds]
  BY <1>l, <1>t DEF LockIfReady
<1>u. ASSUME NEW c \in Callers, Unlock(c)
      PROVE  locked' \subseteq ConnectionIds /\ using' \in [Callers -> SUBSET ConnectionIds]
  BY <1>u, <1>t DEF Unlock
<1>1. ASSUME NEW c \in Callers, Delay(c)
      PROVE  TypeOK'
  BY <1>1, <1>t DEF Delay
<1>2. ASSUME NEW c \in Callers, EnqueueRequest(c)
      PROVE  TypeOK'
  <2>1. toEnqueue[c] >= 1 /\ delayed[c] + toEnqueue[c] <= MaxOps
    BY <1>2, <1>t DEF EnqueueRequest, CallerInv
  <2>2. delayed[c] + 1 \in 1..MaxOps /\ toEnqueue[c] - 1 \in Nat
    BY <2>1, <1>t, <1>c
  <2>3. <<c, delayed[c] + 1>> \in Op
    BY <2>2 DEF Op
  <2>4. /\ queue' \in Seq(Op) /\ activated' \in BOOLEAN /\ sleepers' \in SUBSET Readers
        /\ submitted' \in Seq(Op)
    BY <1>2, <1>t, <2>3 DEF EnqueueRequest, Enqueue, SignalDequeueWaiters
  <2>5. delayed' \in [Callers -> 0..MaxOps] /\ toEnqueue' \in [Callers -> Nat]
    BY <1>2, <1>t, <2>2 DEF EnqueueRequest
  <2>6. callerPc' \in [Callers -> {"ready", "enqueue", "seek", "direct", "ping", "pinged", "gone"}]
    BY <1>2, <1>t DEF EnqueueRequest
  <2> QED
    BY <1>2, <1>t, <2>4, <2>5, <2>6 DEF EnqueueRequest
<1>3. ASSUME NEW c \in Callers, StartDirect(c)
      PROVE  TypeOK'
  <2>1. After(0) \in 0..Connections
    BY <1>c DEF After
  <2>2. /\ probe' \in [Callers -> 0..Connections]
        /\ callerPc' \in [Callers -> {"ready", "enqueue", "seek", "direct", "ping", "pinged", "gone"}]
    BY <1>3, <1>t, <2>1 DEF StartDirect
  <2>3. direct[c] \in 0..MaxOps /\ direct[c] < MaxOps
    BY <1>3, <1>t DEF StartDirect
  <2>4. direct[c] + 1 \in 0..MaxOps
    BY <2>3, <1>c
  <2>5. direct' \in [Callers -> 0..MaxOps]
    BY <1>3, <1>t, <2>4 DEF StartDirect
  <2>6. /\ queue' = queue /\ activated' = activated /\ sleepers' = sleepers
        /\ locked' = locked /\ using' = using /\ toEnqueue' = toEnqueue /\ delayed' = delayed
        /\ workerPc' = workerPc /\ request' = request
        /\ submitted' = submitted /\ executed' = executed /\ poolPc' = poolPc
    BY <1>3 DEF StartDirect
  <2> QED
    BY <1>t, <2>2, <2>5, <2>6
<1>4. ASSUME NEW c \in Callers, GetFreeConnection(c)
      PROVE  TypeOK'
  <2>1. probe[c] \in ConnectionIds
    BY <1>4, <1>t, <1>c DEF GetFreeConnection, CallerInv, ConnectionIds
  <2>2. After(probe[c]) \in 0..Connections
    BY <2>1, <1>c DEF After, ConnectionIds
  <2>3. CASE LockIfReady(c) /\ callerPc' = [callerPc EXCEPT ![c] = "direct"] /\ UNCHANGED probe
    BY <1>4, <1>t, <1>l, <2>1, <2>3 DEF GetFreeConnection
  <2>4. CASE probe' = [probe EXCEPT ![c] = After(@)] /\ UNCHANGED <<callerPc, locked, using>>
    BY <1>4, <1>t, <2>2, <2>4 DEF GetFreeConnection
  <2> QED
    BY <1>4, <2>3, <2>4 DEF GetFreeConnection
<1>5. ASSUME NEW c \in Callers, FinishDirect(c)
      PROVE  TypeOK'
  BY <1>5, <1>t, <1>u DEF FinishDirect
<1>6. ASSUME NEW c \in Callers, Leave(c)
      PROVE  TypeOK'
  BY <1>6, <1>t DEF Leave
<1>7. CASE KeepAlive
  BY <1>7, <1>t, <1>c DEF KeepAlive
<1>8. CASE Ping
  <2>1. probe[WorldThread] \in ConnectionIds /\ probe[WorldThread] + 1 \in 0..Connections
    BY <1>8, <1>t, <1>c DEF Ping, ConnectionIds
  <2>2. CASE LockIfReady(WorldThread)
              /\ callerPc' = [callerPc EXCEPT ![WorldThread] = "pinged"] /\ UNCHANGED probe
    BY <1>8, <1>t, <1>c, <1>l, <2>1, <2>2 DEF Ping
  <2>3. CASE probe' = [probe EXCEPT ![WorldThread] = @ + 1] /\ UNCHANGED <<callerPc, locked, using>>
    BY <1>8, <1>t, <2>1, <2>3 DEF Ping
  <2> QED
    BY <1>8, <2>2, <2>3 DEF Ping
<1>9. CASE Pinged
  <2>1. probe[WorldThread] + 1 \in 0..Connections
    BY <1>9, <1>t, <1>c DEF Pinged, CallerInv
  <2> QED
    BY <1>9, <1>t, <1>c, <1>u, <2>1 DEF Pinged
<1>10. CASE PingWorkers
  BY <1>10, <1>t, <1>f DEF PingWorkers
<1>11. ASSUME NEW w \in Workers, TakeRequest(w)
       PROVE  TypeOK'
  <2>1. Head(queue) \in Op /\ Tail(queue) \in Seq(Op)
    BY <1>11, <1>t DEF TakeRequest, Dequeue
  <2> QED
    BY <1>11, <1>t, <2>1 DEF TakeRequest, Dequeue
<1>12. ASSUME NEW w \in Workers, WaitForRequest(w) \/ WorkerExits(w)
       PROVE  TypeOK'
  BY <1>12, <1>t DEF WaitForRequest, DequeueSleep, WorkerExits, DequeueFails
<1>13. ASSUME NEW w \in Workers, Call(w)
       PROVE  TypeOK'
  <2>1. executed' = [executed EXCEPT ![request[w]] = executed[request[w]] + 1]
    BY <1>13 DEF Call
  <2>2. \A o \in Op : [executed EXCEPT ![request[w]] = executed[request[w]] + 1][o] \in Nat
    BY <1>t
  <2>3. executed' \in [Op -> Nat]
    BY <1>t, <2>1, <2>2
  <2>4. /\ queue' = queue /\ activated' = activated /\ sleepers' = sleepers
        /\ callerPc' = callerPc /\ probe' = probe /\ locked' = locked /\ using' = using
        /\ toEnqueue' = toEnqueue /\ delayed' = delayed /\ direct' = direct
        /\ submitted' = submitted /\ poolPc' = poolPc
    BY <1>13 DEF Call
  <2>5. /\ workerPc' \in [Workers -> {"dequeue", "execute", "exit"}]
        /\ request' \in [Workers -> Op \cup {NoOp}]
    BY <1>13, <1>t DEF Call
  <2> QED
    BY <1>t, <2>3, <2>4, <2>5
<1>14. CASE ClosePool \/ WorkersJoined
  <2>1. CASE ClosePool
    <3>1. queue' \in Seq(Op) /\ activated' \in BOOLEAN /\ sleepers' \in SUBSET Readers
      <4>1. queue' = << >> /\ activated' = FALSE /\ sleepers' = {}
        BY <2>1 DEF ClosePool, Close
      <4> HIDE DEF TypeOK, QueueTypeOK
      <4>2. queue' \in Seq(Op)
        BY <4>1
      <4>3. activated' \in BOOLEAN
        BY <4>1
      <4>4. sleepers' \in SUBSET Readers
        BY <4>1
      <4> QED
        BY <4>2, <4>3, <4>4
    <3>2. /\ callerPc' = callerPc /\ probe' = probe /\ locked' = locked /\ using' = using
          /\ toEnqueue' = toEnqueue /\ delayed' = delayed /\ direct' = direct
          /\ workerPc' = workerPc /\ request' = request
          /\ submitted' = submitted /\ executed' = executed /\ poolPc' = "joining"
      BY <2>1 DEF ClosePool
    <3> QED
      BY <3>1, <3>2, <1>t
  <2>2. CASE WorkersJoined
    BY <2>2, <1>t DEF WorkersJoined
  <2> QED
    BY <1>14, <2>1, <2>2
<1>15. CASE UNCHANGED vars
  BY <1>15, <1>t DEF vars
<1> QED
  BY <1>1, <1>2, <1>3, <1>4, <1>5, <1>6, <1>7, <1>8, <1>9, <1>10, <1>11, <1>12, <1>13, <1>14, <1>15
     DEF Next, WorkerStep, CallerStep, KeepAliveStep, Closed

\* Every step keeps the mutexes and what each caller has promised.
LEMMA PoolStep == PoolInv /\ [Next]_vars => PoolInv'
<1> SUFFICES ASSUME PoolInv, [Next]_vars
             PROVE  PoolInv'
  OBVIOUS
<1> USE DEF queueVars, callerVars, workerVars
<1>t. TypeOK' /\ LockInv /\ \A c \in Callers : CallerInv(c)
  BY TypeStep DEF PoolInv
<1>y. /\ callerPc \in [Callers -> {"ready", "enqueue", "seek", "direct", "ping", "pinged", "gone"}]
      /\ probe \in [Callers -> 0..Connections]
      /\ using \in [Callers -> SUBSET ConnectionIds]
      /\ toEnqueue \in [Callers -> Nat]
      /\ delayed \in [Callers -> 0..MaxOps]
  BY DEF PoolInv, TypeOK
<1>c. Connections \in Nat \ {0} /\ MaxOps \in Nat /\ WorldThread \in Callers
  BY PoolAssumption
<1>f. Cardinality(Workers) \in Nat /\ (Workers # {} => Cardinality(Workers) >= 1)
  BY PoolAssumption, FS_CardinalityType, FS_EmptySet
<1>1. ASSUME NEW c \in Callers, Delay(c)
      PROVE  PoolInv'
  <2>1. CallerInv(c)'
    BY <1>1, <1>t, <1>y, <1>c DEF Delay, CallerInv
  <2>2. LockInv'
    BY <1>1, <1>t DEF Delay, LockInv
  <2> QED
    BY <1>1, <1>t, <1>y, <2>1, <2>2, OneCaller DEF Delay
<1>2. ASSUME NEW c \in Callers, EnqueueRequest(c)
      PROVE  PoolInv'
  <2>1. /\ callerPc[c] = "enqueue" /\ toEnqueue[c] >= 1 /\ using[c] = {}
        /\ delayed[c] + toEnqueue[c] <= MaxOps
    BY <1>2, <1>t DEF EnqueueRequest, CallerInv
  <2>2. /\ delayed'[c] = delayed[c] + 1 /\ toEnqueue'[c] = toEnqueue[c] - 1
        /\ callerPc'[c] = IF toEnqueue[c] = 1 THEN "ready" ELSE "enqueue"
        /\ using' = using
    BY <1>2, <1>y DEF EnqueueRequest
  <2>3. toEnqueue[c] \in Nat /\ delayed[c] \in Nat
    BY <1>y, <1>c
  <2>4. CallerInv(c)'
    BY <1>c, <2>1, <2>2, <2>3 DEF CallerInv
  <2>5. LockInv'
    BY <1>2, <1>t DEF EnqueueRequest, LockInv
  <2> QED
    BY <1>2, <1>t, <1>y, <2>4, <2>5, OneCaller DEF EnqueueRequest
<1>3. ASSUME NEW c \in Callers, StartDirect(c)
      PROVE  PoolInv'
  <2>1. After(0) < Connections
    BY <1>c DEF After
  <2>2. CallerInv(c)'
    BY <1>3, <1>t, <1>y, <2>1 DEF StartDirect, CallerInv
  <2>3. LockInv'
    BY <1>3, <1>t DEF StartDirect, LockInv
  <2> QED
    BY <1>3, <1>t, <1>y, <2>2, <2>3, OneCaller DEF StartDirect
<1>4. ASSUME NEW c \in Callers, GetFreeConnection(c)
      PROVE  PoolInv'
  <2>1. probe[c] < Connections /\ using[c] = {} /\ callerPc[c] = "seek"
    BY <1>4, <1>t DEF GetFreeConnection, CallerInv
  <2>2. CASE LockIfReady(c) /\ callerPc' = [callerPc EXCEPT ![c] = "direct"] /\ UNCHANGED probe
    <3>1. LockInv' /\ using'[c] = {probe[c]} /\ \A d \in Callers : d # c => using'[d] = using[d]
      BY <2>1, <2>2, LockIfReadyStep
    <3>2. CallerInv(c)'
      BY <1>4, <1>y, <2>1, <2>2, <3>1 DEF GetFreeConnection, CallerInv
    <3> QED
      BY <1>4, <1>t, <1>y, <2>2, <3>1, <3>2, OneCaller DEF GetFreeConnection
  <2>3. CASE probe' = [probe EXCEPT ![c] = After(@)] /\ UNCHANGED <<callerPc, locked, using>>
    <3>1. After(probe[c]) < Connections
      BY <1>c, <1>y DEF After
    <3>2. CallerInv(c)'
      BY <1>4, <1>y, <2>1, <2>3, <3>1 DEF GetFreeConnection, CallerInv
    <3>3. LockInv'
      BY <1>t, <2>3 DEF LockInv
    <3> QED
      BY <1>4, <1>t, <1>y, <2>3, <3>2, <3>3, OneCaller DEF GetFreeConnection
  <2> QED
    BY <1>4, <2>2, <2>3 DEF GetFreeConnection
<1>5. ASSUME NEW c \in Callers, FinishDirect(c)
      PROVE  PoolInv'
  <2>1. using[c] = {probe[c]}
    BY <1>5, <1>t DEF FinishDirect, CallerInv
  <2>2. LockInv' /\ using'[c] = {} /\ \A d \in Callers : d # c => using'[d] = using[d]
    BY <1>5, <2>1, UnlockStep DEF FinishDirect
  <2>3. CallerInv(c)'
    BY <1>5, <1>y, <2>2 DEF FinishDirect, CallerInv
  <2> QED
    BY <1>5, <1>t, <1>y, <2>2, <2>3, OneCaller DEF FinishDirect
<1>6. ASSUME NEW c \in Callers, Leave(c)
      PROVE  PoolInv'
  <2>1. CallerInv(c)'
    BY <1>6, <1>t, <1>y DEF Leave, CallerInv
  <2>2. LockInv'
    BY <1>6, <1>t DEF Leave, LockInv
  <2> QED
    BY <1>6, <1>t, <1>y, <2>1, <2>2, OneCaller DEF Leave
<1>7. CASE KeepAlive
  <2>1. CallerInv(WorldThread)'
    BY <1>7, <1>t, <1>y, <1>c DEF KeepAlive, CallerInv
  <2>2. LockInv'
    BY <1>7, <1>t DEF KeepAlive, LockInv
  <2> QED
    BY <1>7, <1>t, <1>y, <1>c, <2>1, <2>2, OneCaller DEF KeepAlive
<1>8. CASE Ping
  <2> DEFINE c == WorldThread
  <2>1. /\ probe[c] < Connections /\ using[c] = {} /\ callerPc[c] = "ping"
        /\ delayed[c] + Cardinality(Workers) <= MaxOps
    BY <1>8, <1>t, <1>c DEF Ping, CallerInv
  <2>2. CASE LockIfReady(c) /\ callerPc' = [callerPc EXCEPT ![c] = "pinged"] /\ UNCHANGED probe
    <3>1. LockInv' /\ using'[c] = {probe[c]} /\ \A d \in Callers : d # c => using'[d] = using[d]
      BY <1>c, <2>1, <2>2, LockIfReadyStep
    <3>2. CallerInv(c)'
      BY <1>8, <1>y, <1>c, <2>1, <2>2, <3>1 DEF Ping, CallerInv
    <3> QED
      BY <1>8, <1>t, <1>y, <1>c, <2>2, <3>1, <3>2, OneCaller DEF Ping
  <2>3. CASE probe' = [probe EXCEPT ![c] = @ + 1] /\ UNCHANGED <<callerPc, locked, using>>
    <3>1. CallerInv(c)'
      BY <1>8, <1>y, <1>c, <2>1, <2>3 DEF Ping, CallerInv
    <3>2. LockInv'
      BY <1>t, <2>3 DEF LockInv
    <3> QED
      BY <1>8, <1>t, <1>y, <1>c, <2>3, <3>1, <3>2, OneCaller DEF Ping
  <2> QED
    BY <1>8, <2>2, <2>3 DEF Ping
<1>9. CASE Pinged
  <2> DEFINE c == WorldThread
  <2>1. /\ using[c] = {probe[c]} /\ callerPc[c] = "pinged"
        /\ delayed[c] + Cardinality(Workers) <= MaxOps
    BY <1>9, <1>t, <1>c DEF Pinged, CallerInv
  <2>2. LockInv' /\ using'[c] = {} /\ \A d \in Callers : d # c => using'[d] = using[d]
    BY <1>9, <1>c, <2>1, UnlockStep DEF Pinged
  <2>3. CallerInv(c)'
    BY <1>9, <1>y, <1>c, <2>1, <2>2 DEF Pinged, CallerInv
  <2> QED
    BY <1>9, <1>t, <1>y, <1>c, <2>2, <2>3, OneCaller DEF Pinged
<1>10. CASE PingWorkers
  <2>1. CallerInv(WorldThread)'
    BY <1>10, <1>t, <1>y, <1>c, <1>f DEF PingWorkers, CallerInv
  <2>2. LockInv'
    BY <1>10, <1>t DEF PingWorkers, LockInv
  <2> QED
    BY <1>10, <1>t, <1>y, <1>c, <2>1, <2>2, OneCaller DEF PingWorkers
<1>11. ASSUME NEW w \in Workers, WorkerStep(w)
       PROVE  PoolInv'
  <2>1. UNCHANGED callerVars
    BY <1>11 DEF WorkerStep, TakeRequest, WaitForRequest, Call, WorkerExits
  <2> QED
    BY <1>t, <2>1, NoCaller
<1>12. CASE ClosePool \/ WorkersJoined \/ UNCHANGED vars
  <2>1. UNCHANGED callerVars
    BY <1>12 DEF ClosePool, WorkersJoined, vars
  <2> QED
    BY <1>t, <2>1, NoCaller
<1> QED
  BY <1>1, <1>2, <1>3, <1>4, <1>5, <1>6, <1>7, <1>8, <1>9, <1>10, <1>11, <1>12
     DEF Next, CallerStep, KeepAliveStep, Closed

\* The variables keep their types.
THEOREM PoolTypeCorrect == Spec => []TypeOK
<1>1. PoolInv => TypeOK
  BY DEF PoolInv
<1> QED
  BY <1>1, PoolInit, PoolStep, PTL DEF Spec

\* A synchronous connection is used by at most one thread at a time, its mutex
\* is taken exactly then, and a thread that is back from a call holds none.
THEOREM ConnectionsAreExclusive == Spec => []ConnectionsAccounted
<1>1. PoolInv => ConnectionsAccounted
  BY DEF PoolInv, LockInv, CallerInv, ConnectionsAccounted
<1> QED
  BY <1>1, PoolInit, PoolStep, PTL DEF Spec

-----------------------------------------------------------------------------
\* The operations of a caller are numbered as they are enqueued, so that none
\* is submitted twice and those still to come are in nobody's hands.
Numbered ==
    /\ Len(queue) <= Len(submitted)
    /\ \A i \in 1..Len(submitted) : submitted[i][2] <= delayed[submitted[i][1]]
    /\ \A i, j \in 1..Len(submitted) : i # j => submitted[i] # submitted[j]
    /\ \A o \in Op : o[2] > delayed[o[1]] =>
          executed[o] = 0 /\ \A w \in Workers : request[w] # o

\* DelayedInOrder, for one operation.
Placed(i) ==
    LET o == submitted[i] IN
    IF i <= Taken
    THEN \/ executed[o] = 1 /\ Holders(o) = {}
         \/ executed[o] = 0 /\ \E w \in Workers : Holders(o) = {w}
    ELSE executed[o] = 0 /\ Holders(o) = {} /\ queue[i - Taken] = o

WorkInv ==
    /\ \A w \in Workers : workerPc[w] = "execute" <=> request[w] # NoOp
    /\ activated => Numbered /\ \A i \in 1..Len(submitted) : Placed(i)

LEMMA WorkInit == Init => WorkInv
<1> SUFFICES ASSUME Init
             PROVE  WorkInv
  OBVIOUS
<1>1. \A w \in Workers : workerPc[w] = "execute" <=> request[w] # NoOp
  BY DEF Init
<1>2. Len(queue) = 0 /\ Len(submitted) = 0
  BY DEF Init, QueueInit
<1>3. \A o \in Op : executed[o] = 0 /\ \A w \in Workers : request[w] # o
  BY PoolAssumption DEF Init
<1> QED
  BY <1>1, <1>2, <1>3 DEF WorkInv, Numbered

\* Nothing that the order is about changes.
LEMMA WorkFrame ==
    ASSUME WorkInv, activated' => activated,
           UNCHANGED <<queue, delayed, submitted, executed, request>>,
           \A w \in Workers : workerPc'[w] = "execute" <=> workerPc[w] = "execute"
    PROVE  WorkInv'
<1>1. /\ queue' = queue /\ delayed' = delayed /\ submitted' = submitted /\ executed' = executed
      /\ request' = request /\ Taken' = Taken
  BY DEF Taken
<1>2. Numbered => Numbered'
  BY <1>1 DEF Numbered
<1>3. ASSUME NEW i, Placed(i)
      PROVE  Placed(i)'
  BY <1>1, <1>3 DEF Placed, Holders
<1> QED
  BY <1>1, <1>2, <1>3 DEF WorkInv

\* A new operation is submitted: it is the last one in the queue.
LEMMA WorkEnqueue ==
    ASSUME TypeOK, TypeOK', WorkInv, NEW c \in Callers, EnqueueRequest(c)
    PROVE  WorkInv'
<1>n. PICK n \in Nat : n = Len(submitted)
  BY DEF TypeOK
<1>o. PICK op : op = <<c, delayed[c] + 1>>
  OBVIOUS
<1>1. /\ queue \in Seq(Op) /\ submitted \in Seq(Op) /\ delayed \in [Callers -> 0..MaxOps]
      /\ delayed' \in [Callers -> 0..MaxOps]
      /\ executed \in [Op -> Nat]
  BY DEF TypeOK, QueueTypeOK
<1>2. /\ activated /\ queue' = Append(queue, op) /\ submitted' = Append(submitted, op)
      /\ delayed' = [delayed EXCEPT ![c] = delayed[c] + 1]
      /\ executed' = executed /\ request' = request /\ workerPc' = workerPc
  BY <1>o DEF EnqueueRequest, Enqueue, CanEnqueue, workerVars
<1>3. Numbered /\ \A i \in 1..n : Placed(i)
  BY <1>2, <1>n DEF WorkInv
<1>4. MaxOps \in Nat
  BY PoolAssumption
<1>5. delayed'[c] = delayed[c] + 1 /\ delayed[c] \in Nat /\ op \in Op
  <2>1. delayed'[c] = delayed[c] + 1 /\ delayed'[c] \in 0..MaxOps /\ delayed[c] \in 0..MaxOps
    BY <1>1, <1>2
  <2> QED
    BY <1>4, <1>o, <2>1 DEF Op
<1>6. /\ n \in Nat /\ Len(queue) \in Nat /\ Len(submitted') = n + 1
      /\ Len(queue') = Len(queue) + 1 /\ Taken' = Taken /\ Taken \in Nat /\ Taken <= n
      /\ \A i \in 1..n : submitted'[i] = submitted[i] /\ submitted[i] \in Op
      /\ submitted'[n + 1] = op
      /\ \A i \in 1..Len(queue) : queue'[i] = queue[i]
      /\ queue'[Len(queue) + 1] = op
  BY <1>n, <1>1, <1>2, <1>3, <1>5 DEF Numbered, Taken
<1>7. executed[op] = 0 /\ Holders(op) = {} /\ \A i \in 1..n : submitted[i] # op
  <2>1. op[1] = c /\ op[2] = delayed[c] + 1
    BY <1>o
  <2>2. op[2] > delayed[op[1]]
    BY <1>5, <2>1
  <2>3. executed[op] = 0 /\ \A w \in Workers : request[w] # op
    BY <1>3, <1>5, <2>2 DEF Numbered
  <2>4. \A i \in 1..n : submitted[i][2] <= delayed[submitted[i][1]]
    BY <1>n, <1>3 DEF Numbered
  <2>5. ~(op[2] <= delayed[op[1]])
    BY <1>5, <2>1
  <2> QED
    BY <2>3, <2>4, <2>5 DEF Holders
<1>8. Numbered'
  <2>1. Len(queue') <= Len(submitted')
    BY <1>n, <1>3, <1>6 DEF Numbered
  <2>2. \A o \in Op : o[1] \in Callers /\ delayed[o[1]] <= delayed'[o[1]] /\ o[2] \in Nat
                      /\ delayed[o[1]] \in Nat /\ delayed'[o[1]] \in Nat
    BY <1>1, <1>2, <1>4, <1>5 DEF Op
  <2>3. \A i \in 1..(n + 1) : submitted'[i][2] <= delayed'[submitted'[i][1]]
    <3>1. ASSUME NEW i \in 1..n
          PROVE  submitted'[i][2] <= delayed'[submitted'[i][1]]
      <4>1. submitted[i][2] <= delayed[submitted[i][1]] /\ submitted[i] \in Op
        BY <1>n, <1>3, <1>6 DEF Numbered
      <4> QED
        BY <1>6, <2>2, <4>1
    <3>2. op[2] <= delayed'[op[1]]
      BY <1>5, <1>o
    <3>3. submitted'[n + 1][2] <= delayed'[submitted'[n + 1][1]]
      BY <1>6, <3>2
    <3>4. \A i \in 1..(n + 1) : i \in 1..n \/ i = n + 1
      OBVIOUS
    <3> QED
      BY <3>1, <3>3, <3>4
  <2>4. \A i, j \in 1..(n + 1) : i # j => submitted'[i] # submitted'[j]
    BY <1>n, <1>3, <1>6, <1>7 DEF Numbered
  <2>5. \A o \in Op : o[2] > delayed'[o[1]] =>
           executed'[o] = 0 /\ \A w \in Workers : request'[w] # o
    BY <1>2, <1>3, <2>2 DEF Numbered
  <2> QED
    BY <1>6, <2>1, <2>3, <2>4, <2>5 DEF Numbered
<1>9. \A i \in 1..n : Placed(i)'
  <2> SUFFICES ASSUME NEW i \in 1..n PROVE Placed(i)'
    OBVIOUS
  <2>1. i > Taken => i - Taken \in 1..Len(queue)
    BY <1>n, <1>6 DEF Taken
  <2>2. /\ submitted'[i] = submitted[i] /\ executed' = executed /\ request' = request
        /\ Taken' = Taken /\ Taken \in Nat /\ Placed(i)
        /\ i > Taken => queue'[i - Taken] = queue[i - Taken]
    BY <1>2, <1>3, <1>6, <2>1
  <2> QED
    BY <2>2 DEF Placed, Holders
<1>10. Placed(n + 1)'
  <2>1. n + 1 - Taken = Len(queue) + 1 /\ ~(n + 1 <= Taken)
    BY <1>6 DEF Taken
  <2> QED
    BY <1>2, <1>6, <1>7, <2>1 DEF Placed, Holders
<1>11. \A i \in 1..Len(submitted') : Placed(i)'
  BY <1>6, <1>9, <1>10
<1> QED
  BY <1>2, <1>8, <1>11 DEF WorkInv

\* A worker takes the oldest operation that waits.
LEMMA WorkTake ==
    ASSUME TypeOK, WorkInv, NEW w \in Workers, TakeRequest(w)
    PROVE  WorkInv'
<1>n. PICK n \in Nat : n = Len(submitted)
  BY DEF TypeOK
<1>o. PICK op : op = Head(queue)
  OBVIOUS
<1>1. /\ queue \in Seq(Op) /\ submitted \in Seq(Op) /\ queue # << >> /\ activated
      /\ request \in [Workers -> Op \cup {NoOp}]
      /\ workerPc \in [Workers -> {"dequeue", "execute", "exit"}]
  BY DEF TypeOK, QueueTypeOK, TakeRequest, Dequeue
<1>2. /\ queue' = Tail(queue) /\ submitted' = submitted /\ executed' = executed
      /\ delayed' = delayed /\ request' = [request EXCEPT ![w] = op]
      /\ workerPc[w] = "dequeue" /\ workerPc' = [workerPc EXCEPT ![w] = "execute"]
  BY <1>o DEF TakeRequest, Dequeue, callerVars
<1>3. Numbered /\ \A i \in 1..n : Placed(i)
  BY <1>1, <1>n DEF WorkInv
<1>4. request[w] = NoOp /\ op \in Op /\ NoOp \notin Op /\ op # NoOp
  BY <1>o, <1>1, <1>2, PoolAssumption DEF WorkInv
<1>5. /\ n \in Nat /\ Len(queue) \in Nat /\ Len(queue) >= 1 /\ Len(queue') = Len(queue) - 1
      /\ Taken \in Nat /\ Taken' = Taken + 1 /\ Taken + 1 \in 1..n
      /\ \A i \in 1..n : submitted[i] \in Op
      /\ \A i \in 1..Len(queue') : queue'[i] = queue[i + 1]
  BY <1>n, <1>1, <1>2, <1>3 DEF Numbered, Taken
<1>6. submitted[Taken + 1] = op /\ executed[op] = 0 /\ Holders(op) = {}
  <2>1. Placed(Taken + 1)
    BY <1>3, <1>5
  <2>2. Taken \in Nat
    BY <1>5
  <2>3. /\ executed[submitted[Taken + 1]] = 0 /\ Holders(submitted[Taken + 1]) = {}
        /\ queue[1] = submitted[Taken + 1]
    BY <2>1, <2>2 DEF Placed
  <2>4. op = queue[1]
    BY <1>o, <1>1
  <2> QED
    BY <2>3, <2>4
<1>7. /\ Holders(op)' = {w}
      /\ \A o \in Op : o # op => Holders(o)' = Holders(o)
  BY <1>1, <1>2, <1>4, <1>6 DEF Holders
<1>8. \A i \in 1..n : i # Taken + 1 => submitted[i] # op
  BY <1>n, <1>3, <1>5, <1>6 DEF Numbered
<1>9. Numbered'
  <2>1. \A o \in Op : o[2] > delayed[o[1]] => o # op
    <3>1. op[2] <= delayed[op[1]]
      BY <1>n, <1>3, <1>5, <1>6 DEF Numbered
    <3>2. \A o \in Op : o[2] \in Nat /\ delayed[o[1]] \in Nat
      BY PoolAssumption DEF TypeOK, Op
    <3> QED
      BY <3>1, <3>2
  <2>2. \A o \in Op : o[2] > delayed[o[1]] => \A v \in Workers : request'[v] # o
    BY <1>1, <1>2, <1>3, <2>1 DEF Numbered
  <2> QED
    BY <1>2, <1>3, <1>5, <2>2 DEF Numbered
<1>10. \A i \in 1..n : Placed(i)'
  <2> SUFFICES ASSUME NEW i \in 1..n PROVE Placed(i)'
    OBVIOUS
  <2>1. CASE i = Taken + 1
    <3>1. submitted'[i] = op /\ executed'[op] = 0 /\ i <= Taken'
      BY <1>2, <1>5, <1>6, <2>1
    <3>2. Holders(op)' = {w}
      BY <1>7
    <3> QED
      BY <3>1, <3>2 DEF Placed, Holders
  <2>2. CASE i <= Taken
    <3>1. i <= Taken' /\ Holders(submitted[i])' = Holders(submitted[i])
      BY <1>2, <1>5, <1>7, <1>8, <2>2 DEF Holders
    <3> QED
      BY <1>2, <1>3, <2>2, <3>1 DEF Placed
  <2>3. CASE i > Taken + 1
    <3>1. /\ ~(i <= Taken') /\ ~(i <= Taken) /\ i - Taken' \in 1..Len(queue')
          /\ queue'[i - Taken'] = queue[i - Taken]
          /\ Holders(submitted[i])' = Holders(submitted[i])
      <4>1. ~(i <= Taken') /\ ~(i <= Taken) /\ i - Taken' \in 1..Len(queue')
        BY <1>n, <1>2, <1>5, <2>3 DEF Taken
      <4>2. i - Taken' + 1 = i - Taken
        BY <1>5
      <4>3. queue'[i - Taken'] = queue[i - Taken]
        BY <1>5, <4>1, <4>2
      <4>4. PICK o \in Op : o = submitted[i]
        BY <1>5
      <4>5. submitted'[i] = o /\ o # op
        BY <1>2, <1>5, <1>8, <2>3, <4>4
      <4>6. Holders(o)' = Holders(o)
        BY <1>7, <4>5
      <4>7. Holders(submitted[i])' = Holders(submitted[i])
        BY <4>4, <4>5, <4>6 DEF Holders
      <4> QED
        BY <4>1, <4>3, <4>7
    <3> QED
      BY <1>2, <1>3, <3>1 DEF Placed
  <2> QED
    BY <1>5, <2>1, <2>2, <2>3
<1>11. \A v \in Workers : workerPc'[v] = "execute" <=> request'[v] # NoOp
  BY <1>1, <1>2, <1>4 DEF WorkInv
<1> QED
  BY <1>n, <1>2, <1>9, <1>10, <1>11 DEF WorkInv

\* A worker has executed the operation it holds.
LEMMA WorkCall ==
    ASSUME TypeOK, WorkInv, NEW w \in Workers, Call(w)
    PROVE  WorkInv'
<1>n. PICK n \in Nat : n = Len(submitted)
  BY DEF TypeOK
<1>o. PICK op : op = request[w]
  OBVIOUS
<1>1. /\ submitted \in Seq(Op) /\ request \in [Workers -> Op \cup {NoOp}]
      /\ workerPc \in [Workers -> {"dequeue", "execute", "exit"}]
      /\ executed \in [Op -> Nat]
  BY DEF TypeOK
<1>2. /\ queue' = queue /\ activated' = activated /\ submitted' = submitted /\ delayed' = delayed
      /\ executed' = [executed EXCEPT ![op] = executed[op] + 1]
      /\ request' = [request EXCEPT ![w] = NoOp]
      /\ workerPc[w] = "execute" /\ workerPc' = [workerPc EXCEPT ![w] = "dequeue"]
  BY <1>o DEF Call, queueVars, callerVars
<1>3. op \in Op /\ NoOp \notin Op
  BY <1>o, <1>1, <1>2, PoolAssumption DEF WorkInv
<1>4. \A v \in Workers : workerPc'[v] = "execute" <=> request'[v] # NoOp
  BY <1>1, <1>2 DEF WorkInv
<1>5. ASSUME activated'
      PROVE  Numbered' /\ \A i \in 1..Len(submitted') : Placed(i)'
  <2>1. Numbered /\ \A i \in 1..n : Placed(i)
    BY <1>n, <1>2, <1>5 DEF WorkInv
  <2>2. /\ executed'[op] = executed[op] + 1
        /\ \A o \in Op : o # op => executed'[o] = executed[o] /\ Holders(o)' = Holders(o)
    BY <1>o, <1>1, <1>2, <1>3 DEF Holders
  <2>3. \A o \in Op : o[2] > delayed[o[1]] => o # op
    BY <1>o, <2>1 DEF Numbered
  <2>4. Numbered'
    <3>1. \A o \in Op : o[2] > delayed[o[1]] =>
             executed'[o] = 0 /\ \A v \in Workers : request'[v] # o
      BY <1>1, <1>2, <1>3, <2>1, <2>2, <2>3 DEF Numbered
    <3> QED
      BY <1>2, <2>1, <3>1 DEF Numbered
  <2>5. Taken' = Taken /\ \A i \in 1..n : submitted[i] \in Op
    BY <1>n, <1>1, <1>2 DEF Taken
  <2>6. ASSUME NEW i \in 1..n
        PROVE  Placed(i)'
    <3>1. CASE submitted[i] = op
      <4>1. w \in Holders(op)
        BY <1>o DEF Holders
      <4>2. i <= Taken /\ executed[op] = 0 /\ Holders(op) = {w}
        BY <2>1, <3>1, <4>1 DEF Placed
      <4>3. Holders(op)' = {}
        BY <1>1, <1>2, <1>3, <4>2 DEF Holders
      <4> QED
        BY <1>2, <2>2, <2>5, <3>1, <4>2, <4>3 DEF Placed
    <3>2. CASE submitted[i] # op
      BY <1>2, <2>1, <2>2, <2>5, <3>2 DEF Placed
    <3> QED
      BY <3>1, <3>2
  <2> QED
    BY <1>n, <1>2, <2>4, <2>6
<1> QED
  BY <1>4, <1>5 DEF WorkInv

LEMMA WorkStep == TypeOK /\ TypeOK' /\ WorkInv /\ [Next]_vars => WorkInv'
<1> SUFFICES ASSUME TypeOK, TypeOK', WorkInv, [Next]_vars
             PROVE  WorkInv'
  OBVIOUS
<1> USE DEF queueVars, callerVars, workerVars
<1>1. ASSUME NEW c \in Callers, EnqueueRequest(c)
      PROVE  WorkInv'
  BY <1>1, WorkEnqueue
<1>2. ASSUME NEW c \in Callers,
             Delay(c) \/ StartDirect(c) \/ GetFreeConnection(c) \/ FinishDirect(c) \/ Leave(c)
      PROVE  WorkInv'
  BY <1>2, WorkFrame DEF Delay, StartDirect, GetFreeConnection, FinishDirect, Leave
<1>3. CASE KeepAliveStep
  BY <1>3, WorkFrame DEF KeepAliveStep, KeepAlive, Ping, Pinged, PingWorkers
<1>4. ASSUME NEW w \in Workers, TakeRequest(w)
      PROVE  WorkInv'
  BY <1>4, WorkTake
<1>5. ASSUME NEW w \in Workers, Call(w)
      PROVE  WorkInv'
  BY <1>5, WorkCall
<1>6. ASSUME NEW w \in Workers, WaitForRequest(w)
      PROVE  WorkInv'
  BY <1>6, WorkFrame DEF WaitForRequest, DequeueSleep
<1>7. ASSUME NEW w \in Workers, WorkerExits(w)
      PROVE  WorkInv'
  <2>1. \A v \in Workers : workerPc'[v] = "execute" <=> workerPc[v] = "execute"
    BY <1>7 DEF WorkerExits, TypeOK
  <2> QED
    BY <1>7, <2>1, WorkFrame DEF WorkerExits, DequeueFails
<1>8. CASE ClosePool
  BY <1>8 DEF ClosePool, Close, WorkInv
<1>9. CASE WorkersJoined \/ UNCHANGED vars
  BY <1>9, WorkFrame DEF WorkersJoined, vars
<1> QED
  BY <1>1, <1>2, <1>3, <1>4, <1>5, <1>6, <1>7, <1>8, <1>9
     DEF Next, WorkerStep, CallerStep, Closed

LEMMA WorkInvariant == Spec => [](TypeOK /\ WorkInv)
<1>1. Init => PoolInv /\ WorkInv
  BY PoolInit, WorkInit
<1>2. PoolInv /\ WorkInv /\ [Next]_vars => (PoolInv /\ WorkInv)'
  BY PoolStep, WorkStep DEF PoolInv
<1>3. PoolInv /\ WorkInv => TypeOK /\ WorkInv
  BY DEF PoolInv
<1> QED
  BY <1>1, <1>2, <1>3, PTL DEF Spec

\* While the pool is open no delayed operation is lost, executed twice or taken
\* before an older one, however many threads enqueue and however many execute.
THEOREM DelayedKeepsOrder == Spec => []DelayedInOrder
<1>1. WorkInv => DelayedInOrder
  BY DEF WorkInv, Placed, DelayedInOrder
<1> QED
  BY <1>1, WorkInvariant, PTL

-----------------------------------------------------------------------------
\* What a pool with a single worker adds: the worker has the newest of the
\* operations taken in hand.
HoldsNewest(w) ==
    activated /\ request[w] # NoOp => Taken >= 1 /\ request[w] = submitted[Taken]

\* An operation takes effect after all the older ones.
EffectsInOrder ==
    activated =>
        \A i, j \in 1..Len(submitted) :
            i < j /\ executed[submitted[j]] = 1 => executed[submitted[i]] = 1

LEMMA NewestStep ==
    ASSUME TypeOK, WorkInv, NEW r \in Workers, Workers = {r}, HoldsNewest(r), [Next]_vars
    PROVE  HoldsNewest(r)'
<1> SUFFICES ASSUME activated', request'[r] # NoOp
             PROVE  (Taken >= 1 /\ request[r] = submitted[Taken])'
  BY DEF HoldsNewest
<1>1. /\ queue \in Seq(Op) /\ submitted \in Seq(Op)
      /\ request \in [Workers -> Op \cup {NoOp}]
  BY DEF TypeOK, QueueTypeOK
<1>2. activated => /\ Len(queue) <= Len(submitted) /\ Taken \in Nat
                   /\ \A i \in 1..Len(submitted) : Placed(i)
  BY <1>1 DEF WorkInv, Numbered, Taken
<1>3. ASSUME NEW c \in Callers, EnqueueRequest(c)
      PROVE  (Taken >= 1 /\ request[r] = submitted[Taken])'
  <2>1. PICK op : submitted' = Append(submitted, op) /\ queue' = Append(queue, op)
    BY <1>3 DEF EnqueueRequest, Enqueue
  <2>2. activated /\ request' = request
    BY <1>3 DEF EnqueueRequest, Enqueue, CanEnqueue, workerVars
  <2>3. Taken' = Taken /\ Taken \in Nat /\ Taken <= Len(submitted)
    BY <1>1, <1>2, <2>1, <2>2 DEF Taken
  <2>4. Taken >= 1 /\ request[r] = submitted[Taken]
    BY <2>2 DEF HoldsNewest
  <2>5. submitted'[Taken] = submitted[Taken]
    BY <1>1, <2>1, <2>3, <2>4
  <2> QED
    BY <2>2, <2>3, <2>4, <2>5
<1>4. ASSUME NEW w \in Workers, TakeRequest(w)
      PROVE  (Taken >= 1 /\ request[r] = submitted[Taken])'
  <2>1. /\ activated /\ queue # << >> /\ queue' = Tail(queue) /\ submitted' = submitted
        /\ request'[r] = Head(queue)
    BY <1>1, <1>4 DEF TakeRequest, Dequeue
  <2>2. Taken \in Nat /\ Taken' = Taken + 1 /\ Taken + 1 \in 1..Len(submitted)
    BY <1>1, <1>2, <2>1 DEF Taken
  <2>3. Placed(Taken + 1)
    BY <1>2, <2>1, <2>2
  <2>4. queue[1] = submitted[Taken + 1]
    BY <2>2, <2>3 DEF Placed
  <2> QED
    BY <1>1, <2>1, <2>2, <2>4
<1>5. ASSUME NEW w \in Workers, Call(w)
      PROVE  FALSE
  BY <1>1, <1>5 DEF Call
<1>6. ASSUME UNCHANGED <<queue, submitted, request>>, activated
      PROVE  (Taken >= 1 /\ request[r] = submitted[Taken])'
  BY <1>6 DEF HoldsNewest, Taken
<1> USE DEF queueVars, callerVars, workerVars
<1>7. ASSUME NEW c \in Callers,
             Delay(c) \/ StartDirect(c) \/ GetFreeConnection(c) \/ FinishDirect(c) \/ Leave(c)
      PROVE  UNCHANGED <<queue, submitted, request>> /\ activated
  BY <1>7 DEF Delay, StartDirect, GetFreeConnection, FinishDirect, Leave
<1>8. CASE KeepAliveStep
  <2>1. UNCHANGED <<queue, submitted, request>> /\ activated
    BY <1>8 DEF KeepAliveStep, KeepAlive, Ping, Pinged, PingWorkers
  <2> QED
    BY <1>6, <2>1
<1>9. ASSUME NEW w \in Workers, WaitForRequest(w) \/ WorkerExits(w)
      PROVE  UNCHANGED <<queue, submitted, request>> /\ activated
  BY <1>9 DEF WaitForRequest, DequeueSleep, WorkerExits, DequeueFails
<1>10. CASE ClosePool
  BY <1>10 DEF ClosePool, Close
<1>11. CASE WorkersJoined \/ UNCHANGED vars
  <2>1. UNCHANGED <<queue, submitted, request>> /\ activated
    BY <1>11 DEF WorkersJoined, vars
  <2> QED
    BY <1>6, <2>1
<1> QED
  BY <1>3, <1>4, <1>5, <1>6, <1>7, <1>8, <1>9, <1>10, <1>11
     DEF Next, WorkerStep, CallerStep, Closed

\* With one worker, the default of every database when the configuration file
\* says nothing, a caller that saves and then saves again has its operations
\* take effect in that order. With two this is not so.
THEOREM OneWorkerKeepsOrder ==
    ASSUME NEW r, Workers = {r}
    PROVE  Spec => []EffectsInOrder
<1>1. r \in Workers
  OBVIOUS
<1>2. Init => HoldsNewest(r)
  BY <1>1 DEF Init, HoldsNewest
<1>3. TypeOK /\ WorkInv /\ HoldsNewest(r) /\ [Next]_vars => HoldsNewest(r)'
  BY <1>1, NewestStep
<1>4. TypeOK /\ WorkInv /\ HoldsNewest(r) => EffectsInOrder
  <2> SUFFICES ASSUME TypeOK, WorkInv, HoldsNewest(r), activated,
                      NEW i \in 1..Len(submitted), NEW j \in 1..Len(submitted),
                      i < j, executed[submitted[j]] = 1, executed[submitted[i]] # 1
               PROVE  FALSE
    BY DEF EffectsInOrder
  <2>1. Placed(i) /\ Placed(j) /\ Numbered
    BY DEF WorkInv
  <2>2. Len(submitted) \in Nat /\ Len(queue) \in Nat /\ Taken \in Nat
        /\ Taken <= Len(submitted) /\ submitted[i] \in Op
    BY <2>1 DEF TypeOK, QueueTypeOK, Numbered, Taken
  <2>3. j <= Taken
    BY <2>1 DEF Placed
  <2>4. i < Taken
    BY <2>2, <2>3
  <2>5. \E w \in Workers : Holders(submitted[i]) = {w}
    BY <2>1, <2>2, <2>4 DEF Placed
  <2>6. request[r] = submitted[i] /\ submitted[i] # NoOp
    BY <2>2, <2>5, PoolAssumption DEF Holders
  <2>7. Taken >= 1 /\ submitted[Taken] = submitted[i]
    BY <2>6 DEF HoldsNewest
  <2> QED
    BY <2>1, <2>2, <2>4, <2>7 DEF Numbered
<1> QED
  BY <1>2, <1>3, <1>4, WorkInvariant, PTL DEF Spec
=============================================================================
