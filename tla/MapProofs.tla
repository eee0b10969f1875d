----------------------------- MODULE MapProofs -----------------------------
(***************************************************************************)
(* Theorems about maps: MapUpdater, for every number of map threads, maps  *)
(* and instances and every high-water mark, and InstanceIds, for any       *)
(* number of map threads, any chunk and word sizes of which one divides    *)
(* the other, and any stored ids. The two share no state and no lemma.     *)
(***************************************************************************)
EXTENDS MapUpdater, InstanceIds, FiniteSetTheorems, WellFoundedInduction, TLAPS

-----------------------------------------------------------------------------
(* The map updater.                                                        *)

\* Nothing is pending while the world thread is outside a map tick, and the
\* scheduling loop has work left only while it runs.
WorldInv ==
    /\ Quiet => pending = 0
    /\ worldPc # "scheduling" => toSchedule = {}

\* Where the loop of MapInstanced::Update stands: the instances it has yet to
\* visit are alive, belong to the map being updated, and were neither
\* scheduled nor updated in this tick.
VisitInv ==
    \A w \in Workers :
        /\ workerPc[w] # "instances" => toVisit[w] = {}
        /\ \A i \in toVisit[w] :
              /\ i \in loaded
              /\ ParentOf[i] = current[w]
              /\ i \notin InFlight \cup updated

\* A map is updated at most once in a tick, a base map after the scheduling
\* loop handed it out, an instance after the map above it.
OrderInv ==
    /\ toSchedule \cap (InFlight \cup updated) = {}
    /\ Queued \cap updated = {}
    /\ \A w \in Workers :
          /\ workerPc[w] = "updating" => current[w] \notin updated
          /\ workerPc[w] = "instances" => current[w] \in updated
    /\ Quiet \/ \A i \in (InFlight \cup updated) \cap Instances : ParentOf[i] \in updated

\* Nothing is forgotten in a tick: a base map is still to be scheduled, on its
\* way, done or skipped; an instance of an updated dungeon is still to be
\* visited, on its way, done or skipped.
CoverInv ==
    worldPc \in {"scheduling", "waiting", "asleep", "delayed"} =>
        /\ BaseMaps \subseteq toSchedule \cup InFlight \cup updated \cup skipped
        /\ \A i \in loaded :
              ParentOf[i] \in updated =>
                  \/ i \in InFlight \cup updated \cup skipped
                  \/ \E w \in Workers : i \in toVisit[w]

IInv ==
    /\ TypeOK
    /\ PendingIsExact
    /\ WorldInv
    /\ VisitInv
    /\ OrderInv
    /\ OneUpdatePerMap
    /\ NoDeletedMapInUse
    /\ CoverInv

-----------------------------------------------------------------------------
\* The initial state satisfies the inductive invariant.
LEMMA InitInv == Init => IInv
<1> SUFFICES ASSUME Init PROVE IInv
  OBVIOUS
<1>1. Busy = {}
  BY DEF Init, Busy
<1>2. TypeOK
  BY DEF Init, QueueInit, TypeOK, QueueTypeOK, Workers
<1>3. PendingIsExact
  BY <1>1, FS_EmptySet DEF Init, QueueInit, PendingIsExact
<1>4. InFlight = {} /\ Queued = {}
  BY <1>1 DEF Init, QueueInit, InFlight, Queued
<1> QED
  BY <1>1, <1>2, <1>3, <1>4
     DEF Init, QueueInit, IInv, WorldInv, VisitInv, OrderInv, OneUpdatePerMap,
         NoDeletedMapInUse, CoverInv

\* TypeOK is inductive on its own: every handler keeps the queue, the
\* counters and the thread states in their types.
LEMMA TypeStep == TypeOK /\ [Next]_vars => TypeOK'
<1> SUFFICES ASSUME TypeOK, [Next]_vars
             PROVE  TypeOK'
  OBVIOUS
<1> USE DEF TypeOK, QueueTypeOK, Workers, BaseMaps, Maps,
            queueVars, worldVars, workerVars, tickVars
<1>q. ASSUME NEW m \in Maps, ScheduleUpdate(m)
      PROVE  /\ queue' \in Seq(Maps) /\ activated' \in BOOLEAN
             /\ sleepers' \in SUBSET Readers
             /\ pending' \in Nat /\ skipped' \in SUBSET Maps
  BY <1>q DEF ScheduleUpdate, Enqueue, SignalDequeueWaiters
<1>1. CASE \E i \in Instances : CreateInstance(i)
  BY <1>1 DEF CreateInstance
<1>2. CASE BeginUpdate
  BY <1>2 DEF BeginUpdate
<1>3. ASSUME NEW m \in BaseMaps, ScheduleBaseMap(m)
      PROVE  TypeOK'
  BY <1>3, <1>q DEF ScheduleBaseMap
<1>4. CASE AllScheduled \/ Wait \/ DelayedUpdate \/ UnloadAll \/ JoinWorkers
  BY <1>4 DEF AllScheduled, Wait, DelayedUpdate, UnloadAll, JoinWorkers
<1>5. CASE DeactivateUpdater
  BY <1>5 DEF DeactivateUpdater, Deactivate
<1>6. ASSUME NEW w \in Workers, TakeRequest(w)
      PROVE  TypeOK'
  BY <1>6 DEF TakeRequest, Dequeue
<1>7. ASSUME NEW w \in Workers, AwaitRequest(w) \/ LeaveService(w)
      PROVE  TypeOK'
  BY <1>7 DEF AwaitRequest, DequeueSleep, LeaveService, DequeueFails
<1>8. ASSUME NEW w \in Workers, UpdateMap(w)
      PROVE  TypeOK'
  <2>1. \A i : i \in {j \in loaded : ParentOf[j] = current[w]} => i \in Instances
    OBVIOUS
  <2> QED
    BY <1>8, <2>1 DEF UpdateMap
<1>9. ASSUME NEW w \in Workers, NEW i \in Instances, VisitInstance(w, i)
      PROVE  TypeOK'
  BY <1>9, <1>q DEF VisitInstance
<1>10. ASSUME NEW w \in Workers, NEW i \in Instances, UnloadInstance(w, i)
       PROVE  TypeOK'
  BY <1>10 DEF UnloadInstance
<1>11. ASSUME NEW w \in Workers, UpdateFinished(w)
       PROVE  TypeOK'
  BY <1>11 DEF UpdateFinished
<1>12. CASE UNCHANGED vars
  BY <1>12 DEF vars
<1> QED
  BY <1>1, <1>2, <1>3, <1>4, <1>5, <1>6, <1>7, <1>8, <1>9, <1>10, <1>11, <1>12
     DEF Next, WorldNext, WorkerNext, Stopped
-----------------------------------------------------------------------------
\* What one successful schedule_update does to the queue and the count.
LEMMA EnqueueEffect ==
    ASSUME TypeOK, NEW m \in Maps, Enqueue(m)
    PROVE  /\ Queued' = Queued \cup {m}
           /\ Len(queue') = Len(queue) + 1
           /\ \A k \in DOMAIN queue' : IF k = Len(queue) + 1 THEN queue'[k] = m
                                        ELSE k \in DOMAIN queue /\ queue'[k] = queue[k]
<1> USE DEF TypeOK, QueueTypeOK
<1>1. queue' = Append(queue, m) /\ queue \in Seq(Maps)
  BY DEF Enqueue
<1>2. /\ Len(queue') = Len(queue) + 1
      /\ DOMAIN queue = 1..Len(queue)
      /\ DOMAIN queue' = 1..(Len(queue) + 1)
      /\ Len(queue) \in Nat
      /\ queue'[Len(queue) + 1] = m
      /\ \A k \in 1..Len(queue) : queue'[k] = queue[k]
  BY <1>1
<1> QED
  BY <1>2 DEF Queued

\* What taking the oldest request does to the queue.
LEMMA DequeueEffect ==
    ASSUME TypeOK, OneUpdatePerMap, NEW w \in Workers, Dequeue(w)
    PROVE  /\ Head(queue) \in Queued
           /\ Queued' = Queued \ {Head(queue)}
           /\ Len(queue) = Len(queue') + 1
           /\ \A j, k \in DOMAIN queue' : queue'[j] = queue'[k] => j = k
<1> USE DEF TypeOK, QueueTypeOK
<1>1. queue' = Tail(queue) /\ queue \in Seq(Maps) /\ queue # << >>
  BY DEF Dequeue
<1>2. /\ Len(queue) \in Nat \ {0}
      /\ Len(queue') = Len(queue) - 1
      /\ DOMAIN queue = 1..Len(queue)
      /\ DOMAIN queue' = 1..(Len(queue) - 1)
      /\ Head(queue) = queue[1]
      /\ \A k \in 1..(Len(queue) - 1) : queue'[k] = queue[k + 1]
  BY <1>1
<1>3. \A j, k \in 1..Len(queue) : queue[j] = queue[k] => j = k
  BY <1>2 DEF OneUpdatePerMap
<1>4. ASSUME NEW x \in Queued, x # Head(queue)
      PROVE  x \in Queued'
  <2>1. PICK k \in 1..Len(queue) : x = queue[k]
    BY <1>2 DEF Queued
  <2>2. k - 1 \in 1..(Len(queue) - 1) /\ queue'[k - 1] = x
    BY <1>2, <1>4, <2>1
  <2> QED
    BY <1>2, <2>2 DEF Queued
<1>5. ASSUME NEW x \in Queued'
      PROVE  x \in Queued \ {Head(queue)}
  <2>1. PICK k \in 1..(Len(queue) - 1) : x = queue'[k]
    BY <1>2 DEF Queued
  <2>2. k + 1 \in 1..Len(queue) /\ x = queue[k + 1] /\ 1 \in 1..Len(queue) /\ k + 1 # 1
    BY <1>2, <2>1
  <2>3. x # queue[1]
    BY <1>3, <2>2
  <2>4. x \in Queued
    BY <1>2, <2>2 DEF Queued
  <2> QED
    BY <1>2, <2>3, <2>4
<1>6. Head(queue) \in Queued
  BY <1>2 DEF Queued
<1>7. \A j, k \in DOMAIN queue' : queue'[j] = queue'[k] => j = k
  <2> SUFFICES ASSUME NEW j \in 1..(Len(queue) - 1), NEW k \in 1..(Len(queue) - 1),
                      queue'[j] = queue'[k]
               PROVE  j = k
    BY <1>2
  <2>1. queue[j + 1] = queue[k + 1] /\ j + 1 \in 1..Len(queue) /\ k + 1 \in 1..Len(queue)
    BY <1>2
  <2>2. j + 1 = k + 1
    BY <1>3, <2>1
  <2> QED
    BY <1>2, <2>2
<1> QED
  BY <1>2, <1>4, <1>5, <1>6, <1>7

\* The number of busy threads when one more thread becomes busy, and when a
\* busy thread is done.
LEMMA BusyCount ==
    ASSUME TypeOK
    PROVE  /\ IsFiniteSet(Busy) /\ Cardinality(Busy) \in Nat
           /\ \A w \in Workers \ Busy :
                 Cardinality(Busy \cup {w}) = Cardinality(Busy) + 1
           /\ \A w \in Busy : Cardinality(Busy \ {w}) = Cardinality(Busy) - 1
           /\ Cardinality(Busy) = 0 <=> Busy = {}
<1>1. IsFiniteSet(Busy)
  BY MapAssumption, FS_Subset DEF Busy
<1> QED
  BY <1>1, FS_CardinalityType, FS_AddElement, FS_RemoveElement, FS_EmptySet DEF Busy
\* Scheduling a map that is not in flight either puts it in flight or leaves it
\* out of the tick; the count stays exact and no map is in flight twice.
LEMMA ScheduleEffect ==
    ASSUME TypeOK, TypeOK', OneUpdatePerMap, PendingIsExact,
           NEW m \in Maps, m \notin InFlight, ScheduleUpdate(m),
           UNCHANGED <<workerPc, current>>
    PROVE  /\ Busy' = Busy
           /\ OneUpdatePerMap'
           /\ PendingIsExact'
           /\ \/ /\ Queued' = Queued \cup {m} /\ InFlight' = InFlight \cup {m}
                 /\ skipped' = skipped
              \/ /\ Queued' = Queued /\ InFlight' = InFlight
                 /\ skipped' = skipped \cup {m}
<1>1. Busy' = Busy
  BY DEF Busy
<1>2. Cardinality(Busy) \in Nat /\ Len(queue) \in Nat
  BY BusyCount DEF TypeOK, QueueTypeOK
<1>3. m \notin Queued /\ \A w \in Busy : current[w] # m
  BY DEF InFlight
<1>4. CASE Enqueue(m) /\ pending' = pending + 1 /\ UNCHANGED skipped
  <2>1. /\ Queued' = Queued \cup {m}
        /\ Len(queue') = Len(queue) + 1
        /\ \A k \in DOMAIN queue' : IF k = Len(queue) + 1 THEN queue'[k] = m
                                     ELSE k \in DOMAIN queue /\ queue'[k] = queue[k]
    BY <1>4, EnqueueEffect
  <2>2. \A k \in DOMAIN queue : queue[k] # m
    BY <1>3 DEF Queued
  <2>3. OneUpdatePerMap'
    BY <1>1, <1>3, <2>1, <2>2 DEF OneUpdatePerMap
  <2>4. PendingIsExact'
    BY <1>1, <1>2, <1>4, <2>1 DEF PendingIsExact
  <2>5. InFlight' = InFlight \cup {m}
    BY <1>1, <2>1 DEF InFlight
  <2> QED
    BY <1>1, <1>4, <2>1, <2>3, <2>4, <2>5
<1>5. CASE skipped' = skipped \cup {m} /\ UNCHANGED <<queueVars, pending>>
  BY <1>1, <1>5 DEF queueVars, Queued, InFlight, OneUpdatePerMap, PendingIsExact
<1> QED
  BY <1>4, <1>5 DEF ScheduleUpdate
-----------------------------------------------------------------------------
\* Every step of the world thread and of a map thread keeps the invariant.
LEMMA InvStep == IInv /\ [Next]_vars => IInv'
<1> SUFFICES ASSUME IInv, [Next]_vars
             PROVE  IInv'
  OBVIOUS
<1>t. TypeOK /\ TypeOK'
  BY TypeStep DEF IInv
<1>c. /\ IsFiniteSet(Busy) /\ Cardinality(Busy) \in Nat /\ Len(queue) \in Nat
      /\ pending \in Nat
      /\ pending = Len(queue) + Cardinality(Busy)
      /\ pending = 0 => InFlight = {} /\ Busy = {} /\ queue = << >> /\ Queued = {}
  <2>1. IsFiniteSet(Busy) /\ Cardinality(Busy) \in Nat /\ (Cardinality(Busy) = 0 <=> Busy = {})
    BY <1>t, BusyCount
  <2>2. Len(queue) \in Nat /\ (Len(queue) = 0 => queue = << >>) /\ pending \in Nat
    BY <1>t DEF TypeOK, QueueTypeOK
  <2>3. queue = << >> => Queued = {}
    BY DEF Queued
  <2> QED
    BY <2>1, <2>2, <2>3 DEF IInv, PendingIsExact, InFlight
<1>same. ASSUME UNCHANGED <<queue, workerPc, current>>
         PROVE  /\ Queued' = Queued /\ Busy' = Busy /\ InFlight' = InFlight
                /\ OneUpdatePerMap'
  BY <1>same DEF Queued, Busy, InFlight, OneUpdatePerMap, IInv
<1>1. ASSUME NEW i \in Instances, CreateInstance(i)
      PROVE  IInv'
  <2>1. UNCHANGED <<queue, workerPc, current, toVisit, pending, worldPc, toSchedule, updated, skipped>>
        /\ loaded' = loaded \cup {i} /\ worldPc = "idle"
    BY <1>1 DEF CreateInstance, queueVars, worldVars, workerVars, tickVars
  <2> QED
    BY <1>t, <1>same, <2>1
       DEF IInv, PendingIsExact, WorldInv, VisitInv, OrderInv, NoDeletedMapInUse, CoverInv, Quiet
<1>2. ASSUME BeginUpdate
      PROVE  IInv'
  <2>1. /\ UNCHANGED <<queue, workerPc, current, toVisit, pending, loaded>>
        /\ worldPc = "idle" /\ worldPc' = "scheduling" /\ toSchedule' = BaseMaps
        /\ updated' = {} /\ skipped' = {}
    BY <1>2 DEF BeginUpdate, queueVars, workerVars
  <2>2. InFlight = {} /\ Busy = {} /\ Queued = {}
    BY <1>c, <2>1 DEF IInv, WorldInv, Quiet
  <2>3. \A w \in Workers : workerPc[w] # "updating" /\ workerPc[w] # "instances"
    BY <2>2 DEF Busy
  <2> QED
    BY <1>t, <1>same, <2>1, <2>2, <2>3
       DEF IInv, PendingIsExact, WorldInv, VisitInv, OrderInv, NoDeletedMapInUse, CoverInv, Quiet
<1>4. ASSUME AllScheduled
      PROVE  IInv'
  <2>1. /\ UNCHANGED <<queue, workerPc, current, toVisit, pending, loaded, toSchedule, updated, skipped>>
        /\ worldPc = "scheduling" /\ worldPc' = "waiting" /\ toSchedule = {}
    BY <1>4 DEF AllScheduled, queueVars, workerVars, tickVars
  <2> QED
    BY <1>t, <1>same, <2>1
       DEF IInv, PendingIsExact, WorldInv, VisitInv, OrderInv, NoDeletedMapInUse, CoverInv, Quiet
<1>5. ASSUME Wait
      PROVE  IInv'
  <2>1. /\ UNCHANGED <<queue, workerPc, current, toVisit, pending, loaded, toSchedule, updated, skipped>>
        /\ worldPc = "waiting" /\ worldPc' \in {"asleep", "delayed"}
        /\ worldPc' = "delayed" => pending = 0
    BY <1>5, <1>c DEF Wait, queueVars, workerVars, tickVars
  <2> QED
    BY <1>t, <1>same, <2>1
       DEF IInv, PendingIsExact, WorldInv, VisitInv, OrderInv, NoDeletedMapInUse, CoverInv, Quiet
<1>6. ASSUME DelayedUpdate \/ JoinWorkers \/ DeactivateUpdater
      PROVE  IInv'
  <2>1. /\ UNCHANGED <<queue, workerPc, current, toVisit, pending, loaded, toSchedule, updated, skipped>>
        /\ Quiet /\ worldPc' \in {"idle", "joining", "stopped"} /\ worldPc # "scheduling"
    BY <1>6 DEF DelayedUpdate, JoinWorkers, DeactivateUpdater, Deactivate, Quiet,
                queueVars, workerVars, tickVars
  <2> QED
    BY <1>t, <1>same, <2>1
       DEF IInv, PendingIsExact, WorldInv, VisitInv, OrderInv, NoDeletedMapInUse, CoverInv, Quiet
<1>7. ASSUME UnloadAll
      PROVE  IInv'
  <2>1. /\ UNCHANGED <<queue, workerPc, current, toVisit, pending, toSchedule, updated, skipped>>
        /\ worldPc = "idle" /\ worldPc' = "unloaded" /\ loaded' = {}
    BY <1>7 DEF UnloadAll, queueVars, workerVars, tickVars
  <2>2. InFlight = {} /\ Busy = {}
    BY <1>c, <2>1 DEF IInv, WorldInv, Quiet
  <2>3. \A w \in Workers : toVisit[w] = {}
    BY <2>2 DEF IInv, VisitInv, Busy
  <2> QED
    BY <1>t, <1>same, <2>1, <2>2, <2>3
       DEF IInv, PendingIsExact, WorldInv, VisitInv, OrderInv, NoDeletedMapInUse, CoverInv, Quiet
<1>8. ASSUME NEW w \in Workers, AwaitRequest(w) \/ LeaveService(w)
      PROVE  IInv'
  <2>1. /\ UNCHANGED <<queue, current, toVisit, pending, loaded, worldPc, toSchedule, updated, skipped>>
        /\ \A v \in Workers :
              \/ workerPc'[v] = workerPc[v]
              \/ v = w /\ workerPc[v] = "dequeue" /\ workerPc'[v] = "exit"
    BY <1>8, <1>t DEF TypeOK, AwaitRequest, DequeueSleep, LeaveService, DequeueFails,
                      queueVars, worldVars, workerVars, tickVars
  <2>2. Busy' = Busy /\ Queued' = Queued
    BY <2>1 DEF Busy, Queued
  <2>3. InFlight' = InFlight /\ OneUpdatePerMap'
    BY <2>1, <2>2 DEF InFlight, OneUpdatePerMap, IInv
  <2> QED
    BY <1>t, <2>1, <2>2, <2>3
       DEF IInv, PendingIsExact, WorldInv, VisitInv, OrderInv, NoDeletedMapInUse, CoverInv, Quiet
<1>9. CASE UNCHANGED vars
  <2>1. UNCHANGED <<queue, workerPc, current, toVisit, pending, loaded, worldPc, toSchedule, updated, skipped>>
    BY <1>9 DEF vars, queueVars, worldVars, workerVars, tickVars
  <2> QED
    BY <1>t, <1>same, <2>1
       DEF IInv, PendingIsExact, WorldInv, VisitInv, OrderInv, NoDeletedMapInUse, CoverInv, Quiet
<1>10. ASSUME NEW m \in BaseMaps, ScheduleBaseMap(m)
       PROVE  IInv'
  <2>1. /\ UNCHANGED <<workerPc, current, toVisit, loaded, worldPc, updated>>
        /\ worldPc = "scheduling" /\ m \in toSchedule /\ toSchedule' = toSchedule \ {m}
        /\ ScheduleUpdate(m)
    BY <1>10 DEF ScheduleBaseMap, workerVars
  <2>2. m \in Maps /\ m \notin Instances /\ m \notin InFlight \cup updated
    BY <2>1, MapAssumption DEF IInv, OrderInv, Maps
  <2>3. /\ Busy' = Busy /\ OneUpdatePerMap' /\ PendingIsExact'
        /\ \/ /\ Queued' = Queued \cup {m} /\ InFlight' = InFlight \cup {m}
              /\ skipped' = skipped
           \/ /\ Queued' = Queued /\ InFlight' = InFlight
              /\ skipped' = skipped \cup {m}
    BY <1>t, <2>1, <2>2, ScheduleEffect DEF IInv
  <2>4. WorldInv' /\ NoDeletedMapInUse'
    BY <2>1, <2>2, <2>3 DEF IInv, WorldInv, NoDeletedMapInUse, Quiet
  <2>5. VisitInv'
    BY <1>t, <2>1, <2>2, <2>3 DEF IInv, VisitInv, TypeOK
  <2>6. OrderInv'
    BY <2>1, <2>2, <2>3 DEF IInv, OrderInv, Quiet
  <2>7. CoverInv'
    BY <2>1, <2>2, <2>3 DEF IInv, CoverInv
  <2> QED
    BY <1>t, <2>3, <2>4, <2>5, <2>6, <2>7 DEF IInv
<1>11. ASSUME NEW w \in Workers, TakeRequest(w)
       PROVE  IInv'
  <2> DEFINE h == Head(queue)
  <2>1. /\ UNCHANGED <<toVisit, loaded, worldPc, toSchedule, pending, updated, skipped>>
        /\ workerPc[w] = "dequeue" /\ Dequeue(w)
        /\ workerPc' = [workerPc EXCEPT ![w] = "updating"]
        /\ current' = [current EXCEPT ![w] = h]
    BY <1>11 DEF TakeRequest, worldVars, tickVars
  <2>2. /\ workerPc'[w] = "updating" /\ current'[w] = h
        /\ \A v \in Workers \ {w} : workerPc'[v] = workerPc[v] /\ current'[v] = current[v]
    BY <1>t, <2>1 DEF TypeOK
  <2>3. /\ h \in Queued /\ Queued' = Queued \ {h} /\ Len(queue) = Len(queue') + 1
        /\ \A j, k \in DOMAIN queue' : queue'[j] = queue'[k] => j = k
    BY <1>t, <2>1, DequeueEffect DEF IInv
  <2>4. w \notin Busy /\ Busy' = Busy \cup {w}
    BY <2>1, <2>2 DEF Busy
  <2>5. InFlight' = InFlight /\ h \in InFlight
    <3>1. \A v \in Busy : v # w /\ current'[v] = current[v]
      BY <2>2, <2>4 DEF Busy
    <3> QED
      BY <2>2, <2>3, <2>4, <3>1 DEF InFlight
  <2>6. PendingIsExact'
    <3>1. Cardinality(Busy') = Cardinality(Busy) + 1
      BY <1>t, <2>4, BusyCount
    <3>2. Len(queue') \in Nat
      BY <1>t DEF TypeOK, QueueTypeOK
    <3> QED
      BY <1>c, <2>1, <2>3, <3>1, <3>2 DEF PendingIsExact
  <2>7. OneUpdatePerMap'
    BY <2>2, <2>3, <2>4 DEF IInv, OneUpdatePerMap, Busy
  <2>8. WorldInv' /\ NoDeletedMapInUse'
    BY <2>1, <2>5 DEF IInv, WorldInv, NoDeletedMapInUse, Quiet
  <2>9. VisitInv'
    <3>1. toVisit'[w] = {}
      BY <2>1 DEF IInv, VisitInv
    <3> QED
      BY <2>1, <2>2, <2>5, <3>1 DEF IInv, VisitInv
  <2>10. OrderInv'
    BY <2>1, <2>2, <2>3, <2>5 DEF IInv, OrderInv, Quiet
  <2>11. CoverInv'
    BY <2>1, <2>5 DEF IInv, CoverInv
  <2> QED
    BY <1>t, <2>6, <2>7, <2>8, <2>9, <2>10, <2>11 DEF IInv
<1>12. ASSUME NEW w \in Workers, UpdateMap(w)
       PROVE  IInv'
  <2> DEFINE m == current[w]
             below == {i \in loaded : ParentOf[i] = m}
  <2>1. /\ UNCHANGED <<queue, loaded, worldPc, toSchedule, pending, current, skipped>>
        /\ workerPc[w] = "updating"
        /\ workerPc' = [workerPc EXCEPT ![w] = "instances"]
        /\ toVisit' = [toVisit EXCEPT ![w] = below]
        /\ updated' = updated \cup {m}
    BY <1>12 DEF UpdateMap, queueVars, worldVars
  <2>2. /\ workerPc'[w] = "instances" /\ toVisit'[w] = below
        /\ \A v \in Workers \ {w} : workerPc'[v] = workerPc[v] /\ toVisit'[v] = toVisit[v]
    BY <1>t, <2>1 DEF TypeOK
  <2>3. Busy' = Busy /\ Queued' = Queued /\ w \in Busy
    BY <2>1, <2>2 DEF Busy, Queued
  <2>4. InFlight' = InFlight /\ OneUpdatePerMap' /\ m \in InFlight
    BY <2>1, <2>3 DEF InFlight, OneUpdatePerMap, IInv
  <2>5. Busy # {} /\ ~Quiet
    BY <1>c, <2>3 DEF IInv, WorldInv
  <2>6. m \notin updated /\ m \notin Queued /\ toVisit[w] = {}
    BY <2>1, <2>3 DEF IInv, OrderInv, OneUpdatePerMap, VisitInv
  <2>7. \A v \in Workers \ {w} : workerPc[v] = "updating" => current[v] # m
    BY <2>3 DEF IInv, OneUpdatePerMap, Busy
  <2>8. PendingIsExact' /\ WorldInv' /\ NoDeletedMapInUse'
    BY <2>1, <2>3, <2>4 DEF IInv, PendingIsExact, WorldInv, NoDeletedMapInUse, Quiet
  <2>9. VisitInv'
    <3>1. ASSUME NEW i \in below
          PROVE  i \notin InFlight \cup updated /\ i # m
      <4>1. i \in Instances /\ ParentOf[i] = m /\ m \notin Instances
        BY <1>t, MapAssumption DEF TypeOK, BaseMaps
      <4> QED
        BY <2>5, <2>6, <4>1 DEF IInv, OrderInv
    <3>2. ASSUME NEW v \in Workers \ {w}, NEW i \in toVisit[v]
          PROVE  i \notin updated'
      BY <2>1, <2>4, <3>2 DEF IInv, VisitInv
    <3> QED
      BY <2>1, <2>2, <2>4, <3>1, <3>2 DEF IInv, VisitInv
  <2>10. OrderInv'
    BY <2>1, <2>2, <2>4, <2>3, <2>5, <2>6, <2>7 DEF IInv, OrderInv, Quiet
  <2>11. CoverInv'
    <3>1. ASSUME NEW i, NEW v \in Workers, i \in toVisit[v]
          PROVE  i \in toVisit'[v]
      BY <2>2, <2>6, <3>1
    <3>2. \A i \in loaded : ParentOf[i] = m => i \in toVisit'[w]
      BY <2>2
    <3> QED
      BY <2>1, <2>4, <3>1, <3>2 DEF IInv, CoverInv
  <2> QED
    BY <1>t, <2>4, <2>8, <2>9, <2>10, <2>11 DEF IInv
<1>13. ASSUME NEW w \in Workers, NEW i \in Instances, VisitInstance(w, i)
       PROVE  IInv'
  <2>1. /\ UNCHANGED <<loaded, worldPc, toSchedule, workerPc, current, updated>>
        /\ workerPc[w] = "instances" /\ i \in toVisit[w]
        /\ toVisit' = [toVisit EXCEPT ![w] = @ \ {i}]
        /\ ScheduleUpdate(i)
    BY <1>13 DEF VisitInstance, worldVars
  <2>2. /\ toVisit'[w] = toVisit[w] \ {i}
        /\ \A v \in Workers \ {w} : toVisit'[v] = toVisit[v]
    BY <1>t, <2>1 DEF TypeOK
  <2>3. /\ i \in loaded /\ ParentOf[i] = current[w] /\ i \notin InFlight \cup updated
        /\ i \in Maps /\ i \notin BaseMaps
    BY <2>1, MapAssumption DEF IInv, VisitInv, Maps
  <2>4. /\ Busy' = Busy /\ OneUpdatePerMap' /\ PendingIsExact'
        /\ \/ /\ Queued' = Queued \cup {i} /\ InFlight' = InFlight \cup {i}
              /\ skipped' = skipped
           \/ /\ Queued' = Queued /\ InFlight' = InFlight
              /\ skipped' = skipped \cup {i}
    BY <1>t, <2>1, <2>3, ScheduleEffect DEF IInv
  <2>5. w \in Busy /\ ~Quiet
    BY <1>c, <2>1 DEF IInv, WorldInv, Busy
  <2>6. \A v \in Workers \ {w} : i \notin toVisit[v]
    <3> SUFFICES ASSUME NEW v \in Workers \ {w}, i \in toVisit[v]
                 PROVE  FALSE
      OBVIOUS
    <3>1. workerPc[v] = "instances" /\ ParentOf[i] = current[v]
      BY DEF IInv, VisitInv
    <3> QED
      BY <2>3, <2>5, <3>1 DEF IInv, OneUpdatePerMap, Busy
  <2>7. current[w] \in updated /\ i \notin toSchedule
    BY <1>t, <2>1, <2>3 DEF IInv, OrderInv, TypeOK
  <2>8. WorldInv' /\ NoDeletedMapInUse'
    BY <2>1, <2>3, <2>4, <2>5 DEF IInv, WorldInv, NoDeletedMapInUse, Quiet
  <2>9. VisitInv'
    BY <2>1, <2>2, <2>4, <2>6 DEF IInv, VisitInv
  <2>10. OrderInv'
    BY <2>1, <2>3, <2>4, <2>7 DEF IInv, OrderInv, Quiet
  <2>11. CoverInv'
    <3>1. \A j : j # i => \A v \in Workers : j \in toVisit[v] => j \in toVisit'[v]
      BY <2>2
    <3>2. i \in InFlight' \cup skipped' /\ InFlight \subseteq InFlight' /\ skipped \subseteq skipped'
      BY <2>4
    <3> QED
      BY <2>1, <3>1, <3>2 DEF IInv, CoverInv
  <2> QED
    BY <1>t, <2>4, <2>8, <2>9, <2>10, <2>11 DEF IInv
<1>14. ASSUME NEW w \in Workers, NEW i \in Instances, UnloadInstance(w, i)
       PROVE  IInv'
  <2>1. /\ UNCHANGED <<queue, worldPc, toSchedule, pending, workerPc, current, updated>>
        /\ workerPc[w] = "instances" /\ i \in toVisit[w]
        /\ toVisit' = [toVisit EXCEPT ![w] = @ \ {i}]
        /\ \/ loaded' = loaded \ {i} /\ skipped' = skipped
           \/ loaded' = loaded /\ skipped' = skipped \cup {i}
    BY <1>14 DEF UnloadInstance, queueVars, worldVars
  <2>2. /\ toVisit'[w] = toVisit[w] \ {i}
        /\ \A v \in Workers \ {w} : toVisit'[v] = toVisit[v]
    BY <1>t, <2>1 DEF TypeOK
  <2>3. ParentOf[i] = current[w] /\ i \notin InFlight
    BY <2>1 DEF IInv, VisitInv
  <2>4. \A v \in Workers \ {w} : i \notin toVisit[v]
    <3> SUFFICES ASSUME NEW v \in Workers \ {w}, i \in toVisit[v]
                 PROVE  FALSE
      OBVIOUS
    <3>1. workerPc[v] = "instances" /\ ParentOf[i] = current[v]
      BY DEF IInv, VisitInv
    <3> QED
      BY <2>1, <2>3, <3>1 DEF IInv, OneUpdatePerMap, Busy
  <2>5. /\ Queued' = Queued /\ Busy' = Busy /\ InFlight' = InFlight
        /\ OneUpdatePerMap'
    BY <1>same, <2>1
  <2>6. PendingIsExact' /\ WorldInv' /\ NoDeletedMapInUse' /\ OrderInv'
    BY <2>1, <2>3, <2>5 DEF IInv, PendingIsExact, WorldInv, NoDeletedMapInUse, OrderInv, Quiet
  <2>7. VisitInv'
    BY <2>1, <2>2, <2>4, <2>5 DEF IInv, VisitInv
  <2>8. CoverInv'
    <3>1. \A j : j # i => \A v \in Workers : j \in toVisit[v] => j \in toVisit'[v]
      BY <2>2
    <3>2. (i \in loaded' => i \in skipped') /\ loaded' \subseteq loaded /\ skipped \subseteq skipped'
      BY <2>1
    <3> QED
      BY <2>1, <2>5, <3>1, <3>2 DEF IInv, CoverInv
  <2> QED
    BY <1>t, <2>5, <2>6, <2>7, <2>8 DEF IInv
<1>15. ASSUME NEW w \in Workers, UpdateFinished(w)
       PROVE  IInv'
  <2>1. /\ UNCHANGED <<queue, loaded, toSchedule, toVisit, updated, skipped>>
        /\ workerPc[w] = "instances" /\ toVisit[w] = {}
        /\ workerPc' = [workerPc EXCEPT ![w] = "dequeue"]
        /\ current' = [current EXCEPT ![w] = NoMap]
    BY <1>15 DEF UpdateFinished, queueVars, tickVars
  <2>2. /\ workerPc'[w] = "dequeue"
        /\ \A v \in Workers \ {w} : workerPc'[v] = workerPc[v] /\ current'[v] = current[v]
    BY <1>t, <2>1 DEF TypeOK
  <2>3. w \in Busy /\ Busy' = Busy \ {w} /\ Queued' = Queued
    BY <2>1, <2>2 DEF Busy, Queued
  <2>4. Cardinality(Busy') = Cardinality(Busy) - 1 /\ Busy # {}
    BY <1>t, <2>3, BusyCount
  <2>5. pending # 0 /\ ~Quiet
    BY <1>c, <2>4 DEF IInv, WorldInv
  <2>6. /\ pending' = pending - 1
        /\ worldPc' = worldPc \/ (worldPc = "asleep" /\ worldPc' = "waiting")
        /\ ~Quiet'
    BY <1>15, <2>5 DEF UpdateFinished, Quiet
  <2>7. PendingIsExact' /\ WorldInv'
    BY <1>c, <2>1, <2>4, <2>6 DEF IInv, PendingIsExact, WorldInv
  <2>8. InFlight' = InFlight \ {current[w]} /\ current[w] \in updated
    <3>1. \A v \in Busy' : v # w /\ current'[v] = current[v] /\ current[v] # current[w]
      BY <2>2, <2>3 DEF IInv, OneUpdatePerMap, Busy
    <3>2. current[w] \notin Queued
      BY <2>3 DEF IInv, OneUpdatePerMap
    <3>3. current[w] \in updated
      BY <2>1 DEF IInv, OrderInv
    <3> QED
      BY <2>3, <3>1, <3>2, <3>3 DEF InFlight
  <2>9. OneUpdatePerMap'
    BY <2>1, <2>2, <2>3 DEF IInv, OneUpdatePerMap, Busy
  <2>10. NoDeletedMapInUse' /\ OrderInv'
    BY <2>1, <2>2, <2>3, <2>5, <2>6, <2>8 DEF IInv, NoDeletedMapInUse, OrderInv
  <2>11. VisitInv'
    BY <2>1, <2>2, <2>8 DEF IInv, VisitInv
  <2>12. CoverInv'
    BY <2>1, <2>6, <2>8 DEF IInv, CoverInv
  <2> QED
    BY <1>t, <2>7, <2>9, <2>10, <2>11, <2>12 DEF IInv
<1> QED
  BY <1>1, <1>2, <1>4, <1>5, <1>6, <1>7, <1>8, <1>9, <1>10, <1>11, <1>12, <1>13, <1>14, <1>15
     DEF Next, WorldNext, WorkerNext, Stopped
-----------------------------------------------------------------------------
\* The inductive invariant holds in every reachable state.
LEMMA Invariance == Spec => []IInv
<1> QED
  BY InitInv, InvStep, PTL DEF Spec

\* The queue, the counters and the thread states keep their types.
THEOREM TypeCorrect == Spec => []TypeOK
<1>1. IInv => TypeOK
  BY DEF IInv
<1> QED
  BY <1>1, Invariance, PTL

\* MapUpdater::wait() is a barrier for any number of threads and maps: outside
\* the map tick no map update is queued or running.
THEOREM BarrierHolds == Spec => []Barrier
<1>1. IInv => Barrier
  <2> SUFFICES ASSUME IInv, Quiet PROVE InFlight = {}
    BY DEF Barrier
  <2>1. Len(queue) + Cardinality(Busy) = 0
    BY DEF IInv, WorldInv, PendingIsExact
  <2>2. /\ Cardinality(Busy) \in Nat /\ (Cardinality(Busy) = 0 <=> Busy = {})
        /\ Len(queue) \in Nat /\ (Len(queue) = 0 => queue = << >>)
    BY BusyCount DEF IInv, TypeOK, QueueTypeOK
  <2>3. Busy = {} /\ queue = << >>
    BY <2>1, <2>2
  <2> QED
    BY <2>3 DEF InFlight, Queued
<1> QED
  BY <1>1, Invariance, PTL

\* No queued request and no running update refers to a deleted instance.
THEOREM NoUseAfterDelete == Spec => []NoDeletedMapInUse
<1>1. IInv => NoDeletedMapInUse
  BY DEF IInv
<1> QED
  BY <1>1, Invariance, PTL

\* No map is in Update on two threads, or queued while it is being updated.
THEOREM ExclusiveUpdate == Spec => []OneUpdatePerMap
<1>1. IInv => OneUpdatePerMap
  BY DEF IInv
<1> QED
  BY <1>1, Invariance, PTL

\* pending_requests is exactly the number of queued and running requests, so
\* update_finished never reports its "pending_requests is 0" bug.
THEOREM PendingExact == Spec => []PendingIsExact
<1>1. IInv => PendingIsExact
  BY DEF IInv
<1> QED
  BY <1>1, Invariance, PTL

\* When wait() returns, every base map and living instance was updated or
\* deliberately left out.
THEOREM TickComplete == Spec => []TickIsComplete
<1>1. IInv => TickIsComplete
  <2> SUFFICES ASSUME IInv, worldPc = "delayed", NEW m \in BaseMaps \cup loaded
               PROVE  \/ m \in updated \cup skipped
                      \/ m \in Instances /\ ParentOf[m] \in skipped
    BY DEF TickIsComplete
  <2>1. Len(queue) + Cardinality(Busy) = 0 /\ toSchedule = {}
    BY DEF IInv, WorldInv, PendingIsExact, Quiet
  <2>2. /\ Cardinality(Busy) \in Nat /\ (Cardinality(Busy) = 0 <=> Busy = {})
        /\ Len(queue) \in Nat /\ (Len(queue) = 0 => queue = << >>)
    BY BusyCount DEF IInv, TypeOK, QueueTypeOK
  <2>3. Busy = {} /\ queue = << >>
    BY <2>1, <2>2
  <2>4. InFlight = {} /\ \A w \in Workers : toVisit[w] = {}
    BY <2>3 DEF InFlight, Queued, Busy, IInv, VisitInv
  <2>5. BaseMaps \subseteq updated \cup skipped
    BY <2>1, <2>4 DEF IInv, CoverInv
  <2>6. ASSUME m \in loaded
        PROVE  m \in updated \cup skipped \/ ParentOf[m] \in skipped
    <3>1. ParentOf[m] \in BaseMaps
      BY <2>6, MapAssumption DEF IInv, TypeOK, BaseMaps
    <3> QED
      BY <2>4, <2>5, <2>6, <3>1 DEF IInv, CoverInv
  <2>7. loaded \subseteq Instances
    BY DEF IInv, TypeOK
  <2> QED
    BY <2>5, <2>6, <2>7
<1> QED
  BY <1>1, Invariance, PTL

-----------------------------------------------------------------------------
(* Instance ids.                                                           *)

\* A set of numbers that is not empty has a least element, which Min chooses.
LEMMA MinFacts ==
    ASSUME NEW S \in SUBSET Nat, S # {}
    PROVE  Min(S) \in S /\ \A x \in S : Min(S) <= x
<1>1. PICK x \in S : \A y \in S : ~(<<y, x>> \in OpToRel(<, Nat))
  BY NatLessThanWellFounded, WFMin
<1>2. ASSUME NEW y \in S PROVE x <= y
  <2>1. y \in Nat /\ x \in Nat /\ <<y, x>> \in Nat \X Nat
    OBVIOUS
  <2>2. y < x => <<y, x>> \in OpToRel(<, Nat)
    BY <2>1 DEF OpToRel
  <2>3. ~(y < x)
    BY <1>1, <2>2, Zenon
  <2> QED
    BY <2>1, <2>3
<1> QED
  BY <1>2 DEF Min

\* A set of numbers that is not empty and bounded has a greatest element: the
\* least of its bounds.
LEMMA MaxFacts ==
    ASSUME NEW n \in Nat, NEW S \in SUBSET (0..n), S # {}
    PROVE  Max(S) \in S /\ \A x \in S : x <= Max(S)
<1> DEFINE bounds == {b \in Nat : \A x \in S : x <= b}
           b == Min(bounds)
<1>1. bounds \in SUBSET Nat /\ n \in bounds
  OBVIOUS
<1>2. b \in bounds /\ \A c \in bounds : b <= c
  BY <1>1, MinFacts
<1>3. b \in S
  <2>1. SUFFICES ASSUME b \notin S PROVE FALSE
    OBVIOUS
  <2>2. b \in Nat /\ \A x \in S : x \in Nat /\ x <= b /\ x # b
    BY <1>2, <2>1
  <2>3. b # 0
    <3>1. PICK x \in S : x <= b /\ x # b /\ x \in Nat /\ b \in Nat
      BY <2>2
    <3> HIDE DEF b
    <3> QED
      BY <3>1
  <2>4. b - 1 \in bounds
    <3> HIDE DEF b
    <3> QED
      BY <2>2, <2>3
  <2> HIDE DEF b, bounds
  <2> QED
    BY <1>2, <2>2, <2>4
<1>4. \A x \in S : x <= b
  BY <1>2
<1> HIDE DEF b
<1> QED
  BY <1>3, <1>4 DEF Max

\* RoundUp: a multiple, not below what is rounded up, and above it unless that
\* is a multiple itself.
LEMMA RoundUpFacts ==
    ASSUME NEW n \in Nat, NEW k \in Nat \ {0}
    PROVE  /\ RoundUp(n, k) \in Nat /\ n <= RoundUp(n, k)
           /\ RoundUp(n, k) % k = 0
           /\ n % k # 0 => n < RoundUp(n, k)
<1> DEFINE q == n \div k
           r == n % k
<1>1. q \in Nat /\ r \in 0..(k - 1) /\ n = q * k + r
  OBVIOUS
<1>2. RoundUp(n, k) = IF r > 0 THEN q * k + k ELSE q * k
  BY <1>1 DEF RoundUp
<1>3. (q * k) % k = 0
  OBVIOUS
<1>4. ((q + 1) * k) % k = 0 /\ (q + 1) * k = q * k + k
  OBVIOUS
<1> QED
  BY <1>1, <1>2, <1>3, <1>4

\* A multiple of the word is a multiple of the chunk.
LEMMA WordsAreChunks ==
    ASSUME NEW n \in Nat, n % Word = 0
    PROVE  n % Chunk = 0
<1>1. ASSUME NEW m \in Nat, NEW k \in Nat \ {0}, m % k = 0
      PROVE  \E q \in Nat : m = q * k
  <2>1. m \div k \in Nat /\ m = (m \div k) * k
    BY <1>1
  <2> QED
    BY <2>1
<1>2. /\ Word \in Nat \ {0} /\ Chunk \in Nat \ {0} /\ Word % Chunk = 0
  BY SizeAssumption
<1>3. PICK p \in Nat : n = p * Word
  BY <1>1, <1>2
<1>4. PICK q \in Nat : Word = q * Chunk
  BY <1>1, <1>2
<1>5. \A a, b, c \in Nat : a * (b * c) = (a * b) * c
  OBVIOUS
<1>6. n = (p * q) * Chunk
  BY <1>2, <1>3, <1>4, <1>5
<1>7. PICK r : r = p * q
  OBVIOUS
<1>8. n = r * Chunk /\ r \in Nat
  BY <1>6, <1>7
<1> QED
  BY <1>2, <1>8
-----------------------------------------------------------------------------
\* Where a map thread can be in FreeInstanceId.
FreeingType == {Idle}
               \cup [step : {"setNext", "read"}, id : Ids]
               \cup [step : {"write"}, id : Ids, word : SUBSET Ids]

Frees(t) == freeing[t] # Idle

\* The ids that are in the vector and can have been marked.
Marks == 0..(size - 1) \cap 1..MaxId

FreeingInv ==
    /\ freeing \in [Threads -> FreeingType]
    /\ \A t \in Threads : Frees(t) =>
          /\ freeing[t].id \in 1..MaxId
          /\ freeing[t].step = "write" => freeing[t].word \subseteq Marks

\* Ids in use, marked or being freed are ids that were handed out or stored.
TypeInv ==
    /\ IdsTypeOK
    /\ used \subseteq Marks
    /\ dungeons \subseteq 1..MaxId /\ battles \subseteq 1..MaxId /\ orphans \subseteq 1..MaxId
    /\ FreeingInv

\* The vector holds whole chunks, and memory for whole words; nobody holds an id
\* past it, or held one that was not freed, so the only id it cannot mark when it
\* is handed out is its size.
SizeInv ==
    /\ size % Chunk = 0 /\ capacity % Chunk = 0
    /\ next <= size + 1
    /\ Kept \subseteq 0..size
    /\ \A t \in Threads : Frees(t) => freeing[t].id <= size

Odd(id) == id % Chunk # 0

\* An id that is no multiple of the chunk is held by one, who has it marked also
\* in the words that map threads are about to write, and is not the next one.
MarkInv ==
    /\ \A id \in Live : Odd(id) => id \in used
    /\ \A id \in dungeons \cap battles : ~Odd(id)
    /\ \A id \in orphans : Odd(id) => id \notin Live
    /\ Odd(next) => next \notin Live
    /\ \A t \in Threads : Frees(t) =>
          /\ Odd(freeing[t].id) => freeing[t].id \notin Live
          /\ freeing[t].step = "write" =>
                \A id \in Live \cap WordOf(freeing[t].id) : Odd(id) => id \in freeing[t].word
    /\ CollidesOnlyAtChunk

\* While no two threads have freed ids at once: what NextIsLowest says, but for
\* the id that is being freed.
BeingFreed(id) == \E t \in Threads : Frees(t) /\ freeing[t].id = id

LowInv ==
    /\ \A t, u \in Threads : Frees(t) /\ Frees(u) => t = u
    /\ \A t \in Threads : Frees(t) =>
          /\ IF freeing[t].step = "setNext" THEN freeing[t].id < next ELSE next <= freeing[t].id
          /\ freeing[t].step = "write" => freeing[t].word = used \cap WordOf(freeing[t].id)
    /\ next \in used => \E t \in Threads :
          Frees(t) /\ freeing[t].id = next /\ freeing[t].step # "setNext"
    /\ \A id \in 1..MaxId : id \notin Kept =>
          BeingFreed(id) \/ id = next \/ (next < id /\ id \notin used)


\* What a map thread in FreeInstanceId knows.
LEMMA FreeingFacts ==
    ASSUME TypeInv, NEW t \in Threads, Frees(t)
    PROVE  /\ freeing[t].step \in {"setNext", "read", "write"}
           /\ freeing[t].id \in 1..MaxId
           /\ freeing[t].step = "write" => freeing[t].word \subseteq Marks
           /\ freeing[t].step # "write" =>
                 freeing[t] = [step |-> freeing[t].step, id |-> freeing[t].id]
<1>1. \/ freeing[t] \in [step : {"setNext", "read"}, id : Ids]
      \/ freeing[t] \in [step : {"write"}, id : Ids, word : SUBSET Ids]
  BY DEF Frees, TypeInv, FreeingInv, FreeingType
<1>2. /\ freeing[t].id \in 1..MaxId
      /\ freeing[t].step = "write" => freeing[t].word \subseteq Marks
  BY DEF TypeInv, FreeingInv
<1> QED
  BY <1>1, <1>2

\* A thread whose step says what it does next is in FreeInstanceId.
LEMMA FreesFacts ==
    \A t \in Threads : freeing[t].step \in {"setNext", "read", "write"} => Frees(t)
BY DEF Frees, Idle

\* The scan finds the lowest id that is past the vector or not marked.
LEMMA NextAvailableFacts ==
    ASSUME TypeInv, next <= MaxId
    PROVE  /\ NextAvailable \in (next + 1)..(MaxId + 1)
           /\ NextAvailable >= size \/ NextAvailable \notin used
           /\ \A i \in (next + 1)..(MaxId + 1) : i >= size \/ i \notin used => NextAvailable <= i
<1> DEFINE free == {i \in (next + 1)..(MaxId + 1) : i >= size \/ i \notin used}
<1>1. next \in Nat /\ MaxId \in Nat /\ used \subseteq 1..MaxId
  BY SizeAssumption DEF TypeInv, IdsTypeOK, Marks
<1>2. free \in SUBSET Nat /\ MaxId + 1 \in free
  BY <1>1
<1>3. Min(free) \in free /\ \A i \in free : Min(free) <= i
  BY <1>2, MinFacts
<1> QED
  BY <1>3 DEF NextAvailable

\* A vector that has grown has room for what was asked for.
LEMMA GrownFacts ==
    ASSUME size \in Nat, capacity \in Nat, NEW n \in Nat
    PROVE  Grown(n) \in Nat /\ n <= Grown(n) /\ (capacity % Chunk = 0 => Grown(n) % Chunk = 0)
<1> DEFINE m == IF 2 * size > n THEN 2 * size ELSE n
<1>1. m \in Nat /\ n <= m /\ Word \in Nat \ {0}
  BY SizeAssumption
<1> HIDE DEF m
<1>2. RoundUp(m, Word) \in Nat /\ m <= RoundUp(m, Word) /\ RoundUp(m, Word) % Word = 0
  BY <1>1, RoundUpFacts
<1>3. RoundUp(m, Word) % Chunk = 0
  BY <1>2, WordsAreChunks
<1>4. Grown(n) = IF n <= capacity THEN capacity ELSE RoundUp(m, Word)
  BY DEF Grown, m
<1> QED
  BY <1>1, <1>2, <1>3, <1>4

\* What GenerateInstanceId makes of the vector.
LEMMA GenerateFacts ==
    ASSUME TypeInv, GenerateInstanceId
    PROVE  /\ size' \in Nat /\ capacity' \in Nat /\ size <= size' /\ size' <= capacity'
           /\ next \in 1..MaxId /\ next' \in 1..(MaxId + 1) /\ next < next'
           /\ next' >= size \/ next' \notin used
           /\ used' = used \cup ({next} \cap 0..(size' - 1))
           /\ SizeInv => size' % Chunk = 0 /\ capacity' % Chunk = 0
           /\ SizeInv => next <= size' /\ (Odd(next) => next < size')
           /\ SizeInv => next' <= size' + 1
<1>1. /\ size \in Nat /\ capacity \in Nat /\ size <= capacity /\ next \in Nat /\ next \in 1..MaxId
      /\ Chunk \in Nat \ {0}
  BY SizeAssumption DEF TypeInv, IdsTypeOK, GenerateInstanceId
<1>2. /\ SizeFor(next) \in Nat /\ next <= SizeFor(next) /\ SizeFor(next) % Chunk = 0
      /\ Odd(next) => next < SizeFor(next)
  BY <1>1, RoundUpFacts DEF SizeFor, Odd
<1>3. /\ size' = IF next < size THEN size ELSE IF size < capacity THEN capacity ELSE SizeFor(next)
      /\ capacity' = Grown(size') /\ next' = NextAvailable
      /\ used' = used \cup ({next} \cap 0..(size' - 1))
  BY DEF GenerateInstanceId
<1>4. size' \in Nat /\ size <= size' /\ (SizeInv => size' % Chunk = 0)
  BY <1>1, <1>2, <1>3 DEF SizeInv
<1>5. capacity' \in Nat /\ size' <= capacity' /\ (SizeInv => capacity' % Chunk = 0)
  BY <1>1, <1>3, <1>4, GrownFacts DEF SizeInv
<1>6. /\ next' \in (next + 1)..(MaxId + 1) /\ (next' >= size \/ next' \notin used)
      /\ \A i \in (next + 1)..(MaxId + 1) : i >= size \/ i \notin used => next' <= i
  BY <1>1, <1>3, NextAvailableFacts
<1>7. SizeInv => next <= size' /\ (Odd(next) => next < size')
  <2> SUFFICES ASSUME SizeInv PROVE next <= size' /\ (Odd(next) => next < size')
    OBVIOUS
  <2>1. next <= size + 1 /\ size % Chunk = 0 /\ capacity % Chunk = 0
    BY DEF SizeInv
  <2>2. CASE next < size
    BY <1>1, <1>3, <2>2
  <2>3. CASE next >= size /\ size < capacity
    <3>1. size' = capacity /\ next <= capacity
      BY <1>1, <1>3, <2>1, <2>3
    <3> QED
      BY <1>1, <2>1, <3>1 DEF Odd
  <2>4. CASE next >= size /\ ~(size < capacity)
    BY <1>1, <1>2, <1>3, <2>4
  <2> QED
    BY <1>1, <2>2, <2>3, <2>4
<1>8. SizeInv => next' <= size' + 1
  <2>a. PICK n, s : n = next' /\ s = size'
    OBVIOUS
  <2> SUFFICES ASSUME SizeInv PROVE n <= s + 1
    BY <2>a
  <2>1. /\ MaxId \in Nat /\ n \in Nat /\ n <= MaxId + 1
        /\ next \in Nat /\ size \in Nat /\ s \in Nat /\ size <= s /\ next <= s
    BY <1>1, <1>4, <1>6, <1>7, <2>a, SizeAssumption
  <2>2. CASE size > MaxId
    BY <2>1, <2>2
  <2>3. CASE size <= MaxId /\ next < size
    <3>1. size \in (next + 1)..(MaxId + 1)
      BY <2>1, <2>3
    <3>2. n <= size
      BY <1>6, <2>a, <2>1, <3>1
    <3> QED
      BY <2>1, <3>2
  <2>4. CASE size <= MaxId /\ next >= size
    <3>1. next + 1 \in (next + 1)..(MaxId + 1) /\ next + 1 >= size
      BY <1>1, <2>1, <2>4
    <3>2. n <= next + 1
      BY <1>6, <2>a, <2>1, <3>1
    <3> QED
      BY <2>1, <3>2
  <2> QED
    BY <2>1, <2>2, <2>3, <2>4
<1> QED
  BY <1>1, <1>3, <1>4, <1>5, <1>6, <1>7, <1>8


\* A larger vector holds the marks of a smaller one.
LEMMA MarksGrow ==
    ASSUME size \in Nat, size' \in Nat, size <= size'
    PROVE  Marks \subseteq Marks'
<1>1. \A a, b \in Nat : a <= b => 0..(a - 1) \subseteq 0..(b - 1)
  OBVIOUS
<1>2. 0..(size - 1) \subseteq 0..(size' - 1)
  BY <1>1
<1> QED
  BY <1>2 DEF Marks

LEMMA IdsTypeStep == TypeInv /\ [IdsNext]_idsVars => TypeInv'
<1> SUFFICES ASSUME TypeInv, [IdsNext]_idsVars PROVE TypeInv'
  OBVIOUS
<1>a. /\ MaxId \in Nat /\ 1..MaxId \subseteq Ids /\ 1..MaxId \subseteq 1..(MaxId + 1)
      /\ size \in Nat /\ capacity \in Nat /\ size <= capacity
      /\ next \in 1..(MaxId + 1)
      /\ used \subseteq Marks /\ Marks \subseteq Ids
      /\ dungeons \subseteq 1..MaxId /\ battles \subseteq 1..MaxId /\ orphans \subseteq 1..MaxId
      /\ collided \subseteq Ids /\ raced \in BOOLEAN
  BY SizeAssumption DEF TypeInv, IdsTypeOK, Ids, Marks
<1>b. ASSUME UNCHANGED <<size, capacity>> \/ (size' \in Nat /\ capacity' \in Nat /\ size' <= capacity'),
             used' \subseteq Marks', next' \in 1..(MaxId + 1),
             dungeons' \subseteq 1..MaxId, battles' \subseteq 1..MaxId, orphans' \subseteq 1..MaxId,
             collided' \subseteq Ids, raced' \in BOOLEAN, FreeingInv'
      PROVE  TypeInv'
  BY <1>a, <1>b DEF TypeInv, IdsTypeOK, FreeingInv, FreeingType, Marks
<1>c. ASSUME UNCHANGED size PROVE Marks' = Marks
  BY <1>c DEF Marks
<1>d. ASSUME NEW t \in Threads, NEW f \in FreeingType, freeing' = [freeing EXCEPT ![t] = f],
             Marks' = Marks,
             \/ f = Idle
             \/ f.id \in 1..MaxId /\ (f.step = "write" => f.word \subseteq Marks)
      PROVE  FreeingInv'
  BY <1>d DEF TypeInv, FreeingInv, Frees
<1>e. ASSUME UNCHANGED freeing, Marks \subseteq Marks' PROVE FreeingInv'
  BY <1>e DEF TypeInv, FreeingInv, Frees
<1> USE DEF vectorVars
<1>1. CASE GenerateInstanceId
  <2>1. /\ size' \in Nat /\ capacity' \in Nat /\ size <= size' /\ size' <= capacity'
        /\ next \in 1..MaxId /\ next' \in 1..(MaxId + 1)
        /\ used' = used \cup ({next} \cap 0..(size' - 1))
    BY <1>1, GenerateFacts
  <2>2. Marks \subseteq Marks'
    BY <1>a, <2>1, MarksGrow
  <2>3. used' \subseteq Marks'
    BY <1>a, <2>1, <2>2 DEF Marks
  <2>4. /\ dungeons' \subseteq 1..MaxId /\ battles' \subseteq 1..MaxId /\ orphans' \subseteq 1..MaxId
        /\ collided' \subseteq Ids /\ UNCHANGED <<freeing, raced>>
    BY <1>1, <1>a, <2>1 DEF GenerateInstanceId
  <2>5. FreeingInv'
    BY <1>e, <2>2, <2>4
  <2> QED
    BY <1>a, <1>b, <2>1, <2>3, <2>4, <2>5
<1>2. ASSUME NEW id \in Ids, ResetInstance(id)
      PROVE  TypeInv'
  <2>1. /\ id \in 1..MaxId /\ next' \in 1..(MaxId + 1)
        /\ used' \subseteq used /\ dungeons' \subseteq dungeons /\ orphans' \subseteq orphans
        /\ UNCHANGED <<size, capacity, battles, collided, freeing, raced>>
    BY <1>2, <1>a DEF ResetInstance
  <2> QED
    BY <1>a, <1>b, <1>c, <1>e, <2>1
<1>3. ASSUME NEW t \in Threads, NEW id \in Ids, DestroyBattleground(t, id)
      PROVE  TypeInv'
  <2>1. /\ battles' = battles \ {id} /\ id \in 1..MaxId /\ raced' \in BOOLEAN
        /\ UNCHANGED <<size, capacity, used, next, dungeons, orphans, collided>>
    BY <1>3, <1>a DEF DestroyBattleground
  <2>2. PICK step \in {"setNext", "read"} : freeing' = [freeing EXCEPT ![t] = [step |-> step, id |-> id]]
    BY <1>3 DEF DestroyBattleground
  <2>3. PICK f : f = [step |-> step, id |-> id]
    OBVIOUS
  <2>4. f \in FreeingType /\ f.id \in 1..MaxId /\ f.step # "write"
    BY <2>1, <2>3 DEF FreeingType
  <2>5. FreeingInv'
    BY <1>c, <1>d, <2>1, <2>2, <2>3, <2>4
  <2> QED
    BY <1>a, <1>b, <1>c, <2>1, <2>5
<1>4. ASSUME NEW t \in Threads, SetNextInstanceId(t)
      PROVE  TypeInv'
  <2>1. Frees(t) /\ freeing[t].id \in 1..MaxId
        /\ freeing[t] = [step |-> "setNext", id |-> freeing[t].id]
    BY <1>4, FreesFacts, FreeingFacts DEF SetNextInstanceId
  <2>2. next' = freeing[t].id
        /\ UNCHANGED <<size, capacity, used, dungeons, battles, orphans, collided, raced>>
    BY <1>4 DEF SetNextInstanceId
  <2>3. PICK f : f = [step |-> "read", id |-> freeing[t].id]
    OBVIOUS
  <2>4. f \in FreeingType /\ f.id \in 1..MaxId /\ f.step # "write"
    BY <1>a, <2>1, <2>3 DEF FreeingType
  <2>5. freeing' = [freeing EXCEPT ![t] = f]
    <3>1. PICK id : freeing[t] = [step |-> "setNext", id |-> id] /\ f = [step |-> "read", id |-> id]
      BY <2>1, <2>3
    <3>2. [freeing[t] EXCEPT !.step = "read"] = f
      BY <3>1
    <3>3. freeing' = [freeing EXCEPT ![t] = [freeing[t] EXCEPT !.step = "read"]]
      BY <1>4 DEF SetNextInstanceId
    <3> QED
      BY <3>2, <3>3
  <2>6. FreeingInv'
    BY <1>c, <1>d, <2>2, <2>4, <2>5
  <2> QED
    BY <1>a, <1>b, <1>c, <2>1, <2>2, <2>6
<1>5. ASSUME NEW t \in Threads, ReadWord(t)
      PROVE  TypeInv'
  <2>1. freeing[t].id \in 1..MaxId
    BY <1>5, FreesFacts, FreeingFacts DEF ReadWord
  <2>2. PICK f : /\ f = [step |-> "write", id |-> freeing[t].id, word |-> used \cap WordOf(freeing[t].id)]
                 /\ freeing' = [freeing EXCEPT ![t] = f]
    BY <1>5 DEF ReadWord
  <2>3. f \in FreeingType /\ f.id \in 1..MaxId /\ f.word \subseteq Marks
    BY <1>a, <2>1, <2>2 DEF FreeingType
  <2>4. UNCHANGED <<size, capacity, used, next, dungeons, battles, orphans, collided, raced>>
    BY <1>5 DEF ReadWord
  <2>5. FreeingInv'
    BY <1>c, <1>d, <2>2, <2>3, <2>4
  <2> QED
    BY <1>a, <1>b, <1>c, <2>4, <2>5
<1>6. ASSUME NEW t \in Threads, WriteWord(t)
      PROVE  TypeInv'
  <2>1. freeing' = [freeing EXCEPT ![t] = Idle] /\ used' \subseteq used \cup freeing[t].word
        /\ UNCHANGED <<size, capacity, next, dungeons, battles, orphans, collided, raced>>
    BY <1>6 DEF WriteWord
  <2>2. freeing[t].word \subseteq Marks
    BY <1>6, FreesFacts, FreeingFacts DEF WriteWord
  <2>3. FreeingInv'
    BY <1>c, <1>d, <2>1 DEF FreeingType
  <2> QED
    BY <1>a, <1>b, <1>c, <2>1, <2>2, <2>3
<1>7. ASSUME NEW gone \in SUBSET dungeons, DeleteSaves(gone)
      PROVE  TypeInv'
  <2>1. /\ dungeons' \subseteq dungeons /\ orphans' \subseteq 1..MaxId
        /\ UNCHANGED <<size, capacity, used, next, battles, collided, freeing, raced>>
    BY <1>7, <1>a DEF DeleteSaves
  <2> QED
    BY <1>a, <1>b, <1>c, <1>e, <2>1
<1>8. CASE UNCHANGED idsVars
  BY <1>8, <1>a, <1>b, <1>c, <1>e DEF idsVars
<1> QED
  BY <1>1, <1>2, <1>3, <1>4, <1>5, <1>6, <1>7, <1>8 DEF IdsNext


\* Every step leaves the vector with room for whoever holds an id.
LEMMA SizeStep == TypeInv /\ SizeInv /\ [IdsNext]_idsVars => SizeInv'
<1> SUFFICES ASSUME TypeInv, SizeInv, [IdsNext]_idsVars PROVE SizeInv'
  OBVIOUS
<1> USE DEF vectorVars
<1>a. /\ size \in Nat /\ next \in Nat /\ next <= size + 1 /\ freeing \in [Threads -> FreeingType]
      /\ Kept \subseteq 0..size /\ size % Chunk = 0 /\ capacity % Chunk = 0
      /\ \A t \in Threads : Frees(t) => freeing[t].id <= size
  BY SizeAssumption DEF TypeInv, IdsTypeOK, FreeingInv, SizeInv
<1>b. ASSUME UNCHANGED <<size, capacity, next>>, Kept' \subseteq Kept,
             \A t \in Threads : Frees(t)' => freeing'[t].id <= size
      PROVE  SizeInv'
  BY <1>a, <1>b DEF SizeInv
<1>c. ASSUME UNCHANGED <<size, capacity, freeing>>, Kept' \subseteq Kept, next' <= size + 1
      PROVE  SizeInv'
  BY <1>a, <1>c DEF SizeInv, Frees
<1>1. CASE GenerateInstanceId
  <2>1. /\ size' \in Nat /\ size <= size' /\ next <= size' /\ next' <= size' + 1
        /\ size' % Chunk = 0 /\ capacity' % Chunk = 0
    BY <1>1, GenerateFacts
  <2>2. Kept' \subseteq Kept \cup {next} /\ UNCHANGED freeing
    BY <1>1 DEF GenerateInstanceId, Kept, Live
  <2>3. \A n \in Nat : n <= size => n <= size'
    BY <1>a, <2>1
  <2>4. Kept' \subseteq 0..size'
    BY <1>a, <2>1, <2>2, <2>3
  <2>5. \A t \in Threads : Frees(t)' => freeing'[t].id <= size'
    BY <1>a, <2>2, <2>3, FreeingFacts DEF Frees
  <2> QED
    BY <2>1, <2>4, <2>5 DEF SizeInv
<1>2. ASSUME NEW id \in Ids, ResetInstance(id)
      PROVE  SizeInv'
  <2>1. UNCHANGED <<size, capacity, freeing>> /\ Kept' \subseteq Kept /\ id \in Kept
        /\ next' \in {id, next}
    BY <1>2 DEF ResetInstance, Kept, Live
  <2>2. next' <= size + 1
    BY <1>a, <2>1
  <2> QED
    BY <1>c, <2>1, <2>2
<1>3. ASSUME NEW t \in Threads, NEW id \in Ids, DestroyBattleground(t, id)
      PROVE  SizeInv'
  <2>1. /\ UNCHANGED <<size, capacity, next>> /\ Kept' \subseteq Kept /\ id \in Kept
        /\ \A u \in Threads : u # t => freeing'[u] = freeing[u]
        /\ freeing'[t].id = id
    BY <1>3, <1>a DEF DestroyBattleground, Kept, Live
  <2> QED
    BY <1>a, <1>b, <2>1 DEF Frees
<1>4. ASSUME NEW t \in Threads, SetNextInstanceId(t)
      PROVE  SizeInv'
  <2>1. Frees(t) /\ freeing[t].id \in Nat /\ freeing[t].id <= size
    BY <1>4, <1>a, FreesFacts, FreeingFacts DEF SetNextInstanceId
  <2>2. /\ UNCHANGED <<size, capacity, dungeons, battles, orphans>> /\ next' = freeing[t].id
        /\ \A u \in Threads : u # t => freeing'[u] = freeing[u]
        /\ freeing'[t].id = freeing[t].id
    BY <1>4, <1>a DEF SetNextInstanceId
  <2>3. \A u \in Threads : Frees(u)' => freeing'[u].id <= size
    BY <1>a, <2>1, <2>2 DEF Frees
  <2>4. next' <= size + 1
    BY <1>a, <2>1, <2>2
  <2>5. next' <= size' + 1
    BY <2>2, <2>4, Zenon
  <2>6. size' % Chunk = 0 /\ capacity' % Chunk = 0 /\ Kept' \subseteq 0..size'
    BY <1>a, <2>2 DEF Kept, Live
  <2>7. \A u \in Threads : Frees(u)' => freeing'[u].id <= size'
    BY <2>2, <2>3
  <2> QED
    BY <2>5, <2>6, <2>7, Zenon DEF SizeInv
<1>5. ASSUME NEW t \in Threads, ReadWord(t) \/ WriteWord(t)
      PROVE  SizeInv'
  <2>1. Frees(t) /\ UNCHANGED <<size, capacity, next, dungeons, battles, orphans>>
    BY <1>5, FreesFacts DEF ReadWord, WriteWord
  <2>2. /\ \A u \in Threads : u # t => freeing'[u] = freeing[u]
        /\ freeing'[t] = Idle \/ freeing'[t].id = freeing[t].id
    BY <1>5, <1>a DEF ReadWord, WriteWord
  <2> QED
    BY <1>a, <1>b, <2>1, <2>2 DEF Frees, Kept, Live
<1>6. ASSUME NEW gone \in SUBSET dungeons, DeleteSaves(gone)
      PROVE  SizeInv'
  <2>1. UNCHANGED <<size, capacity, freeing, next>> /\ Kept' \subseteq Kept
    BY <1>6 DEF DeleteSaves, Kept, Live
  <2> QED
    BY <1>a, <1>c, <2>1
<1>7. CASE UNCHANGED idsVars
  BY <1>7, <1>a DEF idsVars, SizeInv, Kept, Live, Frees
<1> QED
  BY <1>1, <1>2, <1>3, <1>4, <1>5, <1>6, <1>7 DEF IdsNext

\* Every step leaves the ids that are no multiples of the chunk with one holder
\* and with their marks.
LEMMA MarkStep == TypeInv /\ SizeInv /\ MarkInv /\ [IdsNext]_idsVars => MarkInv'
<1> SUFFICES ASSUME TypeInv, SizeInv, MarkInv, [IdsNext]_idsVars PROVE MarkInv'
  OBVIOUS
<1> USE DEF vectorVars
<1>a. freeing \in [Threads -> FreeingType] /\ Kept \subseteq 0..size /\ size \in Nat
  BY DEF TypeInv, IdsTypeOK, FreeingInv, SizeInv
<1>1. CASE GenerateInstanceId
  <2>1. /\ size' \in Nat /\ next \in 1..MaxId /\ next' \in 1..(MaxId + 1) /\ next < next'
        /\ next' >= size \/ next' \notin used
        /\ used' = used \cup ({next} \cap 0..(size' - 1))
        /\ Odd(next) => next < size'
    BY <1>1, GenerateFacts
  <2>2. /\ UNCHANGED freeing /\ WorldRuns
        /\ Live' = Live \cup {next} /\ collided' = collided \cup ({next} \cap Live)
        /\ orphans' = orphans \ {next}
        /\ dungeons' \cap battles' \subseteq (dungeons \cap battles) \cup ({next} \cap Live)
    BY <1>1 DEF GenerateInstanceId, Live
  <2>3. Odd(next) => next \in used' /\ next \notin Live
    <3>1. ASSUME Odd(next) PROVE next \in 0..(size' - 1)
      <4>1. \A m, n \in Nat : m < n => m \in 0..(n - 1)
        OBVIOUS
      <4>2. next \in Nat /\ next < size'
        BY <2>1, <3>1
      <4> QED
        BY <2>1, <4>1, <4>2
    <3>2. Odd(next) => next \notin Live
      BY DEF MarkInv
    <3>3. Odd(next) => next \in used'
      BY <2>1, <3>1
    <3> QED
      BY <3>2, <3>3
  <2>4. \A id \in Live' : Odd(id) => id \in used'
    BY <2>1, <2>2, <2>3 DEF MarkInv
  <2>5. next' \in Nat /\ next' # next
    BY <2>1, SizeAssumption
  <2>6. Odd(next)' => next' \notin Live'
    <3>1. ASSUME Odd(next'), next' \in Live PROVE FALSE
      <4>1. next' \in used
        BY <3>1 DEF MarkInv
      <4>2. next' < size
        BY <4>1, <1>a DEF TypeInv, Marks
      <4> QED
        BY <1>a, <2>1, <2>5, <4>1, <4>2
    <3> QED
      BY <2>2, <2>5, <3>1 DEF Odd
  <2>7. CollidesOnlyAtChunk' /\ \A id \in dungeons' \cap battles' : ~Odd(id)
    BY <2>2, <2>3 DEF MarkInv, CollidesOnlyAtChunk, Odd
  <2>8. \A t \in Threads : ~Frees(t)'
    BY <2>2 DEF WorldRuns, Frees
  <2>9. \A id \in orphans' : Odd(id) => id \notin Live'
    BY <2>2 DEF MarkInv
  <2> QED
    BY <2>4, <2>6, <2>7, <2>8, <2>9 DEF MarkInv, Odd
<1>2. ASSUME NEW id \in Ids, ResetInstance(id)
      PROVE  MarkInv'
  <2>1. /\ Live' \subseteq Live /\ (Odd(id) => id \notin Live') /\ used' = used \ {id}
        /\ dungeons' \subseteq dungeons /\ orphans' \subseteq orphans
        /\ UNCHANGED <<battles, collided, freeing>>
        /\ next' \in {id, next} /\ WorldRuns
    BY <1>2 DEF ResetInstance, Live, MarkInv
  <2> QED
    BY <2>1 DEF MarkInv, CollidesOnlyAtChunk, Odd, WorldRuns, Frees
<1>3. ASSUME NEW t \in Threads, NEW id \in Ids, DestroyBattleground(t, id)
      PROVE  MarkInv'
  <2>1. /\ Live' \subseteq Live /\ (Odd(id) => id \notin Live') /\ battles' \subseteq battles
        /\ UNCHANGED <<used, next, dungeons, orphans, collided>>
    BY <1>3 DEF DestroyBattleground, Live, MarkInv
  <2>2. /\ \A u \in Threads : u # t => freeing'[u] = freeing[u]
        /\ freeing'[t].id = id /\ freeing'[t].step # "write"
    BY <1>3, <1>a DEF DestroyBattleground
  <2> QED
    BY <2>1, <2>2 DEF MarkInv, CollidesOnlyAtChunk, Odd, Frees
<1>4. ASSUME NEW t \in Threads, SetNextInstanceId(t)
      PROVE  MarkInv'
  <2>1. /\ UNCHANGED <<used, dungeons, battles, orphans, collided>> /\ next' = freeing[t].id
        /\ \A u \in Threads : u # t => freeing'[u] = freeing[u]
        /\ freeing'[t].id = freeing[t].id /\ freeing'[t].step = "read"
        /\ Frees(t)
    BY <1>4, <1>a, FreesFacts, FreeingFacts DEF SetNextInstanceId
  <2> QED
    BY <2>1 DEF MarkInv, CollidesOnlyAtChunk, Odd, Frees, Live
<1>5. ASSUME NEW t \in Threads, ReadWord(t)
      PROVE  MarkInv'
  <2>1. /\ UNCHANGED <<used, next, dungeons, battles, orphans, collided>>
        /\ \A u \in Threads : u # t => freeing'[u] = freeing[u]
        /\ freeing'[t].id = freeing[t].id /\ freeing'[t].word = used \cap WordOf(freeing[t].id)
        /\ Frees(t)
    BY <1>5, <1>a, FreesFacts DEF ReadWord
  <2> QED
    BY <2>1 DEF MarkInv, CollidesOnlyAtChunk, Odd, Frees, Live
<1>6. ASSUME NEW t \in Threads, WriteWord(t)
      PROVE  MarkInv'
  <2>1. /\ UNCHANGED <<next, dungeons, battles, orphans, collided>>
        /\ \A u \in Threads : u # t => freeing'[u] = freeing[u]
        /\ freeing'[t] = Idle /\ Frees(t) /\ freeing[t].step = "write"
        /\ used' = (used \ WordOf(freeing[t].id)) \cup (freeing[t].word \ {freeing[t].id})
    BY <1>6, <1>a, FreesFacts DEF WriteWord
  <2>2. \A id \in Live : Odd(id) => id \in used'
    BY <2>1 DEF MarkInv
  <2> QED
    BY <2>1, <2>2 DEF MarkInv, CollidesOnlyAtChunk, Odd, Frees, Live
<1>7. ASSUME NEW gone \in SUBSET dungeons, DeleteSaves(gone)
      PROVE  MarkInv'
  <2>1. /\ Live' \subseteq Live /\ dungeons' \subseteq dungeons /\ orphans' = orphans \cup gone
        /\ UNCHANGED <<used, next, battles, collided, freeing>>
    BY <1>7 DEF DeleteSaves, Live
  <2>2. \A id \in gone : Odd(id) => id \notin Live'
    BY <1>7 DEF DeleteSaves, Live, MarkInv
  <2> QED
    BY <2>1, <2>2 DEF MarkInv, CollidesOnlyAtChunk, Odd, Frees
<1>8. CASE UNCHANGED idsVars
  BY <1>8 DEF idsVars, MarkInv, CollidesOnlyAtChunk, Odd, Frees, Live
<1> QED
  BY <1>1, <1>2, <1>3, <1>4, <1>5, <1>6, <1>7, <1>8 DEF IdsNext

\* As long as no two threads free ids at once, every id nobody holds is found by
\* the scan, or is the next one, or is being freed.
LEMMA LowStep ==
    ASSUME TypeInv, ~raced => LowInv, [IdsNext]_idsVars, ~raced'
    PROVE  LowInv'
<1> USE DEF vectorVars
<1>a. /\ freeing \in [Threads -> FreeingType] /\ MaxId \in Nat
      /\ next \in 1..(MaxId + 1) /\ used \subseteq 1..MaxId /\ used \subseteq Marks
      /\ used \subseteq Ids /\ size \in Nat /\ Kept \subseteq 1..MaxId
  BY SizeAssumption DEF TypeInv, IdsTypeOK, FreeingInv, Marks, Kept, Live, Ids
<1>b. ~raced /\ LowInv
  <2>1. UNCHANGED raced \/ raced' = (raced \/ ~WorldRuns)
    BY DEF IdsNext, GenerateInstanceId, ResetInstance, DeleteSaves, DestroyBattleground, SetNextInstanceId,
           ReadWord, WriteWord, idsVars
  <2>2. raced => raced'
    BY <2>1, Zenon
  <2> QED
    BY <2>2
<1>1. CASE GenerateInstanceId
  <2>1. /\ next \in 1..MaxId /\ next' \in 1..(MaxId + 1) /\ next < next'
        /\ next' >= size \/ next' \notin used
        /\ used' \subseteq used \cup {next}
    BY <1>1, GenerateFacts
  <2>2. \A i \in (next + 1)..(MaxId + 1) : i >= size \/ i \notin used => next' <= i
    BY <1>1, NextAvailableFacts DEF GenerateInstanceId
  <2>3. Kept' = Kept \cup {next} /\ UNCHANGED freeing /\ WorldRuns
    BY <1>1 DEF GenerateInstanceId, Kept, Live
  <2>4. next' \notin used'
    <3>1. next' \in used => next' < size
      BY <1>a DEF Marks
    <3>2. next' \in Int /\ size \in Int /\ next \in Int
      BY <1>a, <2>1
    <3> QED
      BY <2>1, <3>1, <3>2
  <2>5. ASSUME NEW id \in 1..MaxId, id \notin Kept'
        PROVE  id = next' \/ (next' < id /\ id \notin used')
    <3>1. id # next /\ id \notin Kept
      BY <2>3, <2>5
    <3>2. next < id /\ id \notin used
      BY <1>b, <2>3, <3>1 DEF LowInv, BeingFreed, WorldRuns, Frees
    <3>3. id \in (next + 1)..(MaxId + 1)
      BY <1>a, <3>2
    <3>4. next' <= id /\ id \notin used'
      BY <2>1, <2>2, <3>1, <3>2, <3>3
    <3> QED
      BY <1>a, <2>1, <3>4
  <2> QED
    BY <2>3, <2>4, <2>5 DEF LowInv, WorldRuns, Frees
<1>2. ASSUME NEW id \in Ids, ResetInstance(id)
      PROVE  LowInv'
  <2>1. /\ WorldRuns /\ UNCHANGED <<battles, freeing>> /\ id \in 1..MaxId
        /\ next' = IF id < next THEN id ELSE next
        /\ used' = used \ {id} /\ Kept \subseteq Kept' \cup {id}
    BY <1>2, <1>a DEF ResetInstance, Kept, Live
  <2>2. \A t \in Threads : ~Frees(t) /\ ~Frees(t)'
    BY <2>1 DEF WorldRuns, Frees
  <2>3. next \notin used
    BY <1>b, <2>2 DEF LowInv
  <2>4. ASSUME NEW other \in 1..MaxId, other \notin Kept'
        PROVE  other = next' \/ (next' < other /\ other \notin used')
    <3>1. other = id \/ other = next \/ (next < other /\ other \notin used)
      BY <1>b, <2>1, <2>2, <2>4 DEF LowInv, BeingFreed
    <3> QED
      BY <1>a, <2>1, <2>3, <3>1
  <2> QED
    BY <2>1, <2>2, <2>3, <2>4 DEF LowInv
<1>3. ASSUME NEW t \in Threads, NEW id \in Ids, DestroyBattleground(t, id)
      PROVE  LowInv'
  <2>1. /\ WorldRuns /\ UNCHANGED <<used, next>> /\ id \in 1..MaxId
        /\ Kept \subseteq Kept' \cup {id}
        /\ \A u \in Threads : u # t => freeing'[u] = freeing[u]
        /\ freeing'[t] = [step |-> IF id < next THEN "setNext" ELSE "read", id |-> id]
    BY <1>3, <1>a DEF DestroyBattleground, Kept, Live, TypeInv
  <2>2. \A u \in Threads : ~Frees(u) /\ (Frees(u)' => u = t)
    BY <2>1 DEF WorldRuns, Frees
  <2>3. /\ freeing'[t].id = id
        /\ IF id < next THEN freeing'[t].step = "setNext" ELSE freeing'[t].step = "read"
    BY <2>1
  <2>4. Frees(t)'
    BY <2>3 DEF Frees, Idle
  <2>5. next \notin used
    BY <1>b, <2>2 DEF LowInv
  <2>6. ASSUME NEW other \in 1..MaxId, other \notin Kept'
        PROVE  BeingFreed(other)' \/ other = next' \/ (next' < other /\ other \notin used')
    BY <1>b, <2>1, <2>2, <2>3, <2>4, <2>6 DEF LowInv, BeingFreed
  <2> QED
    BY <1>a, <2>1, <2>2, <2>3, <2>5, <2>6 DEF LowInv
<1>4. ASSUME NEW t \in Threads, SetNextInstanceId(t)
      PROVE  LowInv'
  <2>1. /\ Frees(t) /\ freeing[t].step = "setNext" /\ freeing[t].id \in 1..MaxId
    BY <1>4, FreesFacts, FreeingFacts DEF SetNextInstanceId
  <2>2. /\ UNCHANGED <<used, dungeons, battles, orphans>> /\ next' = freeing[t].id
        /\ \A u \in Threads : u # t => freeing'[u] = freeing[u]
        /\ freeing'[t].id = freeing[t].id /\ freeing'[t].step = "read"
    BY <1>4, <1>a, <2>1, FreeingFacts DEF SetNextInstanceId
  <2>3. Frees(t)' /\ \A u \in Threads : Frees(u) \/ Frees(u)' => u = t
    BY <1>b, <2>1, <2>2 DEF LowInv, Frees, Idle
  <2>4. next' < next /\ next \notin used
    BY <1>b, <2>1, <2>2, <2>3 DEF LowInv
  <2>5. ASSUME NEW id \in 1..MaxId, id \notin Kept'
        PROVE  BeingFreed(id)' \/ id = next' \/ (next' < id /\ id \notin used')
    <3>1. BeingFreed(id) => BeingFreed(id)'
      BY <2>2, <2>3 DEF BeingFreed
    <3>2. BeingFreed(id) \/ id = next \/ (next < id /\ id \notin used)
      BY <1>b, <2>2, <2>5 DEF LowInv, Kept, Live
    <3> QED
      BY <1>a, <2>1, <2>2, <2>4, <3>1, <3>2
  <2> QED
    BY <2>1, <2>2, <2>3, <2>5 DEF LowInv
<1>5. ASSUME NEW t \in Threads, ReadWord(t)
      PROVE  LowInv'
  <2>1. Frees(t) /\ freeing[t].step = "read"
    BY <1>5, FreesFacts DEF ReadWord
  <2>2. /\ UNCHANGED <<used, next, dungeons, battles, orphans>>
        /\ \A u \in Threads : u # t => freeing'[u] = freeing[u]
        /\ freeing'[t].id = freeing[t].id /\ freeing'[t].step = "write"
        /\ freeing'[t].word = used \cap WordOf(freeing[t].id)
    BY <1>5, <1>a DEF ReadWord
  <2>3. Frees(t)' /\ \A u \in Threads : Frees(u) \/ Frees(u)' => u = t
    BY <1>b, <2>1, <2>2 DEF LowInv, Frees, Idle
  <2>4. \A id : BeingFreed(id)' <=> BeingFreed(id)
    BY <2>1, <2>2, <2>3 DEF BeingFreed
  <2> QED
    BY <1>b, <2>1, <2>2, <2>3, <2>4 DEF LowInv, Kept, Live
<1>6. ASSUME NEW t \in Threads, WriteWord(t)
      PROVE  LowInv'
  <2>1. Frees(t) /\ freeing[t].step = "write" /\ freeing[t].id \in 1..MaxId
    BY <1>6, FreesFacts, FreeingFacts DEF WriteWord
  <2>2. /\ UNCHANGED <<next, dungeons, battles, orphans>>
        /\ \A u \in Threads : u # t => freeing'[u] = freeing[u]
        /\ freeing'[t] = Idle
        /\ used' = (used \ WordOf(freeing[t].id)) \cup (freeing[t].word \ {freeing[t].id})
    BY <1>6, <1>a DEF WriteWord
  <2>3. freeing[t].id \in WordOf(freeing[t].id)
    BY <1>a, <2>1 DEF WordOf, Ids
  <2>4. used' = used \ {freeing[t].id}
    BY <1>b, <2>1, <2>2, <2>3 DEF LowInv
  <2>5. \A u \in Threads : ~Frees(u)' /\ (Frees(u) => u = t)
    BY <1>b, <2>1, <2>2 DEF LowInv, Frees
  <2>6. next <= freeing[t].id /\ next' \notin used'
    BY <1>b, <2>1, <2>2, <2>4, <2>5 DEF LowInv
  <2>7. ASSUME NEW id \in 1..MaxId, id \notin Kept'
        PROVE  id = next' \/ (next' < id /\ id \notin used')
    <3>1. id = freeing[t].id \/ id = next \/ (next < id /\ id \notin used)
      BY <1>b, <2>2, <2>5, <2>7 DEF LowInv, BeingFreed, Kept, Live
    <3> QED
      BY <1>a, <2>1, <2>2, <2>4, <2>6, <3>1
  <2> QED
    BY <2>5, <2>6, <2>7 DEF LowInv
<1>7. ASSUME NEW gone \in SUBSET dungeons, DeleteSaves(gone)
      PROVE  LowInv'
  <2>1. UNCHANGED <<used, next, freeing>> /\ Kept' = Kept
    BY <1>7 DEF DeleteSaves, Kept, Live
  <2> QED
    BY <1>b, <2>1 DEF LowInv, Frees, BeingFreed
<1>8. CASE UNCHANGED idsVars
  BY <1>8, <1>b DEF idsVars, LowInv, Kept, Live, Frees, BeingFreed
<1> QED
  BY <1>1, <1>2, <1>3, <1>4, <1>5, <1>6, <1>7, <1>8 DEF IdsNext


\* At startup: the sizes, the marks and the next id that the stored ids give.
LEMMA IdsInitFacts ==
    ASSUME IdsInit
    PROVE  TypeInv /\ SizeInv /\ MarkInv /\ LowInv
<1>1. PICK stored \in SUBSET (1..MaxStored) : LoadInstances(stored)
  BY DEF IdsInit
<1>2. /\ MaxId \in Nat /\ MaxStored \in 0..MaxId /\ MaxStored \in Nat /\ stored \subseteq 0..MaxStored
      /\ stored \subseteq 1..MaxId /\ 1..MaxId \subseteq Ids
      /\ Chunk \in Nat \ {0} /\ Word \in Nat \ {0}
  BY <1>1, SizeAssumption DEF Ids
<1>3. /\ battles = {} /\ raced = FALSE /\ freeing = [t \in Threads |-> Idle] /\ collided = {}
      /\ dungeons = stored /\ Live = stored /\ orphans = {} /\ Kept = stored /\ used = {i \in stored : i < size}
  BY <1>1 DEF IdsInit, LoadInstances, Live, Kept
<1>4. /\ size \in Nat /\ size % Chunk = 0
      /\ \A i \in stored : i <= size /\ (Odd(i) => i < size)
  <2>1. CASE stored = {}
    BY <1>1, <1>2, <2>1 DEF LoadInstances
  <2>2. CASE stored # {}
    <3>1. PICK m : m = Max(stored)
      OBVIOUS
    <3>2. m \in stored /\ m \in Nat /\ \A i \in stored : i \in Nat /\ i <= m
      <4>1. stored \in SUBSET (0..MaxStored) /\ MaxStored \in Nat
        BY <1>2
      <4>2. Max(stored) \in stored /\ \A i \in stored : i <= Max(stored)
        BY <2>2, <4>1, MaxFacts
      <4>3. \A i \in stored : i \in Nat
        BY <4>1
      <4> QED
        BY <3>1, <4>2, <4>3
    <3>3. size = RoundUp(m, Chunk)
      BY <1>1, <2>2, <3>1 DEF LoadInstances, SizeFor
    <3>4. /\ size \in Nat /\ m <= size /\ size % Chunk = 0
          /\ m % Chunk # 0 => m < size
      BY <1>2, <3>2, <3>3, RoundUpFacts
    <3>5. ASSUME NEW i \in stored PROVE i <= size /\ (Odd(i) => i < size)
      <4>1. i \in Nat /\ i <= m
        BY <3>2
      <4>2. i = m \/ i < m
        BY <3>2, <4>1
      <4> QED
        BY <3>2, <3>4, <4>1, <4>2 DEF Odd
    <3> QED
      BY <3>4, <3>5
  <2> QED
    BY <2>1, <2>2
<1>5. capacity \in Nat /\ size <= capacity /\ capacity % Chunk = 0
  BY <1>1, <1>2, <1>4, RoundUpFacts, WordsAreChunks DEF LoadInstances
<1>6. /\ next \in 1..(MaxStored + 1) /\ next \notin stored
      /\ \A i \in 1..(MaxStored + 1) : i \notin stored => next <= i
  <2>1. /\ (1..(MaxStored + 1)) \ stored \in SUBSET Nat
        /\ MaxStored + 1 \in (1..(MaxStored + 1)) \ stored
    BY <1>2
  <2>2. next = Min((1..(MaxStored + 1)) \ stored)
    BY <1>1 DEF LoadInstances
  <2> QED
    BY <2>1, <2>2, MinFacts
<1>7. next <= size + 1
  <2>1. SUFFICES ASSUME size + 1 < next PROVE FALSE
    BY <1>2, <1>4, <1>6
  <2>2. size + 1 \in 1..(MaxStored + 1) /\ ~(next <= size + 1)
    BY <1>2, <1>4, <1>6, <2>1
  <2>3. size + 1 \in stored
    BY <1>6, <2>2
  <2> QED
    BY <1>4, <2>3
<1>8. \A t \in Threads : ~Frees(t)
  BY <1>3 DEF Frees
<1>9. used \subseteq Marks
  BY <1>2, <1>3, <1>4 DEF Marks
<1>10. TypeInv
  <2>1. FreeingInv
    BY <1>3, <1>8 DEF FreeingInv, FreeingType
  <2>2. used \subseteq 0..(size - 1) /\ next \in 1..(MaxId + 1)
    BY <1>2, <1>6, <1>9 DEF Marks
  <2>3. freeing \in [Threads ->
            {Idle}
            \cup [step : {"setNext", "read"}, id : Ids]
            \cup [step : {"write"}, id : Ids, word : SUBSET Ids]]
    BY <1>3
  <2> QED
    BY <1>2, <1>3, <1>4, <1>5, <1>9, <2>1, <2>2, <2>3 DEF TypeInv, IdsTypeOK
<1>11. SizeInv
  <2>1. Kept \subseteq 0..size
    BY <1>2, <1>3, <1>4
  <2> QED
    BY <1>4, <1>5, <1>7, <1>8, <2>1 DEF SizeInv
<1>12. MarkInv
  BY <1>3, <1>4, <1>6, <1>8 DEF MarkInv, CollidesOnlyAtChunk
<1>13. LowInv
  <2>1. ASSUME NEW id \in 1..MaxId, id \notin Kept
        PROVE  id = next \/ (next < id /\ id \notin used)
    <3>1. id \in 1..(MaxStored + 1) => next <= id
      BY <1>3, <1>6, <2>1
    <3> QED
      BY <1>2, <1>3, <1>6, <2>1, <3>1
  <2> QED
    BY <1>3, <1>6, <1>8, <2>1 DEF LowInv
<1> QED
  BY <1>10, <1>11, <1>12, <1>13

IdsInv == TypeInv /\ SizeInv /\ MarkInv /\ (~raced => LowInv)

LEMMA IdsInvariant == IdsSpec => []IdsInv
<1>1. IdsInit => IdsInv
  BY IdsInitFacts DEF IdsInv
<1>2. IdsInv /\ [IdsNext]_idsVars => IdsInv'
  BY IdsTypeStep, SizeStep, MarkStep, LowStep DEF IdsInv
<1> QED
  BY <1>1, <1>2, PTL DEF IdsSpec

\* Types, with the marks inside the vector and the vector inside its memory.
THEOREM InstanceIdsTypeCorrect == IdsSpec => []IdsTypeOK
<1>1. IdsInv => IdsTypeOK
  BY DEF IdsInv, TypeInv
<1> QED
  BY <1>1, IdsInvariant, PTL

\* Whatever map threads do side by side, only a multiple of the chunk can be
\* handed out while somebody holds it.
THEOREM OnlyMultiplesCollide == IdsSpec => []CollidesOnlyAtChunk
<1>1. IdsInv => CollidesOnlyAtChunk
  BY DEF IdsInv, MarkInv
<1> QED
  BY <1>1, IdsInvariant, PTL

\* As long as no two threads have freed ids at once, every id that nobody holds
\* is the next one or will be found by the scan, but for those whose save was
\* deleted and that were not freed (_ResetOrWarnAll): they stay marked.
THEOREM FreedIdsComeBack == IdsSpec => []NextIsLowest
<1>1. IdsInv => NextIsLowest
  BY DEF IdsInv, LowInv, NextIsLowest, BeingFreed, WorldRuns, Frees
<1> QED
  BY <1>1, IdsInvariant, PTL
=============================================================================
