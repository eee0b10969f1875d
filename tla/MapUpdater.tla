----------------------------- MODULE MapUpdater -----------------------------
(***************************************************************************)
(* One tick of the world: MapManager::Update hands every base map to the   *)
(* pool of map threads, a map thread that updates an instanced map hands   *)
(* on the instances below it, the world thread waits on m_condition until  *)
(* pending_requests is zero, and only then runs DelayedUpdate on all maps. *)
(* Shutdown deletes the maps and then stops the pool.                      *)
(*                                                                         *)
(* schedule_update, wait and update_finished run under m_mutex and are     *)
(* atomic steps here; the world thread's sleep inside m_condition.wait()   *)
(* is a state of its own (worldPc = "asleep") that only a broadcast ends.  *)
(***************************************************************************)
EXTENDS ActivationQueue, FiniteSets

CONSTANTS
    Continents,     \* base maps without instances
    Dungeons,       \* base maps of class MapInstanced
    Instances,      \* instance maps that may be created under a dungeon
    ParentOf,       \* the MapInstanced that owns an instance
    NoMap           \* a map thread that is not in any Update

Workers == Readers
BaseMaps == Continents \cup Dungeons
Maps == BaseMaps \cup Instances

ASSUME MapAssumption ==
    /\ Continents \cap Dungeons = {}
    /\ BaseMaps \cap Instances = {}
    /\ ParentOf \in [Instances -> Dungeons]
    /\ IsFiniteSet(Workers)
    /\ NoMap \notin Maps

VARIABLES
    worldPc,        \* what the world thread is doing
    toSchedule,     \* base maps the scheduling loop has yet to reach
    loaded,         \* m_InstancedMaps of all dungeons together
    pending,        \* pending_requests
    workerPc,       \* what each map thread is doing
    current,        \* the map whose Update a map thread is in
    toVisit,        \* instances the loop of MapInstanced::Update has yet to reach
    updated,        \* history: maps whose Update ran in this tick
    skipped         \* history: maps not scheduled in this tick

worldVars == <<worldPc, toSchedule>>
workerVars == <<workerPc, current, toVisit>>
tickVars == <<updated, skipped>>
vars == <<queueVars, worldVars, loaded, pending, workerVars, tickVars>>

TypeOK ==
    /\ QueueTypeOK(Maps)
    /\ worldPc \in {"idle", "scheduling", "waiting", "asleep", "delayed",
                    "unloaded", "joining", "stopped"}
    /\ toSchedule \in SUBSET BaseMaps
    /\ loaded \in SUBSET Instances
    /\ pending \in Nat
    /\ workerPc \in [Workers -> {"dequeue", "updating", "instances", "exit"}]
    /\ current \in [Workers -> Maps \cup {NoMap}]
    /\ \A w \in Workers : workerPc[w] \in {"updating", "instances"} => current[w] \in Maps
    /\ toVisit \in [Workers -> SUBSET Instances]
    /\ updated \in SUBSET Maps
    /\ skipped \in SUBSET Maps

Init ==
    /\ QueueInit
    /\ worldPc = "idle"
    /\ toSchedule = {}
    /\ loaded = {}
    /\ pending = 0
    /\ workerPc = [w \in Workers |-> "dequeue"]
    /\ current = [w \in Workers |-> NoMap]
    /\ toVisit = [w \in Workers |-> {}]
    /\ updated = {}
    /\ skipped = {}

-----------------------------------------------------------------------------
(* The world thread.                                                       *)

\* A session handled between two map ticks opens a new instance.
CreateInstance(i) ==
    /\ worldPc = "idle"
    /\ i \notin loaded
    /\ loaded' = loaded \cup {i}
    /\ UNCHANGED <<queueVars, worldVars, pending, workerVars, tickVars>>

\* i_timer.Passed(): the loop over i_maps begins.
BeginUpdate ==
    /\ worldPc = "idle"
    /\ worldPc' = "scheduling"
    /\ toSchedule' = BaseMaps
    /\ updated' = {}
    /\ skipped' = {}
    /\ UNCHANGED <<queueVars, loaded, pending, workerVars>>

\* schedule_update(): count the request, enqueue it, take the count back when
\* the executor refuses it. The map is then simply not updated in this tick.
ScheduleUpdate(m) ==
    \/ /\ Enqueue(m)
       /\ pending' = pending + 1
       /\ UNCHANGED skipped
    \/ /\ ~CanEnqueue
       /\ skipped' = skipped \cup {m}
       /\ UNCHANGED <<queueVars, pending>>

ScheduleBaseMap(m) ==
    /\ worldPc = "scheduling"
    /\ m \in toSchedule
    /\ ScheduleUpdate(m)
    /\ toSchedule' = toSchedule \ {m}
    /\ UNCHANGED <<worldPc, loaded, workerVars, updated>>

AllScheduled ==
    /\ worldPc = "scheduling"
    /\ toSchedule = {}
    /\ worldPc' = "waiting"
    /\ UNCHANGED <<queueVars, toSchedule, loaded, pending, workerVars, tickVars>>

\* MapUpdater::wait(): sleep while requests are pending, checked again after
\* every broadcast.
Wait ==
    /\ worldPc = "waiting"
    /\ worldPc' = IF pending > 0 THEN "asleep" ELSE "delayed"
    /\ UNCHANGED <<queueVars, toSchedule, loaded, pending, workerVars, tickVars>>

\* DelayedUpdate of every map, then ObjectAccessor and the transports.
DelayedUpdate ==
    /\ worldPc = "delayed"
    /\ worldPc' = "idle"
    /\ UNCHANGED <<queueVars, toSchedule, loaded, pending, workerVars, tickVars>>

\* MapManager::UnloadAll() deletes every map, instances included.
UnloadAll ==
    /\ worldPc = "idle"
    /\ loaded' = {}
    /\ worldPc' = "unloaded"
    /\ UNCHANGED <<queueVars, toSchedule, pending, workerVars, tickVars>>

\* MapUpdater::deactivate(): its wait() finds nothing pending, then the queue
\* is deactivated and the threads are joined.
DeactivateUpdater ==
    /\ worldPc = "unloaded"
    /\ pending = 0
    /\ Deactivate
    /\ worldPc' = "joining"
    /\ UNCHANGED <<toSchedule, loaded, pending, workerVars, tickVars>>

JoinWorkers ==
    /\ worldPc = "joining"
    /\ \A w \in Workers : workerPc[w] = "exit"
    /\ worldPc' = "stopped"
    /\ UNCHANGED <<queueVars, toSchedule, loaded, pending, workerVars, tickVars>>

-----------------------------------------------------------------------------
(* The map threads: DelayExecutor::svc().                                  *)

\* Mutant: the request is gone before call() runs on it.
TakeRequest_Deleted(w) ==
    /\ workerPc[w] = "dequeue"
    /\ Dequeue(w)
    /\ workerPc' = [workerPc EXCEPT ![w] = "updating"]
    /\ UNCHANGED <<worldVars, loaded, pending, current, toVisit, tickVars>>

TakeRequest(w) ==
    /\ workerPc[w] = "dequeue"
    /\ Dequeue(w)
    /\ workerPc' = [workerPc EXCEPT ![w] = "updating"]
    /\ current' = [current EXCEPT ![w] = Head(queue)]
    /\ UNCHANGED <<worldVars, loaded, pending, toVisit, tickVars>>

AwaitRequest(w) ==
    /\ workerPc[w] = "dequeue"
    /\ DequeueSleep(w)
    /\ UNCHANGED <<worldVars, loaded, pending, workerVars, tickVars>>

\* dequeue() returned 0: svc() breaks out of its loop.
LeaveService(w) ==
    /\ workerPc[w] = "dequeue"
    /\ DequeueFails(w)
    /\ workerPc' = [workerPc EXCEPT ![w] = "exit"]
    /\ UNCHANGED <<worldVars, loaded, pending, current, toVisit, tickVars>>

\* Mutant: a MapInstanced does no more than Map::Update.
UpdateMap_NoInstances(w) ==
    /\ workerPc[w] = "updating"
    /\ updated' = updated \cup {current[w]}
    /\ workerPc' = [workerPc EXCEPT ![w] = "instances"]
    /\ UNCHANGED <<queueVars, worldVars, loaded, pending, current, toVisit, skipped>>

\* Map::Update. A MapInstanced goes on with the loop over its instances.
UpdateMap(w) ==
    /\ workerPc[w] = "updating"
    /\ updated' = updated \cup {current[w]}
    /\ workerPc' = [workerPc EXCEPT ![w] = "instances"]
    /\ toVisit' = [toVisit EXCEPT ![w] =
                      {i \in loaded : ParentOf[i] = current[w]}]
    /\ UNCHANGED <<queueVars, worldVars, loaded, pending, current, skipped>>

\* Mutant: the iterator is not advanced past a scheduled instance.
VisitInstance_SameAgain(w, i) ==
    /\ workerPc[w] = "instances"
    /\ i \in toVisit[w]
    /\ ScheduleUpdate(i)
    /\ UNCHANGED <<worldVars, loaded, workerPc, current, toVisit, updated>>

\* The instance cannot be unloaded yet: its update is scheduled.
VisitInstance(w, i) ==
    /\ workerPc[w] = "instances"
    /\ i \in toVisit[w]
    /\ toVisit' = [toVisit EXCEPT ![w] = @ \ {i}]
    /\ ScheduleUpdate(i)
    /\ UNCHANGED <<worldVars, loaded, workerPc, current, updated>>

\* Mutant: the update is scheduled before the check that deletes the instance.
UnloadInstance_AfterSchedule(w, i) ==
    /\ workerPc[w] = "instances"
    /\ i \in toVisit[w]
    /\ toVisit' = [toVisit EXCEPT ![w] = @ \ {i}]
    /\ ScheduleUpdate(i)
    /\ loaded' = loaded \ {i}
    /\ UNCHANGED <<worldVars, workerPc, current, updated>>

\* CanUnload(t): DestroyInstance deletes the instance, or keeps it when
\* RemoveAllPlayers could not empty it. Either way it is not scheduled.
UnloadInstance(w, i) ==
    /\ workerPc[w] = "instances"
    /\ i \in toVisit[w]
    /\ toVisit' = [toVisit EXCEPT ![w] = @ \ {i}]
    /\ \/ loaded' = loaded \ {i} /\ UNCHANGED skipped
       \/ skipped' = skipped \cup {i} /\ UNCHANGED loaded
    /\ UNCHANGED <<queueVars, worldVars, pending, workerPc, current, updated>>

\* Mutant: the woken waiter does not look at the count again.
UpdateFinished_WaitOnce(w) ==
    /\ workerPc[w] = "instances"
    /\ toVisit[w] = {}
    /\ workerPc' = [workerPc EXCEPT ![w] = "dequeue"]
    /\ current' = [current EXCEPT ![w] = NoMap]
    /\ pending' = pending - 1
    /\ worldPc' = IF worldPc = "asleep" THEN "delayed" ELSE worldPc
    /\ UNCHANGED <<queueVars, toSchedule, loaded, toVisit, tickVars>>

\* Mutant: the count drops and nobody is woken.
UpdateFinished_NoBroadcast(w) ==
    /\ workerPc[w] = "instances"
    /\ toVisit[w] = {}
    /\ workerPc' = [workerPc EXCEPT ![w] = "dequeue"]
    /\ current' = [current EXCEPT ![w] = NoMap]
    /\ pending' = pending - 1
    /\ UNCHANGED <<queueVars, worldVars, loaded, toVisit, tickVars>>

\* update_finished(): a count of zero is reported as a bug and nothing else
\* happens; otherwise the count drops and the waiter is woken.
UpdateFinished(w) ==
    /\ workerPc[w] = "instances"
    /\ toVisit[w] = {}
    /\ workerPc' = [workerPc EXCEPT ![w] = "dequeue"]
    /\ current' = [current EXCEPT ![w] = NoMap]
    /\ IF pending = 0
       THEN UNCHANGED <<pending, worldPc>>
       ELSE /\ pending' = pending - 1
            /\ worldPc' = IF worldPc = "asleep" THEN "waiting" ELSE worldPc
    /\ UNCHANGED <<queueVars, toSchedule, loaded, toVisit, tickVars>>

-----------------------------------------------------------------------------
WorldNext ==
    \/ \E i \in Instances : CreateInstance(i)
    \/ BeginUpdate
    \/ \E m \in BaseMaps : ScheduleBaseMap(m)
    \/ AllScheduled
    \/ Wait
    \/ DelayedUpdate
    \/ UnloadAll
    \/ DeactivateUpdater
    \/ JoinWorkers

WorkerNext(w) ==
    \/ TakeRequest(w)
    \/ AwaitRequest(w)
    \/ LeaveService(w)
    \/ UpdateMap(w)
    \/ \E i \in Instances : VisitInstance(w, i) \/ UnloadInstance(w, i)
    \/ UpdateFinished(w)

Stopped == worldPc = "stopped" /\ UNCHANGED vars

Next == WorldNext \/ (\E w \in Workers : WorkerNext(w)) \/ Stopped

\* A thread that can run runs: the world thread finishes the tick it is in
\* (it need not start another), and every map thread keeps serving.
Fairness ==
    /\ WF_vars((\E m \in BaseMaps : ScheduleBaseMap(m)) \/ AllScheduled \/ Wait
               \/ DelayedUpdate \/ DeactivateUpdater \/ JoinWorkers)
    /\ \A w \in Workers : WF_vars(WorkerNext(w))

Spec == Init /\ [][Next]_vars /\ Fairness

-----------------------------------------------------------------------------
Busy == {w \in Workers : workerPc[w] \in {"updating", "instances"}}
Queued == {queue[k] : k \in DOMAIN queue}
InFlight == Queued \cup {current[w] : w \in Busy}
Quiet == worldPc \in {"idle", "delayed", "unloaded", "joining", "stopped"}

\* The barrier of MapManager::Update: outside the interval between scheduling
\* and the end of wait() no map update is queued or running, so sessions,
\* DelayedUpdate, the transports and UnloadAll have every map to themselves.
Barrier == Quiet => InFlight = {}

\* No request and no running update refers to an instance that has been
\* deleted by DestroyInstance or UnloadAll.
NoDeletedMapInUse == InFlight \cap Instances \subseteq loaded

\* Two map threads are never in Update of the same map, nor is a map queued
\* again while it is being updated or already waiting.
OneUpdatePerMap ==
    /\ \A j, k \in DOMAIN queue : queue[j] = queue[k] => j = k
    /\ \A v, w \in Busy : current[v] = current[w] => v = w
    /\ \A w \in Busy : current[w] \notin Queued

\* When the tick ends every base map and every living instance was updated in
\* it, except the ones the executor or the unload timer kept out and the
\* instances of a dungeon that was itself kept out.
TickIsComplete ==
    worldPc = "delayed" =>
        \A m \in BaseMaps \cup loaded :
            \/ m \in updated \cup skipped
            \/ m \in Instances /\ ParentOf[m] \in skipped

\* pending_requests counts exactly the requests that are queued or running, so
\* update_finished never meets the count of zero it reports as a bug.
PendingIsExact == pending = Len(queue) + Cardinality(Busy)

\* The world thread always comes back. A tick that began ends: wait() is woken,
\* whatever the executor refuses and however many instances are created or
\* destroyed. And shutdown joins every map thread.
WorldThreadReturns ==
    /\ worldPc = "scheduling" ~> worldPc = "idle"
    /\ worldPc = "unloaded" ~> worldPc = "stopped"
=============================================================================
