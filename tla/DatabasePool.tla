---------------------------- MODULE DatabasePool ----------------------------
(***************************************************************************)
(* A DatabaseWorkerPool: threads of the server hand delayed operations     *)
(* (statements, transactions, queries with a future) to a queue that       *)
(* worker threads empty, each over a connection of its own, and execute    *)
(* direct operations themselves on a synchronous connection that they      *)
(* lock. Close() ends the workers once the other threads are gone.         *)
(*                                                                         *)
(* The queue signals one waiting caller for each request taken out of it   *)
(* (its low-water mark is its high-water mark), so a caller that waits in  *)
(* enqueue() is one whose step is enabled again when there is room.        *)
(***************************************************************************)
EXTENDS ActivationQueue, FiniteSets

CONSTANTS
    Callers,        \* threads that use the pool
    WorldThread,    \* the one that keeps the connections alive
    Connections,    \* how many synchronous connections there are
    MaxOps,         \* bound: delayed, and direct, operations of a caller
    NoOp            \* a worker that executes nothing

Workers == Readers
Op == Callers \X (1..MaxOps)

ASSUME PoolAssumption ==
    /\ IsFiniteSet(Workers)
    /\ WorldThread \in Callers
    /\ Connections \in Nat \ {0}
    /\ MaxOps \in Nat
    /\ NoOp \notin Op

VARIABLES
    callerPc,       \* what each caller is doing in the pool
    probe,          \* the synchronous connection a caller tries next
    locked,         \* connections whose m_Mutex is taken
    using,          \* history: the connections whose handle a caller is in
    toEnqueue,      \* requests a caller has yet to enqueue before it returns
    delayed,        \* how many delayed operations a caller has enqueued
    direct,         \* how many direct operations a caller has begun
    workerPc,       \* what each worker is doing
    request,        \* the operation a worker executes
    submitted,      \* history: the operations enqueued, in their order
    executed,       \* history: how often each was executed
    poolPc          \* open, joining the workers, or closed

callerVars == <<callerPc, probe, locked, using, toEnqueue, delayed, direct>>
workerVars == <<workerPc, request>>
vars == <<queueVars, callerVars, workerVars, submitted, executed, poolPc>>

ConnectionIds == 0..(Connections - 1)

TypeOK ==
    /\ QueueTypeOK(Op)
    /\ callerPc \in [Callers -> {"ready", "enqueue", "seek", "direct", "ping", "pinged", "gone"}]
    /\ probe \in [Callers -> 0..Connections]
    /\ locked \subseteq ConnectionIds
    /\ using \in [Callers -> SUBSET ConnectionIds]
    /\ toEnqueue \in [Callers -> Nat]
    /\ delayed \in [Callers -> 0..MaxOps]
    /\ direct \in [Callers -> 0..MaxOps]
    /\ workerPc \in [Workers -> {"dequeue", "execute", "exit"}]
    /\ request \in [Workers -> Op \cup {NoOp}]
    /\ submitted \in Seq(Op)
    /\ executed \in [Op -> Nat]
    /\ poolPc \in {"open", "joining", "closed"}

Init ==
    /\ QueueInit
    /\ callerPc = [c \in Callers |-> "ready"]
    /\ probe = [c \in Callers |-> 0]
    /\ locked = {}
    /\ using = [c \in Callers |-> {}]
    /\ toEnqueue = [c \in Callers |-> 0]
    /\ delayed = [c \in Callers |-> 0]
    /\ direct = [c \in Callers |-> 0]
    /\ workerPc = [w \in Workers |-> "dequeue"]
    /\ request = [w \in Workers |-> NoOp]
    /\ submitted = << >>
    /\ executed = [o \in Op |-> 0]
    /\ poolPc = "open"

-----------------------------------------------------------------------------
(* Delayed operations.                                                     *)

\* Execute, AsyncQuery, DelayQueryHolder and CommitTransaction: one request.
Delay(c) ==
    /\ callerPc[c] = "ready"
    /\ delayed[c] < MaxOps
    /\ callerPc' = [callerPc EXCEPT ![c] = "enqueue"]
    /\ toEnqueue' = [toEnqueue EXCEPT ![c] = 1]
    /\ UNCHANGED <<queueVars, probe, locked, using, delayed, direct, workerVars,
                   submitted, executed, poolPc>>

\* Enqueue() has no timeout: the caller waits for as long as the queue is full.
EnqueueRequest(c) ==
    LET op == <<c, delayed[c] + 1>> IN
    /\ callerPc[c] = "enqueue"
    /\ Enqueue(op)
    /\ submitted' = Append(submitted, op)
    /\ delayed' = [delayed EXCEPT ![c] = @ + 1]
    /\ toEnqueue' = [toEnqueue EXCEPT ![c] = @ - 1]
    /\ callerPc' = [callerPc EXCEPT ![c] = IF toEnqueue[c] = 1 THEN "ready" ELSE "enqueue"]
    /\ UNCHANGED <<probe, locked, using, direct, workerVars, executed, poolPc>>

-----------------------------------------------------------------------------
(* Direct operations.                                                      *)

\* The first connection tried is the second one: ++i % num_cons.
After(i) == (i + 1) % Connections

StartDirect(c) ==
    /\ callerPc[c] = "ready"
    /\ direct[c] < MaxOps
    /\ callerPc' = [callerPc EXCEPT ![c] = "seek"]
    /\ probe' = [probe EXCEPT ![c] = After(0)]
    /\ direct' = [direct EXCEPT ![c] = @ + 1]
    /\ UNCHANGED <<queueVars, locked, using, toEnqueue, delayed, workerVars,
                   submitted, executed, poolPc>>

\* Mutant: the mutex is taken without looking whether it is free.
LockIfReady_Always(c) ==
    /\ locked' = locked \cup {probe[c]}
    /\ using' = [using EXCEPT ![c] = @ \cup {probe[c]}]

LockIfReady(c) ==
    /\ probe[c] \notin locked
    /\ locked' = locked \cup {probe[c]}
    /\ using' = [using EXCEPT ![c] = @ \cup {probe[c]}]

\* GetFreeConnection: try one connection after the other, for ever.
GetFreeConnection(c) ==
    /\ callerPc[c] = "seek"
    /\ \/ /\ LockIfReady(c)
          /\ callerPc' = [callerPc EXCEPT ![c] = "direct"]
          /\ UNCHANGED probe
       \/ /\ probe[c] \in locked
          /\ probe' = [probe EXCEPT ![c] = After(@)]
          /\ UNCHANGED <<callerPc, locked, using>>
    /\ UNCHANGED <<queueVars, toEnqueue, delayed, direct, workerVars,
                   submitted, executed, poolPc>>

Unlock(c) ==
    /\ locked' = locked \ {probe[c]}
    /\ using' = [using EXCEPT ![c] = @ \ {probe[c]}]

\* The statement, query or transaction has been executed.
FinishDirect(c) ==
    /\ callerPc[c] = "direct"
    /\ Unlock(c)
    /\ callerPc' = [callerPc EXCEPT ![c] = "ready"]
    /\ UNCHANGED <<queueVars, probe, toEnqueue, delayed, direct, workerVars,
                   submitted, executed, poolPc>>

-----------------------------------------------------------------------------
(* KeepAlive: ping each synchronous connection that is free, then have the *)
(* workers execute a ping each.                                            *)

KeepAlive ==
    LET c == WorldThread IN
    /\ callerPc[c] = "ready"
    /\ delayed[c] + Cardinality(Workers) <= MaxOps
    /\ callerPc' = [callerPc EXCEPT ![c] = "ping"]
    /\ probe' = [probe EXCEPT ![c] = 0]
    /\ UNCHANGED <<queueVars, locked, using, toEnqueue, delayed, direct, workerVars,
                   submitted, executed, poolPc>>

\* Mutant: the loop goes one connection too far.
Ping_OneMore ==
    LET c == WorldThread IN
    /\ callerPc[c] = "ping"
    /\ probe[c] <= Connections
    /\ \/ /\ LockIfReady(c)
          /\ callerPc' = [callerPc EXCEPT ![c] = "pinged"]
          /\ UNCHANGED probe
       \/ /\ probe[c] \in locked
          /\ probe' = [probe EXCEPT ![c] = @ + 1]
          /\ UNCHANGED <<callerPc, locked, using>>
    /\ UNCHANGED <<queueVars, toEnqueue, delayed, direct, workerVars,
                   submitted, executed, poolPc>>

Ping ==
    LET c == WorldThread IN
    /\ callerPc[c] = "ping"
    /\ probe[c] < Connections
    /\ \/ /\ LockIfReady(c)
          /\ callerPc' = [callerPc EXCEPT ![c] = "pinged"]
          /\ UNCHANGED probe
       \/ /\ probe[c] \in locked
          /\ probe' = [probe EXCEPT ![c] = @ + 1]
          /\ UNCHANGED <<callerPc, locked, using>>
    /\ UNCHANGED <<queueVars, toEnqueue, delayed, direct, workerVars,
                   submitted, executed, poolPc>>

Pinged ==
    LET c == WorldThread IN
    /\ callerPc[c] = "pinged"
    /\ Unlock(c)
    /\ callerPc' = [callerPc EXCEPT ![c] = "ping"]
    /\ probe' = [probe EXCEPT ![c] = @ + 1]
    /\ UNCHANGED <<queueVars, toEnqueue, delayed, direct, workerVars,
                   submitted, executed, poolPc>>

PingWorkers ==
    LET c == WorldThread IN
    /\ callerPc[c] = "ping"
    /\ probe[c] = Connections
    /\ toEnqueue' = [toEnqueue EXCEPT ![c] = Cardinality(Workers)]
    /\ callerPc' = [callerPc EXCEPT ![c] = IF Workers = {} THEN "ready" ELSE "enqueue"]
    /\ UNCHANGED <<queueVars, probe, locked, using, delayed, direct, workerVars,
                   submitted, executed, poolPc>>

-----------------------------------------------------------------------------
(* DatabaseWorker::svc.                                                    *)

\* Mutant: the newest request is taken.
TakeRequest_Newest(w) ==
    /\ workerPc[w] = "dequeue"
    /\ w \notin sleepers /\ activated /\ queue # << >>
    /\ queue' = SubSeq(queue, 1, Len(queue) - 1)
    /\ request' = [request EXCEPT ![w] = queue[Len(queue)]]
    /\ workerPc' = [workerPc EXCEPT ![w] = "execute"]
    /\ UNCHANGED <<activated, sleepers, callerVars, submitted, executed, poolPc>>

TakeRequest(w) ==
    /\ workerPc[w] = "dequeue"
    /\ Dequeue(w)
    /\ request' = [request EXCEPT ![w] = Head(queue)]
    /\ workerPc' = [workerPc EXCEPT ![w] = "execute"]
    /\ UNCHANGED <<callerVars, submitted, executed, poolPc>>

WaitForRequest(w) ==
    /\ workerPc[w] = "dequeue"
    /\ DequeueSleep(w)
    /\ UNCHANGED <<callerVars, workerVars, submitted, executed, poolPc>>

\* call() and delete.
Call(w) ==
    /\ workerPc[w] = "execute"
    /\ executed' = [executed EXCEPT ![request[w]] = @ + 1]
    /\ request' = [request EXCEPT ![w] = NoOp]
    /\ workerPc' = [workerPc EXCEPT ![w] = "dequeue"]
    /\ UNCHANGED <<queueVars, callerVars, submitted, poolPc>>

WorkerExits(w) ==
    /\ workerPc[w] = "dequeue"
    /\ DequeueFails(w)
    /\ workerPc' = [workerPc EXCEPT ![w] = "exit"]
    /\ UNCHANGED <<callerVars, request, submitted, executed, poolPc>>

-----------------------------------------------------------------------------
(* Shutdown.                                                               *)

\* The thread ends, when it is in no call of the pool.
Leave(c) ==
    /\ callerPc[c] = "ready"
    /\ callerPc' = [callerPc EXCEPT ![c] = "gone"]
    /\ UNCHANGED <<queueVars, probe, locked, using, toEnqueue, delayed, direct,
                   workerVars, submitted, executed, poolPc>>

\* _queue->queue()->close(), after the other threads have ended.
ClosePool ==
    /\ poolPc = "open"
    /\ \A c \in Callers : callerPc[c] = "gone"
    /\ Close
    /\ poolPc' = "joining"
    /\ UNCHANGED <<callerVars, workerVars, submitted, executed>>

\* wait() for each worker, then the connections and the queue are deleted.
WorkersJoined ==
    /\ poolPc = "joining"
    /\ \A w \in Workers : workerPc[w] = "exit"
    /\ poolPc' = "closed"
    /\ UNCHANGED <<queueVars, callerVars, workerVars, submitted, executed>>

Closed == poolPc = "closed" /\ UNCHANGED vars

WorkerStep(w) == TakeRequest(w) \/ WaitForRequest(w) \/ Call(w) \/ WorkerExits(w)

CallerStep(c) ==
    \/ Delay(c)
    \/ EnqueueRequest(c)
    \/ StartDirect(c)
    \/ GetFreeConnection(c)
    \/ FinishDirect(c)
    \/ Leave(c)

KeepAliveStep == KeepAlive \/ Ping \/ Pinged \/ PingWorkers

Next ==
    \/ \E w \in Workers : WorkerStep(w)
    \/ \E c \in Callers : CallerStep(c)
    \/ KeepAliveStep
    \/ ClosePool
    \/ WorkersJoined
    \/ Closed

\* Workers are scheduled, a statement they execute ends, and so does wait().
Fairness == (\A w \in Workers : WF_vars(WorkerStep(w))) /\ WF_vars(WorkersJoined)

Spec == Init /\ [][Next]_vars /\ Fairness

-----------------------------------------------------------------------------
\* A connection's mutex is taken exactly while one caller is inside its handle
\* ("Must be matched with t->Unlock() or you will get deadlocks").
ConnectionsAccounted ==
    /\ locked = UNION {using[c] : c \in Callers}
    /\ \A c, d \in Callers : c # d => using[c] \cap using[d] = {}
    /\ \A c \in Callers : callerPc[c] \in {"ready", "enqueue", "gone"} => using[c] = {}

Holders(o) == {w \in Workers : request[w] = o}
Taken == Len(submitted) - Len(queue)

\* While the pool is open the operations taken out of the queue are the oldest
\* ones, each executed exactly once or in the hands of exactly one worker, and
\* the others wait in the order they were submitted in: none is lost, none is
\* executed twice, and none overtakes another but in the hands of a worker.
DelayedInOrder ==
    activated =>
        \A i \in 1..Len(submitted) :
            LET o == submitted[i] IN
            IF i <= Taken
            THEN \/ executed[o] = 1 /\ Holders(o) = {}
                 \/ executed[o] = 0 /\ \E w \in Workers : Holders(o) = {w}
            ELSE executed[o] = 0 /\ Holders(o) = {} /\ queue[i - Taken] = o

\* Nobody sleeps for ever: a request that waits is taken and executed unless the
\* pool is closed first, and Close(), which joins the workers, returns.
NobodySleepsForEver ==
    /\ \A o \in Op : delayed[o[1]] >= o[2] ~> executed[o] > 0 \/ poolPc # "open"
    /\ poolPc = "joining" ~> poolPc = "closed"

\* "Kick (and save) all players": the saves are delayed transactions, and what
\* was submitted before the pool was closed has been executed when it is.
SubmittedIsSaved ==
    poolPc = "closed" => \A i \in 1..Len(submitted) : executed[submitted[i]] = 1
=============================================================================
