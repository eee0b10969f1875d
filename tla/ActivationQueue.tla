-------------------------- MODULE ActivationQueue --------------------------
(***************************************************************************)
(* The ACE_Activation_Queue that feeds every worker pool of the server     *)
(* (map updater, database delay threads, log worker): a FIFO of method     *)
(* requests over an ACE_Message_Queue with a high-water mark, a condition  *)
(* variable for readers, and a state that deactivate() or close() ends.    *)
(*                                                                         *)
(* Every operation below runs under the queue's own lock_, so each one is  *)
(* an atomic step; what is not atomic is a reader's wait on                *)
(* not_empty_cond_, which is why a reader that finds the queue empty is    *)
(* put to sleep and looks at the queue again after it has been signalled.  *)
(* All requests have the same priority, so enqueue_prio is FIFO.           *)
(***************************************************************************)
EXTENDS Naturals, Sequences

CONSTANTS
    Readers,        \* the worker threads that call dequeue()
    HighWaterMark   \* requests at which is_full_i() holds

ASSUME HighWaterMarkAssumption == HighWaterMark \in Nat \ {0}

VARIABLES
    queue,          \* the requests, head first
    activated,      \* state_ = ACTIVATED
    sleepers        \* readers inside not_empty_cond_.wait()

queueVars == <<queue, activated, sleepers>>

QueueTypeOK(Request) ==
    /\ queue \in Seq(Request)
    /\ activated \in BOOLEAN
    /\ sleepers \in SUBSET Readers

QueueInit ==
    /\ queue = << >>
    /\ activated = TRUE
    /\ sleepers = {}

\* signal() wakes one sleeper if there is one.
SignalDequeueWaiters ==
    IF sleepers = {} THEN sleepers' = {}
                     ELSE \E r \in sleepers : sleepers' = sleepers \ {r}

\* Room for a request. With a timeout of zero a full queue refuses the request
\* at once, without a timeout the caller waits for room.
CanEnqueue == activated /\ Len(queue) < HighWaterMark

\* Mutant: no reader is woken.
Enqueue_NoSignal(request) ==
    /\ CanEnqueue
    /\ queue' = Append(queue, request)
    /\ UNCHANGED <<activated, sleepers>>

Enqueue(request) ==
    /\ CanEnqueue
    /\ queue' = Append(queue, request)
    /\ SignalDequeueWaiters
    /\ UNCHANGED activated

\* dequeue_head() hands out the oldest request ...
Dequeue(r) ==
    /\ r \notin sleepers
    /\ activated
    /\ queue # << >>
    /\ queue' = Tail(queue)
    /\ UNCHANGED <<activated, sleepers>>

\* ... sleeps while there is none ...
DequeueSleep(r) ==
    /\ r \notin sleepers
    /\ activated
    /\ queue = << >>
    /\ sleepers' = sleepers \cup {r}
    /\ UNCHANGED <<queue, activated>>

\* ... and returns an error once the queue is deactivated.
DequeueFails(r) ==
    /\ r \notin sleepers
    /\ ~activated
    /\ UNCHANGED queueVars

\* deactivate() wakes every sleeper and keeps the requests.
Deactivate ==
    /\ activated' = FALSE
    /\ sleepers' = {}
    /\ UNCHANGED queue

\* close() does the same and then discards the requests still in the queue.
Close ==
    /\ activated' = FALSE
    /\ sleepers' = {}
    /\ queue' = << >>
=============================================================================
