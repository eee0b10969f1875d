-------------------------- MODULE CharacterDatabase --------------------------
(***************************************************************************)
(* The character database as the world thread sees it. A transaction is    *)
(* queued and takes effect when a worker has executed it; a query of the   *)
(* world thread goes past the queue and reads what has taken effect.       *)
(*                                                                         *)
(* Workers take operations from the head of one queue and execute them     *)
(* side by side, each transaction whole: any of the first WorkerThreads    *)
(* operations may be the next to take effect. An operation that overtakes  *)
(* another which has nothing to do with it is followed exactly. Nothing in *)
(* the code keeps operations apart that touch the same rows: when one      *)
(* overtakes the other, overtaken is set, and what is then in the tables   *)
(* is not followed any further.                                            *)
(*                                                                         *)
(* A transaction is represented by the contents it leaves behind: only the *)
(* world thread submits them, and it knows what it has submitted before.   *)
(***************************************************************************)
EXTENDS Integers, SequencesExt

CONSTANTS
    WorkerThreads,  \* CharacterDatabase.WorkerThreads
    MaxQueue        \* bound: operations waiting

ASSUME DatabaseAssumption == WorkerThreads \in Nat \ {0}

VARIABLES
    disk,       \* what the database holds
    queue,      \* operations submitted, in the order in which they take effect
    overtaken   \* two that touch the same rows have changed places

\* What the database will hold after the first n operations that wait.
After(n) ==
    LET commits == {i \in 1..n : queue[i].kind = "commit"} IN
    IF commits = {} THEN disk ELSE queue[Max(commits)].contents

\* What it will hold once the queue is empty.
Planned == After(Len(queue))

HasRoom(n) == Len(queue) + n <= MaxQueue

\* CommitTransaction for each of the transactions, which write the rows of these
\* players and leave these contents.
Commit(by, contents) ==
    /\ HasRoom(Len(contents))
    /\ queue' = queue \o [i \in 1..Len(contents) |->
                            [kind |-> "commit", by |-> by, contents |-> contents[i]]]
    /\ UNCHANGED <<disk, overtaken>>

\* DelayQueryHolder: queries whose answer is handed back later.
DelayQueryHolder(who) ==
    /\ HasRoom(1)
    /\ queue' = Append(queue, [kind |-> "load", for |-> who])
    /\ UNCHANGED <<disk, overtaken>>

\* A worker has executed the transaction that is the next to take effect.
ExecuteTransaction ==
    /\ queue # << >> /\ Head(queue).kind = "commit"
    /\ disk' = Head(queue).contents
    /\ queue' = Tail(queue)
    /\ UNCHANGED overtaken

\* A worker has executed the queries of a holder.
ExecuteQueries(who) ==
    /\ queue # << >> /\ Head(queue).kind = "load" /\ Head(queue).for = who
    /\ queue' = Tail(queue)
    /\ UNCHANGED <<disk, overtaken>>

\* Of two operations that workers have taken the later one is to take effect
\* first, and leaves these contents between them.
Overtake(i, between) ==
    LET leaving(operation, contents) ==
            IF operation.kind = "commit" THEN [operation EXCEPT !.contents = contents]
            ELSE operation
    IN
    /\ i + 1 <= WorkerThreads
    /\ queue' = [queue EXCEPT ![i] = leaving(queue[i + 1], between),
                              ![i + 1] = leaving(queue[i], After(i + 1))]
    /\ UNCHANGED <<disk, overtaken>>

\* The same of two that touch the same rows.
OvertakeInConflict(i) ==
    /\ i + 1 <= WorkerThreads
    /\ overtaken' = TRUE
    /\ UNCHANGED <<disk, queue>>

\* The process ends: what waits is lost.
QueueLost == queue' = << >> /\ UNCHANGED <<disk, overtaken>>
=============================================================================
