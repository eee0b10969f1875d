-------------------------- MODULE MySQLTransaction --------------------------
(***************************************************************************)
(* One MySQLConnection executing transactions, statement by statement,     *)
(* over a server session that may refuse a statement or go away.           *)
(*                                                                         *)
(* ExecuteTransaction sends START TRANSACTION, the appended statements and *)
(* COMMIT, or ROLLBACK after a statement that failed. Each goes through    *)
(* Execute, which on a lost connection reconnects and sends the statement  *)
(* again. The new session has autocommit on and no transaction, and so has *)
(* a session that refused START TRANSACTION.                               *)
(***************************************************************************)
EXTENDS Naturals, FiniteSets

CONSTANTS
    Txns,           \* the transactions to execute
    Size,           \* how many statements were appended to each
    LoopBreaker,    \* 5, attempts after a deadlock
    MaxLosses,      \* bound: how often the server goes away, or will not begin
    NoTxn           \* the connection executes no transaction

ASSUME TransactionAssumption ==
    /\ Size \in [Txns -> Nat]
    /\ LoopBreaker \in Nat \ {0}
    /\ MaxLosses \in Nat
    /\ NoTxn \notin Txns

VARIABLES
    rows,           \* server: how often each statement has taken durable effect
    inTxn,          \* server session: a transaction is open
    uncommitted,    \* server session: the statements of the open transaction
    handle,         \* m_Mysql is not NULL
    errno,          \* mysql_errno(m_Mysql)
    txn,            \* the transaction being executed
    pc,             \* the statement being sent
    k,              \* index of that statement in m_queries
    loop,           \* 0, or the pass through the deadlock loop
    result,         \* what execution of each transaction came to
    abortedBy,      \* history: the error that ended the last attempt at each
    attempts,       \* history: attempts at each transaction
    losses          \* history: how often the server went away, or did not begin

serverVars == <<rows, inTxn, uncommitted>>
clientVars == <<handle, errno>>
execVars == <<txn, pc, k, loop>>
historyVars == <<abortedBy, attempts, losses>>
vars == <<serverVars, clientVars, execVars, result, historyVars>>

Abstract == INSTANCE AtomicTransactions WITH lost <- losses > 0
AllStatements == Abstract!AllStatements
Plus(S) == Abstract!Plus(S)

Errors == {"none", "deadlock", "refused"}

TypeOK ==
    /\ rows \in [AllStatements -> Nat]
    /\ inTxn \in BOOLEAN
    /\ uncommitted \in SUBSET AllStatements
    /\ handle \in BOOLEAN
    /\ errno \in Errors
    /\ txn \in Txns \cup {NoTxn}
    /\ pc \in {"idle", "begin", "statements", "commit", "rollback", "failed"}
    /\ pc # "idle" => txn \in Txns
    /\ k \in Nat
    /\ pc = "statements" => k \in 1..Size[txn]
    /\ loop \in 0..LoopBreaker
    /\ result \in [Txns -> {"waiting", "running", "done", "failed"}]
    /\ abortedBy \in [Txns -> Errors]
    /\ attempts \in [Txns -> Nat]
    /\ losses \in 0..MaxLosses

Init ==
    /\ losses = 0
    /\ Abstract!Init
    /\ inTxn = FALSE
    /\ uncommitted = {}
    /\ handle = TRUE
    /\ errno = "none"
    /\ txn = NoTxn
    /\ pc = "idle"
    /\ k = 0
    /\ loop = 0
    /\ result = [t \in Txns |-> "waiting"]
    /\ abortedBy = [t \in Txns |-> "none"]
    /\ attempts = [t \in Txns |-> 0]

-----------------------------------------------------------------------------
(* ExecuteTransaction, one statement at a time.                            *)

\* An empty transaction fails before anything is sent.
StartExecution(t) == pc' = IF Size[t] = 0 THEN "failed" ELSE "begin"

TakeTransaction(t) ==
    /\ pc = "idle"
    /\ result[t] = "waiting"
    /\ txn' = t
    /\ StartExecution(t)
    /\ loop' = 0
    /\ result' = [result EXCEPT ![t] = "running"]
    /\ attempts' = [attempts EXCEPT ![t] = 1]
    /\ UNCHANGED <<serverVars, clientVars, k, abortedBy, losses>>

Here == <<txn, k>>

Finish(outcome) ==
    /\ pc' = "idle"
    /\ txn' = NoTxn
    /\ result' = [result EXCEPT ![txn] = outcome]

\* Mutant: one statement too many.
Returned_OneMore(succeeded) ==
    \/ /\ pc = "begin"
       /\ pc' = "statements" /\ k' = 1
       /\ UNCHANGED <<txn, result, abortedBy>>
    \/ /\ pc = "statements" /\ succeeded
       /\ IF k > Size[txn] THEN pc' = "commit" /\ UNCHANGED k
                           ELSE k' = k + 1 /\ UNCHANGED pc
       /\ UNCHANGED <<txn, result, abortedBy>>

\* Mutant: a failed statement ends the attempt without ROLLBACK.
Returned_NoRollback(succeeded) ==
    \/ /\ pc = "begin"
       /\ pc' = "statements" /\ k' = 1
       /\ UNCHANGED <<txn, result, abortedBy>>
    \/ /\ pc = "statements"
       /\ IF ~succeeded THEN pc' = "failed" /\ UNCHANGED k
          ELSE IF k = Size[txn] THEN pc' = "commit" /\ UNCHANGED k
                                ELSE k' = k + 1 /\ UNCHANGED pc
       /\ UNCHANGED <<txn, result, abortedBy>>
    \/ /\ pc = "commit"
       /\ Finish("done")
       /\ UNCHANGED <<k, abortedBy>>

\* Mutant: the answer of Execute is ignored for the statements as well.
Returned_SkipFailed(succeeded) ==
    \/ /\ pc = "begin"
       /\ pc' = "statements" /\ k' = 1
       /\ UNCHANGED <<txn, result, abortedBy>>
    \/ /\ pc = "statements"
       /\ IF k = Size[txn] THEN pc' = "commit" /\ UNCHANGED k
                           ELSE k' = k + 1 /\ UNCHANGED pc
       /\ UNCHANGED <<txn, result, abortedBy>>
    \/ /\ pc = "commit"
       /\ Finish("done")
       /\ UNCHANGED <<k, abortedBy>>

\* Where the code goes after Execute returned: START TRANSACTION, ROLLBACK and
\* COMMIT ignore the answer, a statement that failed ends the attempt.
Returned(succeeded) ==
    \/ /\ pc = "begin"
       /\ pc' = "statements" /\ k' = 1
       /\ UNCHANGED <<txn, result, abortedBy>>
    \/ /\ pc = "statements" /\ succeeded
       /\ IF k = Size[txn] THEN pc' = "commit" /\ UNCHANGED k
                           ELSE k' = k + 1 /\ UNCHANGED pc
       /\ UNCHANGED <<txn, result, abortedBy>>
    \/ /\ pc = "statements" /\ ~succeeded
       /\ pc' = "rollback"
       /\ abortedBy' = [abortedBy EXCEPT ![txn] = errno']
       /\ UNCHANGED <<txn, k, result>>
    \/ /\ pc = "rollback"
       /\ pc' = "failed"
       /\ UNCHANGED <<txn, k, result, abortedBy>>
    \/ /\ pc = "commit"
       /\ Finish("done")
       /\ UNCHANGED <<k, abortedBy>>

Sending == pc \in {"begin", "statements", "rollback", "commit"}

\* The statements that take durable effect when the server executes what is
\* being sent: START TRANSACTION commits a transaction that is still open, and
\* outside a transaction a statement commits itself.
MadeDurable ==
    IF pc = "statements" THEN (IF inTxn THEN {} ELSE {Here})
    ELSE IF pc = "rollback" THEN {} ELSE uncommitted

ServerExecutes ==
    /\ rows' = Plus(MadeDurable)
    /\ IF pc = "statements"
       THEN /\ uncommitted' = IF inTxn THEN uncommitted \cup {Here} ELSE uncommitted
            /\ UNCHANGED inTxn
       ELSE /\ uncommitted' = {}
            /\ inTxn' = (pc = "begin")

QuerySucceeds ==
    /\ Sending /\ handle
    /\ ServerExecutes
    /\ errno' = "none"
    /\ Returned(TRUE)
    /\ UNCHANGED <<handle, loop, attempts, losses>>

\* The server refuses a statement. A duplicate key or a lock timeout undoes the
\* statement, a deadlock the whole transaction.
QueryRefused(error) ==
    /\ pc = "statements" /\ handle
    /\ errno' = error
    /\ IF error = "deadlock" THEN inTxn' = FALSE /\ uncommitted' = {}
                             ELSE UNCHANGED <<inTxn, uncommitted>>
    /\ Returned(FALSE)
    /\ UNCHANGED <<rows, handle, loop, attempts, losses>>

\* It has no transaction to begin with (it is being killed, or out of memory):
\* nobody notices, and the statements that follow commit themselves.
BeginRefused ==
    /\ pc = "begin" /\ handle
    /\ losses < MaxLosses
    /\ losses' = losses + 1
    /\ errno' = "refused"
    /\ Returned(FALSE)
    /\ UNCHANGED <<serverVars, handle, loop, attempts>>

\* It cannot make the transaction durable and rolls it back: nobody notices.
CommitRefused ==
    /\ pc = "commit" /\ handle
    /\ errno' = "refused"
    /\ inTxn' = FALSE
    /\ uncommitted' = {}
    /\ Returned(FALSE)
    /\ UNCHANGED <<rows, handle, loop, attempts, losses>>

\* The server goes away before or after it executed the statement, and the
\* session is rolled back.
SessionLost ==
    /\ losses < MaxLosses
    /\ losses' = losses + 1
    /\ rows' \in {rows, Plus(MadeDurable)}
    /\ inTxn' = FALSE
    /\ uncommitted' = {}
    /\ errno' = "none"

\* _HandleMySQLErrno: Open() succeeds and Execute sends the statement again.
Reconnect ==
    /\ Sending /\ handle
    /\ SessionLost
    /\ UNCHANGED <<handle, execVars, result, abortedBy, attempts>>

\* Open() failed: m_Mysql is NULL, whose mysql_errno is 0, which no branch
\* knows how to handle.
ReconnectFails ==
    /\ Sending /\ handle
    /\ SessionLost
    /\ handle' = FALSE
    /\ Returned(FALSE)
    /\ UNCHANGED <<loop, attempts>>

\* Execute without a handle returns false at once.
NoHandle ==
    /\ Sending /\ ~handle
    /\ UNCHANGED <<serverVars, clientVars, loop, attempts, losses>>
    /\ Returned(FALSE)

\* Mutant: a deadlock is retried until it goes away.
AfterFailure_NoBreaker ==
    /\ pc = "failed"
    /\ IF abortedBy[txn] = "deadlock"
       THEN StartExecution(txn) /\ UNCHANGED <<txn, result>>
       ELSE Finish("failed")
    /\ UNCHANGED <<serverVars, clientVars, k, loop, abortedBy, attempts, losses>>

\* TransactionTask::Execute and DirectCommitTransaction after a failure: the
\* loop is entered when the last error of the connection is 1213.
AfterFailure ==
    /\ pc = "failed"
    /\ IF (loop = 0 /\ errno = "deadlock") \/ loop \in 1..(LoopBreaker - 1)
       THEN /\ loop' = loop + 1
            /\ StartExecution(txn)
            /\ attempts' = [attempts EXCEPT ![txn] = @ + 1]
            /\ UNCHANGED <<txn, result>>
       ELSE /\ Finish("failed")
            /\ UNCHANGED <<loop, attempts>>
    /\ UNCHANGED <<serverVars, clientVars, k, abortedBy, losses>>

AllDone == (\A t \in Txns : result[t] \in {"done", "failed"}) /\ UNCHANGED vars

ConnectionStep ==
    \/ \E t \in Txns : TakeTransaction(t)
    \/ QuerySucceeds
    \/ \E error \in {"deadlock", "refused"} : QueryRefused(error)
    \/ BeginRefused
    \/ CommitRefused
    \/ Reconnect
    \/ ReconnectFails
    \/ NoHandle
    \/ AfterFailure

Next == ConnectionStep \/ AllDone

\* The worker thread runs and the server answers or is found gone.
Fairness == WF_vars(ConnectionStep)

Spec == Init /\ [][Next]_vars /\ Fairness

-----------------------------------------------------------------------------
\* Until the session is first lost or refuses START TRANSACTION, executing
\* transactions one statement at a time makes each of them durable as a whole or
\* not at all, whatever statement is refused, COMMIT included.
IsAtomic == Abstract!Spec

\* A connection between two transactions has none open, so the next statement
\* on it is not swallowed by, and does not commit, somebody else's.
NothingLeftOpen == pc = "idle" => ~inTxn /\ uncommitted = {}

\* However often the server goes away or will not begin, what took effect of a transaction is a
\* run of consecutive statements ("The order in which these operations were
\* appended to the transaction will be respected during execution").
NoGaps ==
    \A t \in Txns : \A a, b, c \in 1..Size[t] :
        a < b /\ b < c /\ rows[<<t, a>>] > 0 /\ rows[<<t, c>>] > 0 => rows[<<t, b>>] > 0

\* Every transaction taken is given up or done with in the end.
TransactionsEnd == \A t \in Txns : result[t] = "running" ~> result[t] \in {"done", "failed"}

\* "Handle MySQL Errno 1213 without extending deadlock to the core itself": a
\* transaction given up because of a deadlock was attempted again first.
DeadlockIsRetried ==
    \A t \in Txns :
        result[t] = "failed" /\ abortedBy[t] = "deadlock" => attempts[t] = 1 + LoopBreaker
=============================================================================
