----------------------- MODULE MySQLTransactionProofs -----------------------
(***************************************************************************)
(* Theorems about one database connection, for every set of transactions,  *)
(* every number of statements and of losses of the session.                *)
(***************************************************************************)
EXTENDS MySQLTransaction, TLAPS

\* The session has a transaction open only between START TRANSACTION and the
\* COMMIT or ROLLBACK of the same attempt, and never without a handle.
SessionInv ==
    /\ ~inTxn => uncommitted = {}
    /\ pc \in {"idle", "begin", "failed"} => ~inTxn
    /\ ~handle => ~inTxn

\* SessionInv is kept by every step, whatever the server answers.
LEMMA SessionStep == SessionInv /\ [Next]_vars => SessionInv'
<1> SUFFICES ASSUME SessionInv, [Next]_vars
             PROVE  SessionInv'
  OBVIOUS
<1> USE DEF SessionInv, serverVars, clientVars, execVars, historyVars
<1>1. ASSUME NEW t \in Txns, TakeTransaction(t)
      PROVE  SessionInv'
  BY <1>1 DEF TakeTransaction, StartExecution
<1>2. CASE QuerySucceeds
  <2>1. handle /\ handle' = handle /\ Returned(TRUE)
    BY <1>2 DEF QuerySucceeds
  <2>2. CASE pc = "statements"
    <3>1. inTxn' = inTxn /\ (~inTxn => uncommitted' = uncommitted)
      BY <1>2, <2>2 DEF QuerySucceeds, ServerExecutes
    <3>2. pc' \in {"statements", "commit"}
      BY <2>1, <2>2 DEF Returned
    <3> QED
      BY <2>1, <3>1, <3>2
  <2>3. CASE pc # "statements"
    <3>1. uncommitted' = {} /\ inTxn' = (pc = "begin")
      BY <1>2, <2>3 DEF QuerySucceeds, ServerExecutes
    <3>2. pc = "begin" => pc' = "statements"
      BY <2>1 DEF Returned
    <3> QED
      BY <2>1, <3>1, <3>2
  <2> QED
    BY <2>2, <2>3
<1>3. ASSUME NEW error \in {"deadlock", "refused"}, QueryRefused(error)
      PROVE  SessionInv'
  BY <1>3 DEF QueryRefused, Returned
<1>4. CASE Reconnect \/ BeginRefused \/ CommitRefused
  BY <1>4 DEF Reconnect, SessionLost, BeginRefused, CommitRefused, Returned, Finish
<1>5. CASE ReconnectFails
  BY <1>5 DEF ReconnectFails, SessionLost
<1>6. CASE NoHandle
  BY <1>6 DEF NoHandle
<1>7. CASE AfterFailure
  BY <1>7 DEF AfterFailure, StartExecution, Finish
<1>8. CASE UNCHANGED vars
  BY <1>8 DEF vars
<1> QED
  BY <1>1, <1>2, <1>3, <1>4, <1>5, <1>6, <1>7, <1>8 DEF Next, ConnectionStep, AllDone

\* A connection between two transactions has no transaction open, however often
\* the server refused a statement or went away.
THEOREM ConnectionLeftClean == Spec => []NothingLeftOpen
<1>1. Init => SessionInv
  BY DEF Init, SessionInv
<1>2. SessionInv => NothingLeftOpen
  BY DEF SessionInv, NothingLeftOpen
<1> QED
  BY <1>1, <1>2, SessionStep, PTL DEF Spec
-----------------------------------------------------------------------------
\* What the tables and the session hold until the session is lost or refuses
\* START TRANSACTION (losses counts both): nothing of a transaction that is not
\* done, and in the open transaction the statements sent so far.
StableInv ==
    /\ handle
    /\ rows \in [AllStatements -> Nat]
    /\ txn \in Txns \cup {NoTxn}
    /\ result \in [Txns -> {"waiting", "running", "done", "failed"}]
    /\ pc # "idle" => txn \in Txns /\ result[txn] = "running"
    /\ \A t \in Txns : result[t] # "done" => \A s \in Abstract!Statements(t) : rows[s] = 0
    /\ pc = "begin" => Size[txn] # 0
    /\ pc = "statements" =>
          /\ inTxn
          /\ k \in 1..Size[txn]
          /\ uncommitted = {txn} \X (1..(k - 1))
    /\ pc = "commit" => uncommitted = Abstract!Statements(txn)
    /\ pc \in {"idle", "begin", "failed"} => uncommitted = {}

\* Adding nothing to the tables leaves them as they are, and what a transaction
\* adds stays within them.
LEMMA PlusFacts ==
    ASSUME rows \in [AllStatements -> Nat]
    PROVE  /\ Plus({}) = rows
           /\ \A S : Plus(S) \in [AllStatements -> Nat]
           /\ \A S : \A s \in AllStatements : s \notin S => Plus(S)[s] = rows[s]
BY DEF Plus, AllStatements, Abstract!Plus

\* The statements of a transaction are statements, and no other transaction's.
LEMMA StatementFacts ==
    /\ \A t \in Txns : Abstract!Statements(t) \subseteq AllStatements
    /\ \A t, u \in Txns : t # u => Abstract!Statements(t) \cap Abstract!Statements(u) = {}
BY DEF AllStatements, Abstract!AllStatements, Abstract!Statements

\* Without a loss every step keeps StableInv and is a step of the abstract
\* specification: COMMIT is its Commit, everything else a stutter.
LEMMA StableStep ==
    ASSUME losses = 0, losses' = 0, StableInv, [Next]_vars
    PROVE  StableInv' /\ (rows' = rows \/ \E t \in Txns : Abstract!Commit(t))
<1> USE DEF serverVars, clientVars, execVars, historyVars
<1>a. NoTxn \notin Txns /\ \A t \in Txns : Size[t] \in Nat
  BY TransactionAssumption
<1>1. ASSUME NEW t \in Txns, TakeTransaction(t)
      PROVE  StableInv' /\ rows' = rows
  BY <1>1 DEF TakeTransaction, StartExecution, StableInv
<1>2. ASSUME QuerySucceeds, pc = "begin"
      PROVE  StableInv' /\ rows' = rows
  <2>1. MadeDurable = {} /\ rows' = rows
    BY <1>2, PlusFacts DEF QuerySucceeds, ServerExecutes, MadeDurable, StableInv
  <2>2. inTxn' /\ uncommitted' = {}
    BY <1>2 DEF QuerySucceeds, ServerExecutes
  <2>3. pc' = "statements" /\ k' = 1 /\ UNCHANGED <<txn, result, handle, losses>>
    BY <1>2 DEF QuerySucceeds, Returned
  <2>4. {txn} \X (1..(1 - 1)) = {} /\ 1 \in 1..Size[txn]
    BY <1>a, <1>2 DEF StableInv
  <2> QED
    BY <1>2, <2>1, <2>2, <2>3, <2>4 DEF StableInv
<1>3. ASSUME QuerySucceeds, pc = "statements"
      PROVE  StableInv' /\ rows' = rows
  <2>1. inTxn /\ k \in 1..Size[txn] /\ uncommitted = {txn} \X (1..(k - 1)) /\ txn \in Txns
    BY <1>3 DEF StableInv
  <2>2. MadeDurable = {} /\ rows' = rows
    BY <1>3, <2>1, PlusFacts DEF QuerySucceeds, ServerExecutes, MadeDurable, StableInv
  <2>3. inTxn' /\ uncommitted' = uncommitted \cup {<<txn, k>>}
    BY <1>3, <2>1 DEF QuerySucceeds, ServerExecutes, Here
  <2>4. uncommitted' = {txn} \X (1..k)
    BY <1>a, <2>1, <2>3
  <2>5. /\ UNCHANGED <<txn, result, handle, losses>>
        /\ \/ k = Size[txn] /\ pc' = "commit"
           \/ k # Size[txn] /\ pc' = "statements" /\ k' = k + 1
    BY <1>3 DEF QuerySucceeds, Returned
  <2>6. k # Size[txn] => k + 1 \in 1..Size[txn] /\ (k + 1) - 1 = k
    BY <1>a, <2>1
  <2>7. k = Size[txn] => uncommitted' = Abstract!Statements(txn)
    BY <2>4 DEF Abstract!Statements
  <2> QED
    BY <1>3, <2>2, <2>3, <2>4, <2>5, <2>6, <2>7 DEF StableInv
<1>4. ASSUME QuerySucceeds, pc = "commit"
      PROVE  StableInv' /\ \E t \in Txns : Abstract!Commit(t)
  <2>1. /\ rows' = Plus(Abstract!Statements(txn)) /\ txn \in Txns /\ result[txn] = "running"
        /\ uncommitted' = {}
    BY <1>4 DEF QuerySucceeds, ServerExecutes, MadeDurable, StableInv
  <2>2. pc' = "idle" /\ txn' = NoTxn /\ result' = [result EXCEPT ![txn] = "done"]
        /\ UNCHANGED <<handle, losses>>
    BY <1>4 DEF QuerySucceeds, Returned, Finish
  <2>3. rows' \in [AllStatements -> Nat]
    BY <2>1, PlusFacts DEF StableInv
  <2>4. ASSUME NEW t \in Txns, result'[t] # "done", NEW s \in Abstract!Statements(t)
        PROVE  rows'[s] = 0
    <3>1. t # txn /\ result[t] # "done"
      BY <2>2, <2>4 DEF StableInv
    <3>2. s \in AllStatements /\ s \notin Abstract!Statements(txn)
      BY <2>1, <3>1, StatementFacts
    <3> QED
      BY <2>1, <3>1, <3>2, PlusFacts DEF StableInv
  <2>5. StableInv'
    BY <2>1, <2>2, <2>3, <2>4 DEF StableInv
  <2>6. Abstract!Commit(txn)
    BY <2>1 DEF Abstract!Commit, Plus, Abstract!Plus, StableInv
  <2> QED
    BY <2>1, <2>5, <2>6
<1>5. ASSUME QuerySucceeds, pc = "rollback"
      PROVE  StableInv' /\ rows' = rows
  <2>1. rows' = rows /\ uncommitted' = {}
    BY <1>5, PlusFacts DEF QuerySucceeds, ServerExecutes, MadeDurable, StableInv
  <2>2. pc' = "failed" /\ UNCHANGED <<txn, result, handle, losses>>
    BY <1>5 DEF QuerySucceeds, Returned
  <2> QED
    BY <1>5, <2>1, <2>2 DEF StableInv
<1>6. ASSUME NEW error \in {"deadlock", "refused"}, QueryRefused(error)
      PROVE  StableInv' /\ rows' = rows
  <2>1. pc = "statements" /\ pc' = "rollback" /\ UNCHANGED <<rows, txn, result, handle, losses>>
    BY <1>6 DEF QueryRefused, Returned
  <2> QED
    BY <2>1 DEF StableInv
<1>c. ASSUME CommitRefused
      PROVE  StableInv' /\ rows' = rows
  <2>1. /\ pc' = "idle" /\ txn' = NoTxn /\ result' = [result EXCEPT ![txn] = "done"]
        /\ uncommitted' = {} /\ UNCHANGED <<rows, handle, losses>>
    BY <1>c DEF CommitRefused, Returned, Finish
  <2>2. txn \in Txns /\ result[txn] = "running"
    BY <1>c DEF CommitRefused, StableInv
  <2> QED
    BY <1>a, <2>1, <2>2 DEF StableInv
<1>7. ASSUME AfterFailure
      PROVE  StableInv' /\ rows' = rows
  <2>1. /\ UNCHANGED <<rows, uncommitted, handle, losses>>
        /\ pc = "failed" /\ uncommitted = {} /\ txn \in Txns
    BY <1>7 DEF AfterFailure, StableInv
  <2>2. CASE UNCHANGED <<txn, result>> /\ StartExecution(txn)
    BY <2>1, <2>2 DEF StartExecution, StableInv
  <2>3. CASE Finish("failed")
    BY <1>a, <2>1, <2>3 DEF Finish, StableInv
  <2> QED
    BY <1>7, <2>2, <2>3 DEF AfterFailure
<1>8. ~Reconnect /\ ~ReconnectFails /\ ~NoHandle /\ ~BeginRefused
  BY DEF Reconnect, ReconnectFails, NoHandle, BeginRefused, SessionLost, StableInv
<1>9. CASE UNCHANGED vars
  BY <1>9 DEF vars, StableInv
<1>10. CASE QuerySucceeds
  BY <1>2, <1>3, <1>4, <1>5, <1>10 DEF QuerySucceeds, Sending
<1> QED
  BY <1>1, <1>6, <1>c, <1>7, <1>8, <1>9, <1>10 DEF Next, ConnectionStep, AllDone, vars

AtomicInv == losses \in Nat /\ (losses = 0 => StableInv)

\* Every step keeps AtomicInv and is a step of AtomicTransactions, or none.
LEMMA AtomicStep ==
    AtomicInv /\ [Next]_vars => AtomicInv' /\ [Abstract!Next]_<<rows, losses > 0>>
<1> SUFFICES ASSUME AtomicInv, [Next]_vars
             PROVE  AtomicInv' /\ [Abstract!Next]_<<rows, losses > 0>>
  OBVIOUS
<1> USE DEF AtomicInv
<1>1. losses' = losses \/ losses' = losses + 1
  BY DEF Next, ConnectionStep, TakeTransaction, QuerySucceeds, QueryRefused, BeginRefused,
         CommitRefused, Reconnect, ReconnectFails, NoHandle, AfterFailure, SessionLost, AllDone, historyVars, vars
<1>2. CASE losses' = 0
  <2>1. losses = 0
    BY <1>1, <1>2
  <2>2. StableInv' /\ (rows' = rows \/ \E t \in Txns : Abstract!Commit(t))
    BY <1>2, <2>1, StableStep
  <2>3. (losses > 0)' = (losses > 0)
    BY <1>2, <2>1
  <2> QED
    BY <1>2, <2>2, <2>3 DEF Abstract!Next
<1>3. CASE losses' # 0
  <2>1. (losses > 0)' = TRUE /\ losses' \in Nat
    BY <1>1, <1>3
  <2>2. Abstract!SessionLost
    BY <2>1 DEF Abstract!SessionLost
  <2> QED
    BY <1>3, <2>1, <2>2 DEF Abstract!Next
<1> QED
  BY <1>2, <1>3

\* Executing transactions statement by statement implements AtomicTransactions:
\* until the session is first lost or refuses START TRANSACTION each transaction
\* takes effect whole or not at all, whatever else the server refuses, COMMIT
\* included.
THEOREM TransactionsAreAtomic == Spec => IsAtomic
<1>1. Init => AtomicInv /\ Abstract!Init
  <2> SUFFICES ASSUME Init PROVE AtomicInv /\ Abstract!Init
    OBVIOUS
  <2>1. rows = [s \in AllStatements |-> 0] /\ losses = 0
    BY DEF Init, Abstract!Init, AllStatements
  <2>2. StableInv
    BY <2>1, StatementFacts DEF Init, StableInv
  <2> QED
    BY <2>1, <2>2 DEF AtomicInv, Init
<1>2. AtomicInv /\ [Next]_vars => AtomicInv' /\ [Abstract!Next]_<<rows, losses > 0>>
  BY AtomicStep
<1> QED
  BY <1>1, <1>2, PTL DEF Spec, IsAtomic, Abstract!Spec
-----------------------------------------------------------------------------
\* A transaction has one attempt: ROLLBACK has wiped out the error of the
\* connection by the time anybody asks whether it was a deadlock.
OneAttempt ==
    /\ \A t \in Txns : attempts[t] = IF result[t] = "waiting" THEN 0 ELSE 1
    /\ pc # "idle" => result[txn] = "running"
    /\ pc = "begin" => Size[txn] # 0
    /\ errno = "deadlock" => pc = "rollback" /\ handle
    /\ loop = 0

TypeInv == TypeOK /\ OneAttempt

\* What is sent is statements of transactions.
LEMMA MadeIsStatements ==
    ASSUME TypeInv, Sending PROVE MadeDurable \subseteq AllStatements
<1>1. pc = "statements" => Here \in AllStatements
  BY DEF TypeInv, TypeOK, Here, AllStatements, Abstract!AllStatements, Abstract!Statements
<1> QED
  BY <1>1 DEF MadeDurable, TypeInv, TypeOK

LEMMA TypeStep == TypeInv /\ [Next]_vars => TypeInv'
<1> SUFFICES ASSUME TypeInv, [Next]_vars PROVE TypeInv'
  OBVIOUS
<1> USE DEF serverVars, clientVars, execVars, historyVars
<1>a. /\ NoTxn \notin Txns /\ \A t \in Txns : Size[t] \in Nat
      /\ LoopBreaker \in Nat \ {0} /\ MaxLosses \in Nat
  BY TransactionAssumption
<1>1. ASSUME NEW t \in Txns, TakeTransaction(t)
      PROVE  TypeInv'
  <2>1. TypeOK'
    BY <1>a, <1>1 DEF TakeTransaction, StartExecution, TypeInv, TypeOK
  <2>2. OneAttempt'
    BY <1>a, <1>1 DEF TakeTransaction, StartExecution, TypeInv, TypeOK, OneAttempt
  <2> QED
    BY <2>1, <2>2 DEF TypeInv
<1>2. ASSUME NEW succeeded \in BOOLEAN, Sending, Returned(succeeded), errno' \in Errors
      PROVE  /\ txn' \in Txns \cup {NoTxn}
             /\ pc' \in {"idle", "statements", "commit", "rollback", "failed"}
             /\ pc' # "idle" => txn' = txn /\ txn \in Txns /\ result' = result
             /\ pc' = "statements" => k' \in 1..Size[txn]
             /\ k' \in Nat
             /\ result' \in [Txns -> {"waiting", "running", "done", "failed"}]
             /\ abortedBy' \in [Txns -> Errors]
             /\ \A t \in Txns : result'[t] = "waiting" <=> result[t] = "waiting"
  <2>1. txn \in Txns /\ result[txn] = "running" /\ k \in Nat /\ Size[txn] \in Nat
    BY <1>a, <1>2 DEF Sending, TypeInv, TypeOK, OneAttempt
  <2>2. CASE pc = "begin"
    BY <1>2, <2>1, <2>2 DEF Returned, TypeInv, TypeOK, OneAttempt
  <2>3. CASE pc = "statements"
    BY <1>2, <2>1, <2>3 DEF Returned, TypeInv, TypeOK
  <2>4. CASE pc = "rollback"
    BY <1>2, <2>1, <2>4 DEF Returned, TypeInv, TypeOK
  <2>5. CASE pc = "commit"
    BY <1>2, <2>1, <2>5 DEF Returned, Finish, TypeInv, TypeOK
  <2> QED
    BY <1>2, <2>2, <2>3, <2>4, <2>5 DEF Sending
<1>3. ASSUME Sending, NEW new \in {rows, Plus(MadeDurable)}
      PROVE  new \in [AllStatements -> Nat]
  BY <1>3, PlusFacts DEF TypeInv, TypeOK
<1>4. CASE QuerySucceeds
  <2>1. Sending /\ Returned(TRUE) /\ errno' = "none" /\ errno' \in Errors
        /\ UNCHANGED <<handle, loop, attempts, losses>>
    BY <1>4 DEF QuerySucceeds, Errors
  <2>2. rows' \in [AllStatements -> Nat]
    BY <1>3, <1>4 DEF QuerySucceeds, ServerExecutes
  <2>3. inTxn' \in BOOLEAN /\ uncommitted' \in SUBSET AllStatements
    <3>1. pc = "statements" => Here \in AllStatements
      BY DEF TypeInv, TypeOK, Here, AllStatements, Abstract!AllStatements, Abstract!Statements
    <3> QED
      BY <1>4, <3>1 DEF QuerySucceeds, ServerExecutes, TypeInv, TypeOK
  <2>4. TypeOK'
    BY <1>2, <2>1, <2>2, <2>3 DEF TypeInv, TypeOK
  <2>5. OneAttempt'
    BY <1>2, <2>1 DEF TypeInv, OneAttempt, Sending
  <2> QED
    BY <2>4, <2>5 DEF TypeInv
<1>5. ASSUME NEW error \in {"deadlock", "refused"}, QueryRefused(error)
      PROVE  TypeInv'
  <2>1. Sending /\ Returned(FALSE) /\ errno' \in Errors /\ pc' = "rollback" /\ handle'
        /\ UNCHANGED <<rows, handle, loop, attempts, losses>>
        /\ inTxn' \in BOOLEAN /\ uncommitted' \in SUBSET AllStatements
    BY <1>5 DEF QueryRefused, Errors, Sending, Returned, TypeInv, TypeOK
  <2>2. TypeOK'
    BY <1>2, <2>1 DEF TypeInv, TypeOK
  <2>3. OneAttempt'
    BY <1>2, <2>1 DEF TypeInv, OneAttempt, Sending
  <2> QED
    BY <2>2, <2>3 DEF TypeInv
<1>c. CASE BeginRefused \/ CommitRefused
  <2>1. /\ Sending /\ Returned(FALSE) /\ errno' = "refused" /\ errno' \in Errors
        /\ UNCHANGED <<rows, handle, loop, attempts>>
        /\ inTxn' \in BOOLEAN /\ uncommitted' \in SUBSET AllStatements
    BY <1>c DEF BeginRefused, CommitRefused, Errors, Sending, TypeInv, TypeOK
  <2>2. losses' \in 0..MaxLosses
    <3>1. losses' = losses \/ (losses' = losses + 1 /\ losses < MaxLosses)
      BY <1>c DEF BeginRefused, CommitRefused
    <3>2. losses \in 0..MaxLosses
      BY DEF TypeInv, TypeOK
    <3> QED
      BY <1>a, <3>1, <3>2
  <2>3. TypeOK'
    BY <1>2, <2>1, <2>2 DEF TypeInv, TypeOK
  <2>4. OneAttempt'
    BY <1>2, <2>1 DEF TypeInv, OneAttempt, Sending
  <2> QED
    BY <2>3, <2>4 DEF TypeInv
<1>6. ASSUME SessionLost, Sending
      PROVE  /\ rows' \in [AllStatements -> Nat] /\ inTxn' \in BOOLEAN
             /\ uncommitted' \in SUBSET AllStatements /\ losses' \in 0..MaxLosses
             /\ errno' = "none" /\ errno' \in Errors
  <2>1. rows' \in [AllStatements -> Nat]
    BY <1>3, <1>6 DEF SessionLost
  <2>2. losses' \in 0..MaxLosses
    BY <1>a, <1>6 DEF SessionLost, TypeInv, TypeOK
  <2> QED
    BY <1>6, <2>1, <2>2 DEF SessionLost, Errors
<1>7. CASE Reconnect
  BY <1>6, <1>7 DEF Reconnect, TypeInv, TypeOK, OneAttempt
<1>8. CASE ReconnectFails
  <2>1. Sending /\ Returned(FALSE) /\ SessionLost /\ handle' = FALSE /\ UNCHANGED <<loop, attempts>>
    BY <1>8 DEF ReconnectFails
  <2>2. TypeOK'
    BY <1>2, <1>6, <2>1 DEF TypeInv, TypeOK
  <2>3. OneAttempt'
    BY <1>2, <1>6, <2>1 DEF TypeInv, OneAttempt, Sending
  <2> QED
    BY <2>2, <2>3 DEF TypeInv
<1>9. CASE NoHandle
  <2>1. Sending /\ Returned(FALSE) /\ errno' = errno /\ errno # "deadlock" /\ errno' \in Errors
    BY <1>9 DEF NoHandle, TypeInv, TypeOK, OneAttempt
  <2>2. UNCHANGED <<rows, inTxn, uncommitted, handle, loop, attempts, losses>>
    BY <1>9 DEF NoHandle
  <2>3. TypeOK'
    BY <1>2, <2>1, <2>2 DEF TypeInv, TypeOK
  <2>4. OneAttempt'
    BY <1>2, <2>1, <2>2 DEF TypeInv, OneAttempt, Sending
  <2> QED
    BY <2>3, <2>4 DEF TypeInv
<1>10. CASE AfterFailure
  <2>1. Finish("failed") /\ UNCHANGED <<loop, attempts>>
    BY <1>10 DEF AfterFailure, TypeInv, OneAttempt
  <2>2. UNCHANGED <<rows, inTxn, uncommitted, handle, errno, k, abortedBy, losses>> /\ errno # "deadlock"
    BY <1>10 DEF AfterFailure, TypeInv, OneAttempt
  <2>3. txn \in Txns /\ result[txn] = "running"
    BY <1>10 DEF AfterFailure, TypeInv, TypeOK, OneAttempt
  <2> QED
    BY <2>1, <2>2, <2>3 DEF Finish, TypeInv, TypeOK, OneAttempt
<1>11. CASE UNCHANGED vars
  BY <1>11 DEF vars, TypeInv, TypeOK, OneAttempt
<1> QED
  BY <1>1, <1>4, <1>5, <1>c, <1>7, <1>8, <1>9, <1>10, <1>11 DEF Next, ConnectionStep, AllDone

LEMMA TypeInit == Init => TypeInv
<1> SUFFICES ASSUME Init PROVE TypeInv
  OBVIOUS
<1>1. rows \in [AllStatements -> Nat]
  BY DEF Init, Abstract!Init, AllStatements
<1>2. 0 \in 0..LoopBreaker /\ 0 \in 0..MaxLosses /\ 0 \in Nat
  BY TransactionAssumption
<1>3. TypeOK
  BY <1>1, <1>2 DEF Init, TypeOK, Errors
<1>4. OneAttempt
  BY DEF Init, OneAttempt
<1> QED
  BY <1>3, <1>4 DEF TypeInv

\* Types, the statement being sent and the passes through the deadlock loop
\* within their bounds.
THEOREM TransactionTypeCorrect == Spec => []TypeOK
<1>1. TypeInv => TypeOK
  BY DEF TypeInv
<1> QED
  BY <1>1, TypeInit, TypeStep, PTL DEF Spec

\* No transaction is ever attempted again, whatever LoopBreaker allows: what
\* the loop for deadlocks is there for never happens.
THEOREM NothingIsRetried == Spec => [](\A t \in Txns : attempts[t] <= 1)
<1>1. TypeInv => \A t \in Txns : attempts[t] <= 1
  BY DEF TypeInv, OneAttempt
<1> QED
  BY <1>1, TypeInit, TypeStep, PTL DEF Spec

-----------------------------------------------------------------------------
\* The statements of t that took effect are a run of consecutive ones.
Durable(t) == {i \in 1..Size[t] : rows[<<t, i>>] > 0}
Consecutive(D) == \A a, c \in D : \A b \in Nat : a < b /\ b < c => b \in D

\* Statements take effect alone only after a loss, and then up to the one being
\* sent, or the one before it; while a transaction is open none has yet.
Runs ==
    /\ \A t \in Txns : Consecutive(Durable(t))
    /\ \A t \in Txns : result[t] = "waiting" => Durable(t) = {}

GapInv ==
    /\ Runs
    /\ pc = "begin" \/ inTxn => Durable(txn) = {}
    /\ pc = "statements" =>
          /\ inTxn => uncommitted = {txn} \X (1..(k - 1))
          /\ Durable(txn) \subseteq 1..k
          /\ Durable(txn) # {} => k \in Durable(txn) \/ k - 1 \in Durable(txn)
    /\ pc = "commit" /\ inTxn => uncommitted = Abstract!Statements(txn)

\* How what takes effect of a transaction grows with what is made durable.
LEMMA DurablePlus ==
    ASSUME rows \in [AllStatements -> Nat], NEW S, rows' = Plus(S)
    PROVE  \A t \in Txns : Durable(t)' = Durable(t) \cup {i \in 1..Size[t] : <<t, i>> \in S}
<1> SUFFICES ASSUME NEW t \in Txns
             PROVE  Durable(t)' = Durable(t) \cup {i \in 1..Size[t] : <<t, i>> \in S}
  OBVIOUS
<1>1. ASSUME NEW i \in 1..Size[t]
      PROVE  rows'[<<t, i>>] > 0 <=> rows[<<t, i>>] > 0 \/ <<t, i>> \in S
  <2>1. <<t, i>> \in AllStatements
    BY DEF AllStatements, Abstract!AllStatements, Abstract!Statements
  <2>2. rows'[<<t, i>>] = IF <<t, i>> \in S THEN rows[<<t, i>>] + 1 ELSE rows[<<t, i>>]
    BY <2>1 DEF Plus, Abstract!Plus, AllStatements
  <2>3. rows[<<t, i>>] \in Nat
    BY <2>1
  <2> QED
    BY <2>2, <2>3
<1> QED
  BY <1>1 DEF Durable

\* What executing the statement being sent does to what has taken effect.
LEMMA Growth ==
    ASSUME SessionInv, TypeInv, GapInv, Sending, rows' \in {rows, Plus(MadeDurable)},
           NEW t \in Txns
    PROVE  /\ t # txn => Durable(t)' = Durable(t)
           /\ t = txn /\ pc \in {"begin", "rollback"} => Durable(t)' = Durable(t)
           /\ t = txn /\ pc = "statements" =>
                 IF inTxn THEN Durable(t)' = Durable(t)
                 ELSE /\ Durable(t)' \in {Durable(t), Durable(t) \cup {k}}
                      /\ rows' = Plus(MadeDurable) => k \in Durable(t)'
           /\ t = txn /\ pc = "commit" => Durable(t)' \in {Durable(t), 1..Size[t]}
<1> DEFINE Made == {i \in 1..Size[t] : <<t, i>> \in MadeDurable}
<1>1. txn \in Txns /\ rows \in [AllStatements -> Nat]
  BY DEF Sending, TypeInv, TypeOK
<1>2. /\ t # txn => Made = {}
      /\ pc \in {"begin", "rollback"} => Made = {}
      /\ t = txn /\ pc = "statements" => Made = IF inTxn THEN {} ELSE {k}
      /\ t = txn /\ pc = "commit" => Made \in {{}, 1..Size[t]}
  <2>1. CASE pc = "statements"
    <3>1. MadeDurable = IF inTxn THEN {} ELSE {<<txn, k>>}
      BY <2>1 DEF MadeDurable, Here
    <3>2. k \in 1..Size[txn]
      BY <2>1 DEF TypeInv, TypeOK
    <3> QED
      BY <2>1, <3>1, <3>2
  <2>2. CASE pc = "commit"
    <3>1. MadeDurable = uncommitted /\ (uncommitted = {} \/ uncommitted = {txn} \X (1..Size[txn]))
      BY <2>2 DEF MadeDurable, SessionInv, GapInv, Abstract!Statements
    <3> QED
      BY <2>2, <3>1
  <2>3. CASE pc \in {"begin", "rollback"}
    <3>1. MadeDurable = {}
      BY <2>3 DEF MadeDurable, SessionInv
    <3> QED
      BY <2>3, <3>1
  <2> QED
    BY <2>1, <2>2, <2>3 DEF Sending
<1>3. CASE rows' # Plus(MadeDurable)
  <2>1. Durable(t)' = Durable(t)
    BY <1>3 DEF Durable
  <2> QED
    BY <1>3, <2>1
<1>4. CASE rows' = Plus(MadeDurable)
  <2>1. Durable(t)' = Durable(t) \cup Made
    BY <1>1, <1>4, DurablePlus
  <2>2. Durable(t) \subseteq 1..Size[t]
    BY DEF Durable
  <2> HIDE DEF Made
  <2> QED
    BY <1>2, <2>1, <2>2
<1> QED
  BY <1>3, <1>4

\* Whatever the server answers, or if it goes away instead, there is no gap.
LEMMA GrowthIsConsecutive ==
    ASSUME SessionInv, TypeInv, GapInv, Sending, rows' \in {rows, Plus(MadeDurable)},
           \A t \in Txns : result'[t] = "waiting" => result[t] = "waiting"
    PROVE  Runs'
<1>1. txn \in Txns /\ result[txn] = "running"
  BY DEF Sending, TypeInv, TypeOK, OneAttempt
<1>2. ASSUME NEW t \in Txns
      PROVE  Consecutive(Durable(t)')
  <2>1. Consecutive(Durable(t))
    BY DEF GapInv, Runs
  <2>2. CASE Durable(t)' = Durable(t)
    BY <2>1, <2>2
  <2>3. CASE pc = "statements" /\ t = txn /\ ~inTxn /\ Durable(t)' = Durable(t) \cup {k}
    <3>1. /\ Durable(t) \subseteq 1..k /\ k \in Nat
          /\ Durable(t) # {} => k \in Durable(t) \/ k - 1 \in Durable(t)
      BY <2>3 DEF GapInv, TypeInv, TypeOK
    <3>2. ASSUME NEW a \in Durable(t) \cup {k}, NEW c \in Durable(t) \cup {k}, NEW b \in Nat,
                 a < b, b < c
          PROVE  b \in Durable(t) \cup {k}
      <4>1. a \in Durable(t) /\ c \in 1..k /\ a \in 1..k
        BY <3>1, <3>2
      <4>2. CASE c \in Durable(t)
        BY <2>1, <3>2, <4>1, <4>2 DEF Consecutive
      <4>3. CASE c = k /\ k - 1 \in Durable(t)
        <5>1. b = k - 1 \/ b < k - 1
          BY <3>1, <3>2, <4>3
        <5> QED
          BY <2>1, <3>2, <4>1, <4>3, <5>1 DEF Consecutive
      <4> QED
        BY <3>1, <4>1, <4>2, <4>3
    <3> QED
      BY <2>3, <3>2 DEF Consecutive
  <2>4. CASE pc = "commit" /\ t = txn /\ Durable(t)' = 1..Size[t]
    <3>1. Size[t] \in Nat
      BY TransactionAssumption
    <3> QED
      BY <2>4, <3>1 DEF Consecutive
  <2> QED
    BY <2>2, <2>3, <2>4, Growth DEF Sending
<1>3. ASSUME NEW t \in Txns, result'[t] = "waiting"
      PROVE  Durable(t)' = {}
  BY <1>1, <1>3, Growth DEF GapInv, Runs
<1> QED
  BY <1>2, <1>3 DEF Runs, Consecutive

LEMMA GapStep == SessionInv /\ TypeInv /\ GapInv /\ [Next]_vars => GapInv'
<1> SUFFICES ASSUME SessionInv, TypeInv, GapInv, [Next]_vars PROVE GapInv'
  OBVIOUS
<1> USE DEF serverVars, clientVars, execVars, historyVars
<1>1. SessionInv' /\ TypeInv'
  BY SessionStep, TypeStep
<1>2. Runs
  BY DEF GapInv
<1>3. ASSUME UNCHANGED rows
      PROVE  \A t \in Txns : Durable(t)' = Durable(t)
  BY <1>3 DEF Durable
<1>4. ASSUME Runs', ~inTxn', pc' \notin {"begin", "statements"}
      PROVE  GapInv'
  BY <1>4 DEF GapInv
<1>5. ASSUME NEW t \in Txns, TakeTransaction(t)
      PROVE  GapInv'
  <2>1. /\ \A u \in Txns : Durable(u)' = Durable(u)
        /\ Durable(t) = {} /\ txn' = t /\ pc' \in {"begin", "failed"}
        /\ \A u \in Txns : result'[u] = "waiting" => result[u] = "waiting"
    BY <1>2, <1>3, <1>5 DEF TakeTransaction, StartExecution, Runs, TypeInv, TypeOK
  <2>2. ~inTxn'
    BY <1>1, <2>1 DEF SessionInv
  <2> QED
    BY <1>2, <2>1, <2>2 DEF Runs, GapInv
<1>6. ASSUME Sending, rows' \in {rows, Plus(MadeDurable)}, NEW succeeded \in BOOLEAN,
             Returned(succeeded)
      PROVE  Runs' /\ (pc = "begin" /\ uncommitted' = {} => GapInv')
  <2>1. txn \in Txns /\ result[txn] = "running"
    BY <1>6 DEF Sending, TypeInv, TypeOK, OneAttempt
  <2>2. Runs'
    BY <1>6, <2>1, GrowthIsConsecutive DEF Returned, Finish, TypeInv, TypeOK
  <2>3. ASSUME pc = "begin", uncommitted' = {}
        PROVE  GapInv'
    <3>1. pc' = "statements" /\ k' = 1 /\ txn' = txn /\ Durable(txn) = {}
      BY <1>6, <2>3 DEF Returned, GapInv
    <3>2. \A t \in Txns : t = txn => Durable(t)' = {}
      BY <1>6, <2>3, <3>1, Growth
    <3>3. Durable(txn)' = {}
      BY <2>1, <3>1, <3>2
    <3> QED
      BY <2>2, <2>3, <3>1, <3>3 DEF GapInv
  <2> QED
    BY <2>2, <2>3
<1>7. CASE QuerySucceeds
  <2>1. Sending /\ rows' = Plus(MadeDurable) /\ Returned(TRUE)
    BY <1>7 DEF QuerySucceeds, ServerExecutes
  <2>2. txn \in Txns /\ k \in Nat /\ Size[txn] \in Nat
    BY <2>1, TransactionAssumption DEF Sending, TypeInv, TypeOK
  <2>3. Runs'
    BY <1>6, <2>1
  <2>4. CASE pc = "begin"
    BY <1>6, <1>7, <2>1, <2>4 DEF QuerySucceeds, ServerExecutes
  <2>5. CASE pc = "statements" /\ inTxn
    <3>1. /\ inTxn' /\ uncommitted' = uncommitted \cup {<<txn, k>>} /\ txn' = txn
          /\ IF k = Size[txn] THEN pc' = "commit" ELSE pc' = "statements" /\ k' = k + 1
      BY <1>7, <2>1, <2>5 DEF QuerySucceeds, ServerExecutes, Returned, Here
    <3>2. uncommitted = {txn} \X (1..(k - 1)) /\ Durable(txn) = {} /\ k \in 1..Size[txn]
      BY <2>5 DEF GapInv, TypeInv, TypeOK
    <3>3. uncommitted' = {txn} \X (1..k)
      BY <2>2, <3>1, <3>2
    <3>4. \A t \in Txns : t = txn => Durable(t)' = {}
      BY <2>1, <2>5, <3>2, Growth
    <3>5. Durable(txn)' = {}
      BY <2>2, <3>1, <3>4
    <3>6. k # Size[txn] => k' - 1 = k
      BY <2>2, <3>1
    <3> QED
      BY <2>3, <3>1, <3>3, <3>5, <3>6 DEF GapInv, Abstract!Statements
  <2>6. CASE pc = "statements" /\ ~inTxn
    <3>1. /\ ~inTxn' /\ txn' = txn
          /\ IF k = Size[txn] THEN pc' = "commit" ELSE pc' = "statements" /\ k' = k + 1
      BY <1>7, <2>1, <2>6 DEF QuerySucceeds, ServerExecutes, Returned
    <3>2. \A t \in Txns : t = txn => k \in Durable(t)' /\ Durable(t)' \subseteq Durable(t) \cup {k}
      BY <2>1, <2>6, Growth
    <3>3. k \in Durable(txn)' /\ Durable(txn)' \subseteq Durable(txn) \cup {k}
      BY <2>2, <3>1, <3>2
    <3>4. Durable(txn) \subseteq 1..k /\ k \in 1..Size[txn]
      BY <2>6 DEF GapInv, TypeInv, TypeOK
    <3>5. k' = k + 1 => Durable(txn)' \subseteq 1..k' /\ k' - 1 \in Durable(txn)'
      BY <2>2, <3>3, <3>4
    <3> QED
      BY <2>3, <3>1, <3>5 DEF GapInv
  <2>7. CASE pc \in {"rollback", "commit"}
    <3>1. ~inTxn' /\ pc' \notin {"begin", "statements"}
      BY <1>7, <2>1, <2>7 DEF QuerySucceeds, ServerExecutes, Returned, Finish
    <3> QED
      BY <1>4, <2>3, <3>1
  <2> QED
    BY <2>1, <2>4, <2>5, <2>6, <2>7 DEF Sending
<1>8. ASSUME NEW error \in {"deadlock", "refused"}, QueryRefused(error)
      PROVE  GapInv'
  <2>1. /\ pc' = "rollback" /\ txn' = txn /\ UNCHANGED <<rows, result>> /\ (inTxn' => inTxn)
        /\ txn \in Txns
    BY <1>8 DEF QueryRefused, Returned, TypeInv, TypeOK
  <2>2. \A t \in Txns : Durable(t)' = Durable(t)
    BY <1>3, <2>1
  <2>3. Durable(txn)' = Durable(txn)
    BY <2>1, <2>2
  <2> QED
    BY <1>2, <2>1, <2>2, <2>3 DEF GapInv, Runs
<1>b. CASE BeginRefused
  <2>1. /\ Sending /\ Returned(FALSE) /\ pc = "begin"
        /\ UNCHANGED <<rows, uncommitted>> /\ uncommitted = {}
    BY <1>b DEF BeginRefused, Sending, SessionInv
  <2> QED
    BY <1>6, <2>1
<1>c. CASE CommitRefused
  <2>1. Sending /\ Returned(FALSE) /\ rows' = rows /\ ~inTxn' /\ pc' = "idle"
    BY <1>c DEF CommitRefused, Sending, Returned, Finish
  <2> QED
    BY <1>4, <1>6, <2>1
<1>9. CASE Reconnect
  <2>1. /\ Sending /\ rows' \in {rows, Plus(MadeDurable)} /\ ~inTxn' /\ uncommitted' = {}
        /\ UNCHANGED <<pc, txn, k, result>>
    BY <1>9 DEF Reconnect, SessionLost
  <2>2. Runs'
    BY <2>1, GrowthIsConsecutive
  <2>3. txn \in Txns
    BY <2>1 DEF Sending, TypeInv, TypeOK
  <2>4. CASE pc = "begin"
    <3>1. \A t \in Txns : t = txn => Durable(t)' = {}
      BY <2>1, <2>4, Growth DEF GapInv
    <3>2. Durable(txn)' = {}
      BY <2>1, <2>3, <3>1
    <3> QED
      BY <2>1, <2>2, <2>4, <3>2 DEF GapInv
  <2>5. CASE pc = "statements"
    <3>1. \A t \in Txns : t = txn => Durable(t)' \in {Durable(t), Durable(t) \cup {k}}
      BY <2>1, <2>5, Growth
    <3>2. Durable(txn)' \in {Durable(txn), Durable(txn) \cup {k}}
      BY <2>1, <2>3, <3>1
    <3>3. /\ Durable(txn) \subseteq 1..k /\ k \in 1..k
          /\ Durable(txn) # {} => k \in Durable(txn) \/ k - 1 \in Durable(txn)
      BY <2>5 DEF GapInv, TypeInv, TypeOK
    <3> QED
      BY <2>1, <2>2, <2>5, <3>2, <3>3 DEF GapInv
  <2>6. CASE pc \in {"rollback", "commit"}
    BY <1>4, <2>1, <2>2, <2>6
  <2> QED
    BY <2>1, <2>4, <2>5, <2>6 DEF Sending
<1>10. CASE ReconnectFails \/ NoHandle
  <2>1. /\ Sending /\ Returned(FALSE) /\ rows' \in {rows, Plus(MadeDurable)}
        /\ ~inTxn' /\ uncommitted' = {}
    BY <1>1, <1>10 DEF ReconnectFails, NoHandle, SessionLost, SessionInv
  <2>2. pc # "begin" => pc' \notin {"begin", "statements"}
    BY <2>1 DEF Returned, Finish
  <2> QED
    BY <1>4, <1>6, <2>1, <2>2
<1>11. CASE AfterFailure
  <2>1. /\ UNCHANGED rows /\ pc' = "idle" /\ ~inTxn'
        /\ \A t \in Txns : result'[t] = "waiting" => result[t] = "waiting"
    BY <1>1, <1>11 DEF AfterFailure, Finish, SessionInv, TypeInv, TypeOK, OneAttempt
  <2>2. Runs'
    BY <1>2, <1>3, <2>1 DEF Runs
  <2> QED
    BY <1>4, <2>1, <2>2
<1>12. CASE UNCHANGED vars
  <2>1. Durable(txn)' = Durable(txn) /\ \A t \in Txns : Durable(t)' = Durable(t)
    BY <1>12 DEF vars, Durable
  <2> QED
    BY <1>12, <2>1 DEF vars, GapInv, Runs
<1> QED
  BY <1>5, <1>7, <1>8, <1>b, <1>c, <1>9, <1>10, <1>11, <1>12 DEF Next, ConnectionStep, AllDone

\* However often the server goes away, at whatever statement and whether before
\* or after executing it, what took effect of a transaction has no gaps.
THEOREM NoStatementIsSkipped == Spec => []NoGaps
<1>1. Init => SessionInv /\ TypeInv /\ GapInv
  <2> SUFFICES ASSUME Init PROVE SessionInv /\ TypeInv /\ GapInv
    OBVIOUS
  <2>1. rows = [s \in AllStatements |-> 0]
    BY DEF Init, Abstract!Init, AllStatements
  <2>2. \A t \in Txns : \A i \in 1..Size[t] : <<t, i>> \in AllStatements
    BY DEF AllStatements, Abstract!AllStatements, Abstract!Statements
  <2>3. \A t \in Txns : Durable(t) = {}
    BY <2>1, <2>2 DEF Durable
  <2>4. Runs
    BY <2>3 DEF Runs, Consecutive
  <2> QED
    BY <2>4, TypeInit DEF Init, SessionInv, GapInv
<1>2. GapInv => NoGaps
  <2> SUFFICES ASSUME GapInv, NEW t \in Txns, NEW a \in 1..Size[t], NEW b \in 1..Size[t],
                      NEW c \in 1..Size[t], a < b, b < c, rows[<<t, a>>] > 0, rows[<<t, c>>] > 0
               PROVE  rows[<<t, b>>] > 0
    BY DEF NoGaps
  <2>1. a \in Durable(t) /\ c \in Durable(t) /\ b \in Nat
    BY DEF Durable
  <2>2. b \in Durable(t)
    BY <2>1 DEF GapInv, Runs, Consecutive
  <2> QED
    BY <2>2 DEF Durable
<1> QED
  BY <1>1, <1>2, SessionStep, TypeStep, GapStep, PTL DEF Spec
=============================================================================
