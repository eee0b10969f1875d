------------------------- MODULE MCMySQLTransaction -------------------------
EXTENDS MySQLTransaction

CONSTANTS t1, t2, t3

\* Three statements, two statements, and an empty transaction.
MCTxns == {t1, t2, t3}
MCSize == [t \in MCTxns |-> IF t = t1 THEN 3 ELSE IF t = t2 THEN 2 ELSE 0]
=============================================================================
