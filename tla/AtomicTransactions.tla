------------------------- MODULE AtomicTransactions -------------------------
(***************************************************************************)
(* What CommitTransaction and DirectCommitTransaction promise of the       *)
(* character, world and login databases: the statements appended to a      *)
(* transaction become durable together and once, or never. The promise     *)
(* ends when the session with the server is lost, or does not start a      *)
(* transaction.                                                            *)
(***************************************************************************)
EXTENDS Naturals

CONSTANTS
    Txns,       \* the transactions handed to the connection
    Size        \* how many statements were appended to each

VARIABLES
    rows,       \* how often each statement has taken durable effect
    lost        \* the session was lost, or started no transaction, at some time

Statements(t) == {t} \X (1..Size[t])
AllStatements == UNION {Statements(t) : t \in Txns}

\* The table contents after every statement of S took effect once more.
Plus(S) == [s \in AllStatements |-> IF s \in S THEN rows[s] + 1 ELSE rows[s]]

Init ==
    /\ rows = [s \in AllStatements |-> 0]
    /\ lost = FALSE

Commit(t) ==
    /\ ~lost
    /\ \A s \in Statements(t) : rows[s] = 0
    /\ rows' = Plus(Statements(t))
    /\ UNCHANGED lost

\* Nothing is said of the tables from here on.
SessionLost == lost' = TRUE

Next == SessionLost \/ \E t \in Txns : Commit(t)

Spec == Init /\ [][Next]_<<rows, lost>>
=============================================================================
