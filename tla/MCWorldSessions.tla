-------------------------- MODULE MCWorldSessions --------------------------
EXTENDS WorldSessions

CONSTANTS a1, a2, a3

MCAccounts == {a1, a2, a3}
MCMaxLogins == [a \in MCAccounts |-> IF a = a1 THEN 2 ELSE 1]
=============================================================================
