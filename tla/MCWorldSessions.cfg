SPECIFICATION Spec
CONSTANTS
    a1 = a1
    a2 = a2
    a3 = a3
    NoSession = NoSession
    Accounts <- MCAccounts
    Gms = {}
    Premium = {}
    Limits = {0, 1, 2}
    Tolerance = 0
    MaxLogins <- MCMaxLogins
INVARIANTS TypeOK QueueIsExact
PROPERTIES NobodyWaitsForNothing LimitKept NoOvertaking ClosedSessionsGo
