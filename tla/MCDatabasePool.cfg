SPECIFICATION Spec
CONSTANTS
    world = world
    map = map
    w1 = w1
    w2 = w2
    NoOp = NoOp
    Callers <- MCCallers
    WorldThread = world
    Readers <- MCWorkers
    HighWaterMark = 2
    Connections = 2
    MaxOps = 2
INVARIANTS TypeOK ConnectionsAccounted DelayedInOrder
PROPERTY NobodySleepsForEver
