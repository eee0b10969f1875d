SPECIFICATION Spec
CONSTANTS
    w1 = w1
    w2 = w2
    azeroth = azeroth
    raid = raid
    r1 = r1
    r2 = r2
    NoMap = NoMap
    Readers <- MCWorkers
    HighWaterMark = 2
    Continents <- MCContinents
    Dungeons <- MCDungeons
    Instances <- MCInstances
    ParentOf <- MCParentOf
INVARIANTS TypeOK Barrier NoDeletedMapInUse OneUpdatePerMap TickIsComplete
PROPERTY WorldThreadReturns
