SPECIFICATION Spec
CONSTANTS
    Kinds <- MCKinds
    MaxPackets = 3
    UpdateLimit = 1
INVARIANTS TypeOK NothingGoneIsUsed PacketsAccounted OvertakenOnlyIfDelayed OncePerUpdate
PROPERTIES EveryPacketIsTaken
