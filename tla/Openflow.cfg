CONSTANTS
    NumTables = 2
    MaxFlows = 2
    MaxPorts = 3
    IntHalf = 4
    MaxClock = 5
    Rates <- MCRates
    MaxReconf = 1
    Topics <- MCTopics
    Samples <- MCSamples
    Can <- MCCan
    MaxMessages <- MCMaxMessages
SPECIFICATION Spec
INVARIANTS
    TypeOK
    AnswersTrue
    ControllerView
    NothingLost
    PacketInsLimited
CHECK_DEADLOCK FALSE
