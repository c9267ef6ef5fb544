\* The parts of a browser peer, one at a time.
SPECIFICATION Spec
CONSTANTS
    ClockD = 3
    ClockMaxTime = 3
    ClockMaxCalls = 5
    TurnTasks = {"f", "g"}
    TurnJobs = {"j"}
    TurnItems = 3
    TurnS = 2
    TurnK = 2
    TurnMaxTurns = 5
    PutKeys = {"k", "l", "m"}
    PutMessages = {"m1", "m2", "m3"}
    PutEntries <- ThreeMessages
    PutAnswers = {"m3"}
    PutMisses = {"m3"}
    PutChunk = 1
    PutMaxTime = 2
    PutMaxFaults = 1
    DupIds = {"i", "j"}
    DupAge = 2
    DupSlack = 1
    DupBatch = 1
    DupMaxTime = 7
    OnceOthers = {"o", "p"}
    OnceMaxMessages = 4
    SoulCallers = {"a", "b"}
    SoulPeers = {"p", "q"}
    SoulMaxFound = 2
    ResyncLack = 4
    ResyncMaxTime = 12
    ResyncMaxByes = 3
    MeshPack = 2
    MeshS = 1
    MeshRetries = 2
    MeshMaxMessages = 3
    MeshMaxSockets = 3
    MeshMaxHides = 1
    WireNodes = {1, 2, 3, 4}
    WireLinks <- Diamond
    WireListed <- CutLists
    WireAsker = 1
    WireWriter = 3
    WireHeld <- Versions
    WireWritten = 3
    EventsTags = {"a"}
    EventsListeners = {x, y, z}
    EventsMaxObjects = 2
    EventsMaxEvents = 1
    ReadListeners = {"l", "m"}
    ReadWrites = {"u", "v", "w"}
    ReadLocal = {"u", "v"}
    ReadSize <- ThreeSizes
    WalkObjects = {"o1", "o2", "o3", "o4"}
    WalkRoot = "o1"
    WalkKeys <- TwoKeys
    WalkShapes <- FourShapes
    WalkValues = {"v"}
    WalkOwn = {"o4"}
    WalkFound = {"F"}
    ValidNames = {"a", "_"}
    ValidSouls = {"A", "B"}
    ValidMaxEntries = 3
    TextTexts <- ShortTexts
    TextLexes <- SomeLexes
    TextPuts <- ThreeKeys
    TextModulus = 256
    TextChunk = 2
INVARIANTS
    EventsReachListeners
    TurnForgetsNobody
    PutAnswersAreTrue
    MeshKeepsMessages
    WireReachesAll
    LinkHearsTheGraph
    GraphIsTheObject
    TextAgrees
    ValidDataSurvives
PROPERTIES
    ClockStatesAreUnique
    TurnListsEnd
    PutLatestIsKept
    MeshComesBack
    DupKnowsTheRecent
    ReadWaitsForWrites
    WalkSendsTheObject
    OnceIsOnce
    SoulToldToAll
    ResyncAskedWhenBack
CHECK_DEADLOCK FALSE
