SPECIFICATION OneSyncSpec
CONSTANTS
    Clients = {c1, c2}
    NoOwner = NoOwner
    NoEntity = NoEntity
    MaxObjectId = 2
    Uniqifiers = {1}
    Buckets = {0, 1}
    LeaseSize = 1
    Departing = {c1}
    Natives = {"movePlayer", "lockdown", "moveEntity", "despawn"}
    MaxCommands = 1
    Ids = {1, 2}
    Weight <- MCWeight
    Cost <- MCCost
    Budget = 2
    RemoveBudget = 1
    PriorityCap = 3
    MaxUniq = 1
    MaxFrame = 4
    MaxTransit = 1
    MaxFaults = 1
    MaxWait = 2
    TreeTypes = {"Automobile", "Ped", "Object"}
    Modes <- MCModes
    Sendable = {"GlobalFlags", "Sector", "SectorPosition", "PedGameState"}
    Creations = {"VehicleCreation", "PedCreation"}
    Patterns <- MCPatterns
    Positions <- MCPositions
    Losses = {0, 3}
    MaxBody = 250
    MaxSyncs = 2
    NetIds = {1, 2}
    NoNet = nonet
    GAME_PLAYER_CAP = 3
    RESERVED_LOCAL_SLOT = 1
    NoSlot = noslot
    WORLD_OFFSET = 4
    WORLD_GRID_CELL = 3
    WORLD_GRID_DIM = 3
    WORLD_GRID_CLAIM_RADIUS = 2
    WORLD_GRID_ENTRIES = 3
    Coords <- MCCoords
    TickConfigs <- MCTickConfigs
    One = 20
    Samples = {2, 12, 18, 40}
    Pressures = {0, 12, 20}
INVARIANTS
    RegistrySafe
    NoStarvation
    ViewHonest
    SyncsLearned
    GridTables
    RateBounded
PROPERTIES
    WindowCovered
    RiseIsEarned
