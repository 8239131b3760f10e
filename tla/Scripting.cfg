SPECIFICATION ScriptingSpec
CONSTANTS
    Clients = {c1, c2}
    NoOwner = NoOwner
    NoEntity = NoEntity
    MaxObjectId = 3
    Uniqifiers = {1}
    Buckets = {0}
    LeaseSize = 1
    Departing = {c1}
    Natives = {"spawn"}
    MaxCommands = 1
    Scripts = {a}
    Managers = {m, n}
    Udp = udp
    NoScript = noscript
    MaxEventChain = 2
    MaxOps = 2
    MaxEvents = 1
    MaxLoadErrors = 1
    Dispatches = {d, l}
    Loads = {l}
    MaxAwaits = 2
    MaxStretches = 3
    Callees = {1, 2}
    BridgeCapacity = 1
    MaxCalls = 2
    MaxOwnerMoves = 1
    MaxInbound = 1
    MaxOutbound = 3
    MaxIncarnations = 2
    QueueDepth = 1
    Permits = 1
    Isolates = {i}
    Sweeper = sweeper
    Torn = torn
    Absent = absent
    KvpKeys = {x, y}
    MaxKvpWrites = 2
    MaxDiskErrors = 1
    MaxKvpCrashes = 1
INVARIANTS
    RegistrySafe
    
    
    
    NativesSafe
    HttpSafe
    StoreSafe
PROPERTIES
    OwnerlessAdopted
    OperationsEnd
    
