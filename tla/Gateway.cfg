SPECIFICATION GatewaySpec
CONSTANTS
    Sources = {1, 2}
    BastonClients = {}
    Early = {1}
    Operators = {1}
    Peers = {p, q}
    NoSource = 0
    NoPeer = nopeer
    ControlCapacity = 1
    MaxReconnects = 1
    MaxKicks = 2
    MaxMoves = 1
    Logins = {1, 2}
    Offers <- MCOffers
    NoTicket = noticket
    MaxKey = 2
    MaxClock = 3
    Getters = {g, h}
    FileSizes = {0, 3}
    RangeBounds = {0, 1, 3}
    Concurrency = 1
    ChunkSize = 2
    MaxRewrites = 1
    Oracles = {o}
    Loaders = {f}
    NoCaller = nocaller
    MaxQueries = 2
    Slots = {32, 64, 200}
    PolicyLists = {{"onesync_plus", "onesync"}, {"other"}}
CHECK_DEADLOCK FALSE
INVARIANTS
    
    TicketsHonest
    DownloadsHonest
    SidecarHonest
    IdentityHonest
PROPERTIES
    SessionsServed
    BrokersEnd
    
