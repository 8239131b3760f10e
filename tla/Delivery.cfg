SPECIFICATION DeliverySpec
CONSTANTS
    Players = {p1}
    Zones = {za, zb}
    NoZone = NoZone
    Leavers = {}
    Drivers = {}
    MaxPeds = 3
    MaxTimeouts = 3
    MaxLate = 0
    MaxInflight = 0
    MaxFailures = 0
    Nets = {1, 2}
    Addrs = {a, b}
    GameChannels = {7}
    NoConn = noconn
    NoAddr = noaddr
    NoNet = 0
    Nowhere = nowhere
    Reconnecting = {1}
    MaxRequests = 1
    ByteBase = 8
    HalfByte = 4
    LateWindow = 3
    StartNonces = {6, 61}
    MaxDatagrams = 5
    MaxInFlight = 3
    MaxResyncs = 1
    Gets = {g, h}
    ClientFiles <- MCClientFiles
    Asset = "s"
    MaxChanges = 1
    PackPaths <- MCPackPaths
    PackLength <- MCPackLength
    MaxPacked = 4
    BagKeys = {k, l}
    BagResources = {r, s}
    AnyKey = anykey
    NotSetting = notsetting
    MaxPending = 2
    MaxReplicated = 1
    MaxVersion = 3
    MaxCookie = 1
INVARIANTS
    SettledInOneZone
    
    
    NoncesHonest
    CachesHonest
    ArchiveSound
    
