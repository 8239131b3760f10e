SPECIFICATION MeshSpec
CONSTANTS
    Players = {p1}
    Zones = {za, zb}
    NoZone = NoZone
    Leavers = {p1}
    Drivers = {}
    MaxPeds = 1
    MaxTimeouts = 1
    MaxLate = 1
    MaxInflight = 0
    MaxFailures = 0
    Peds = {d1, d2}
    Vehicles = {v}
    NoOwner = none
    Absent = absent
    Places = {0, 1, 2}
    AoiRadius = 1
    MaxWrites = 2
    MaxWriters = 2
    MaxBacklog = 1
    MaxFaults = 2
    DirZones = {1, 2, 3}
    DirPlayers = {q1, q2}
    Capacity <- MCCapacity
    Nowhere = nowhere
    MaxSilences = 1
    FwdZones = {z1, z2}
    NoFwdZone = nozone
    ForwardCapacity = 2
    MaxUpdates = 3
    MaxCommits = 2
INVARIANTS
    HandoffSafe
    PipelineHonest
    
    OrderKept
PROPERTIES
    ForwardsInOrder
    
