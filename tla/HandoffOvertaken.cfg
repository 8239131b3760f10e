SPECIFICATION Spec
CONSTANTS
    Players = {p1}
    Zones = {za, zb}
    NoZone = NoZone
    Leavers = {}
    Drivers = {}
    MaxPeds = 1
    MaxTimeouts = 0
    MaxLate = 1
    MaxInflight = 0
    MaxFailures = 0
INVARIANT ReleaseNeverOrphans
