SPECIFICATION Spec
CONSTANTS
    Players = {p1}
    Zones = {za, zb}
    NoZone = NoZone
    Leavers = {p1}
    Drivers = {}
    MaxPeds = 1
    MaxTimeouts = 0
    MaxLate = 0
    MaxInflight = 0
    MaxFailures = 0
INVARIANT NothingLeftBehind
