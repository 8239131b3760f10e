SPECIFICATION Spec
CONSTANTS
    Players = {p1}
    Zones = {za, zb}
    NoZone = NoZone
    Leavers = {p1}
    Drivers = {p1}
    MaxPeds = 1
    MaxTimeouts = 1
    MaxLate = 1
    MaxInflight = 1
    MaxFailures = 1
SYMMETRY ZonesAlike
ACTION_CONSTRAINTS OneFault OneBurden
INVARIANT InFlightHasCoroutine
