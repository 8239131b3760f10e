SPECIFICATION RegSpec
CONSTANTS
    Clients = {c1, c2, c3}
    NoOwner = NoOwner
    NoEntity = NoEntity
    MaxObjectId = 3
    Uniqifiers = {1}
    Buckets = {0}
    LeaseSize = 1
    Departing = {c1}
    Natives = {}
    MaxCommands = 1
INVARIANT LeaseSurvivesOthers
