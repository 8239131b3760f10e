SPECIFICATION RegSpec
CONSTANTS
    Clients = {c1, c2}
    NoOwner = NoOwner
    NoEntity = NoEntity
    MaxObjectId = 2
    Uniqifiers = {1}
    Buckets = {0, 1}
    LeaseSize = 1
    Departing = {}
    Natives = {"movePlayer"}
    MaxCommands = 1
PROPERTY BucketPreserved
