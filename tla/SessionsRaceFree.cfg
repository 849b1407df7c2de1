SPECIFICATION RaceFreeSpec
CONSTANTS
    alice = alice
    bob = bob
    carol = carol
    Sessions = {alice, carol}
    NoSession = NoSession
    Files = {f, g}
    RemoteID <- SharedIDs
    FirstID = 2
    MaxID = 5
    MaxLogins = 3
    MaxOffered = 1
    Relogin = FALSE
INVARIANTS
    TypeOK
    UniqueIDs
    OwnersConnected
    OffersPreserved
    IndexExact
    RegistryLive
    CapAcrossBatches
PROPERTY
    RevokedOnDisconnect
