SPECIFICATION Spec
CONSTANTS
    alice = alice
    bob = bob
    carol = carol
    Sessions = {alice, bob}
    NoSession = NoSession
    Files = {f, g}
    RemoteID <- SharedIDs
    FirstID = 2
    MaxID = 5
    MaxLogins = 2
    MaxOffered = 0
    Relogin = FALSE
INVARIANT
    OffersPreserved
