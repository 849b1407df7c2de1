SPECIFICATION Spec
CONSTANTS
    Clients = {a, b}
    Admin = Admin
    None = None
    MayStall = {b}
    Relogin = FALSE
INVARIANTS
    NoCircularWait
    LocksReleased
PROPERTIES
    AdminAnswered
    RequestsServed
