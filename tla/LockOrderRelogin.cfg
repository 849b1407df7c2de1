SPECIFICATION Spec
CONSTANTS
    Clients = {a, b}
    Admin = Admin
    None = None
    MayStall = {}
    Relogin = TRUE
PROPERTY
    AdminAnswered
CHECK_DEADLOCK FALSE
