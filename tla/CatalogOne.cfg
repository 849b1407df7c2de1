SPECIFICATION Spec
CONSTANTS
    Admins = {a}
    Hashes = {g, h}
    Records = {r, s}
    NoRecord = NoRecord
    Open = Open
    Backends = {"json", "sql"}
    MaxChanges = 4
    MaxFaults = 2
INVARIANTS
    ConfirmedIsStored
    SuccessRepairs
PROPERTY
    RestartRestores
CHECK_DEADLOCK FALSE
