SPECIFICATION Spec
CONSTANTS
    Admins = {a, b}
    Hashes = {g, h}
    Records = {r, s}
    NoRecord = NoRecord
    Open = Open
    Backends = {"sql"}
    MaxChanges = 2
    MaxFaults = 0
INVARIANT
    ConfirmedIsStored
CHECK_DEADLOCK FALSE
