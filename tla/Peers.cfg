SPECIFICATION Spec
CONSTANTS
    a = a
    b = b
    six = six
    odd = odd
    V4 = {a, b}
    V6 = {six}
    Spellings = {odd}
    Spelled <- Odd
    Bad = Bad
    Configs <- ConfiguredPeers
    Lists <- ListBodies
    Alive = {b, six}
    ByteSize = 3
INVARIANTS
    ListsDecode
    TaughtByKnown
PROPERTIES
    AnsweringPeersSeen
CHECK_DEADLOCK FALSE
