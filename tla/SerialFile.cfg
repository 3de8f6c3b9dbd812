SPECIFICATION Spec
CONSTANTS
    Procs = {p1, p2}
    Baudrates <- MCBaudrates
    MaxCalls = 3
    NoLock = NoLock
    Nothing = Nothing
SYMMETRY MCSymmetry
INVARIANTS
    TypeOK
    PortIsMine
    NoStaleLock
