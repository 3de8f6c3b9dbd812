SPECIFICATION FairSpec
CONSTANTS
    r1 = r1
    r2 = r2
    r3 = r3
    Runs = {r1, r2, r3}
    WithInitrd = {r1, r2}
    NoDelete = {r3}
    Foreign <- MCForeign
    Other = Other
    Earlier = {r3}
    Faults = {"download", "kexec", "kill"}
    Nothing = Nothing
INVARIANTS
    TypeOK
    ForeignFilesUntouched
    LoadsItsOwn
    OwnFilesRemoved
PROPERTIES
    DeletesOnlyItsOwn
    Termination
