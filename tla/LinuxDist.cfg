SPECIFICATION Spec
CONSTANTS
    Versions <- MCVersions
    Garbage <- MCGarbage
    NoFile = NoFile
INVARIANTS
    VersionOrderIsRight
    ListedPass
    OnlyListedPass
