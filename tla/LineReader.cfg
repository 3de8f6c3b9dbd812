SPECIFICATION Spec
CONSTANTS
    Lower <- MCLower
    Chars <- MCChars
    Names <- MCNames
    Quits <- MCQuits
    MaxEntries = 2
    MaxTyped = 2
    MaxLines = 2
INVARIANTS
    TabFindsEntry
    SplitLosesNothing
PROPERTIES
    TabKeepsEntries
