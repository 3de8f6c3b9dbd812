SPECIFICATION Spec
CONSTANTS
    Labels <- MCLabels
    Fold <- MCFold
    Kernels = {"k1", "k2"}
    Initrds = {"i1"}
    Args = {""}
    NoArgs = ""
    NoLabel = NoLabel
    NoKernel = NoKernel
    NoInitrd = NoInitrd
    NoParameter = NoParameter
    Texts = {"hello"}
    MaxLines = 5
INVARIANTS
    TypeOK
    EntriesAreSections
    CachedInitrdsAreRight
    LookupFindsFirst
