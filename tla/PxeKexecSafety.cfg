SPECIFICATION Spec
CONSTANTS
    Labels <- MCLabels
    Fold <- MCFold
    Kernels <- MCKernels
    Initrds <- MCInitrds
    Args <- MCArgs
    NoArgs = ""
    NoLabel = NoLabel
    NoKernel = NoKernel
    NoInitrd = NoInitrd
    NoParameter = NoParameter
    ExitCodes = {0, 1, 255}
    Signals = {9}
    Faults = {"config", "download", "open", "fork", "kill"}
    CmdLines <- MCCmdLines
    Envs <- MCEnvs
    Configs <- MCConfigs
    MaxInput = 4
    HaveReadline = TRUE
    NoImage = NoImage
    OldImage = OldImage
    NoFile = NoFile
    NotShown = NotShown
INVARIANTS
    TypeOK
    PointOfNoReturn
    LoadsWhatWasShown
    LoadSeesWholeFiles
    ConsoleWhereItCan
PROPERTIES
    KeepsContract
