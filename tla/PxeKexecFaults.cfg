SPECIFICATION FairSpec
CONSTANTS
    Labels <- MCLabels
    Fold <- MCFold
    Kernels <- MCKernels
    Initrds <- MCInitrds
    Args <- MCArgs
    NoArgs = ""
    NoLabel = NoLabel
    NoKernel = NoKernel
    NoInitrd = NoInitrd
    NoParameter = NoParameter
    ExitCodes = {0, 1, 255}
    Signals = {9}
    Faults = {"config", "download", "open", "flush", "fork", "signal", "wait", "vt", "kill"}
    CmdLines <- MCCmdLines
    Envs <- MCEnvs
    Configs <- MCConfigs
    MaxInput = 3
    HaveReadline = FALSE
    NoImage = NoImage
    OldImage = OldImage
    NoFile = NoFile
    NotShown = NotShown
INVARIANTS
    FailureLeavesMachineUp
PROPERTIES
    Termination
    DryRunTouchesNothing
