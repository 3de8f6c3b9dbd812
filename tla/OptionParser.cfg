SPECIFICATION Spec
CONSTANTS
    Options <- MCOptions
    Items <- MCItems
    Endings <- MCEndings
    MaxItems = 3
    Unset = Unset
    NoHost = NoHost
INVARIANTS
    TypeOK
    OptionsAsMeant
    ArgumentsAsMeant
