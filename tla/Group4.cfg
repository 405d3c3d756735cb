CONSTANTS
    LiteralBits = 3
    MaxBits = 5
    MaxRun = 4
    Unit = 10
    Digits = 6
    PerMicro = 2
    MicrosPerSecond = 3
    BadValue = BadValue
    Docs <- MCOutput
    Again <- MCNone
    Cuts <- MCCuts
SPECIFICATION Spec
CHECK_DEADLOCK FALSE
INVARIANT OutputReadsBack
