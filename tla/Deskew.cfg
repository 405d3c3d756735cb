CONSTANTS
    Presets <- MCPresets
    Angles <- MCAngles
    NoSkew <- MCNoSkew
    DefaultDpi = 1
    Jobs <- MCSkewedJobs
    MaxCrashes = 1
    MaxFaults = 1

SPECIFICATION Spec

PROPERTIES
    DeskewStraightens
