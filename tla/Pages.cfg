CONSTANTS
    Presets <- MCPresets
    Angles <- MCAngles
    NoSkew <- MCNoSkew
    DefaultDpi = 1
    Jobs <- MCJobs
    MaxCrashes = 1
    MaxFaults = 1

SPECIFICATION Spec

INVARIANTS
    PagesTypeOK
    ComponentsExact
    MorphologyLaws
    ContentArrives
    BatchAccounts
    ListsTruthful

PROPERTIES
    StepsExact
