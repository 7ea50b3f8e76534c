SPECIFICATION Spec
CONSTANTS
    RuntimesList <- MCRuntimes
    Cases <- MCCases
    AllCases <- MCCases
    N = 2
    Modes = 2
    Heavy = "audio_dsp"
    LeftOut = "sqlite3"
    Plans <- AllPlans
    IdContains <- MCContains
    Referenced <- MCReferenced
    KnownCrashes <- MCKnownCrashes
    BigStack = {"wasmz"}
    Outcomes <- MCOutcomes
    MaxRuns = 2
INVARIANTS
    OnlyNewCrashesCostRows
    LinesAreTheCases
    RatioOfOneCapture
