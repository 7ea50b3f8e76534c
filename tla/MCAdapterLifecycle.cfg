SPECIFICATION RunnerSpec
CONSTANTS
    Runners <- AllRunners
    Careful <- CarefulRunners
    MaxRepeats = 2
INVARIANTS
    UsesAreLive
    DependenciesOutlive
    NothingLeaks
PROPERTIES
    TeardownIsNotMeasured
