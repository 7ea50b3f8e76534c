SPECIFICATION RunnerSpec
CONSTANTS
    Runners <- Wasm3Only
    Careful = {}
    MaxRepeats = 2
INVARIANTS
    BytesOutliveModule
