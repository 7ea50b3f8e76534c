SPECIFICATION FairSpec
CONSTANTS
    Rows = 3
    Outcomes = {"ok", "error"}
    MaxRuns = 2
INVARIANTS
    ScreenMatchesConsole
    OneWakefulWorker
PROPERTIES
    KeepsPromise
    RunsEnd
