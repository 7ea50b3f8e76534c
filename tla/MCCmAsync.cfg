SPECIFICATION CmFairSpec
CONSTANTS
    REPS = 2
    SEQ_CALLS = 2
    CONCURRENT = 2
    CHUNK = 3
    CHUNKS = 3
    STALL_LIMIT = 2
INVARIANTS
    NothingSkipped
PROPERTIES
    PhasesEnd
