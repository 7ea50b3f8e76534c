SPECIFICATION Spec
CONSTANTS
    Runners <- AllRunners
    Careful <- CarefulRunners
    MaxIters = 3
    BenchTarget = 5
    DefaultTarget = 1
    Asked = {0, 2}
    CpuTimes = {0, 2}
    Waits = {0, 1}
    Teardowns = {0, 1}
    MaxOthers = 1
INVARIANTS
    SizedToBudget
    StatisticsDescribeSamples
    CpuIsTheTimedCalls
    FastWithinCpu
