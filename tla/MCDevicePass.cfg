SPECIFICATION FairSpec
CONSTANTS
    zwasm = zwasm
    pulley = pulley
    fib = fib
    xmrs = xmrs
    Reps = 1
    RuntimesList <- MCRuntimes
    Split <- MCSplit
    Catalog <- MCCatalog
    Heavy <- MCHeavy
    MaxPolls = 2
INVARIANTS
    MarkerMeansComplete
    EveryCaseOnce
    KillsAreExplained
PROPERTIES
    RetriesLoseNothing
    PassEnds
