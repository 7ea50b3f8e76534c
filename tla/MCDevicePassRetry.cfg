SPECIFICATION Spec
CONSTANTS
    zwasm = zwasm
    pulley = pulley
    fib = fib
    xmrs = xmrs
    Reps = 1
    RuntimesList <- MCSplitOnly
    Split <- MCSplit
    Catalog <- MCCatalog
    Heavy <- MCHeavy
    MaxPolls = 2
PROPERTIES
    OnlyKillsStopRetries
