CONSTANTS
    MaxJobs = 2
    Pids = {101}
    Codes = {3}
    Signals <- MCSignals
    DefaultHandled <- MCDefaultHandled
    Actions = {"none", "run"}
    SigCap = 1
    MaxArgs = 1
    StaleRefs = TRUE
    RecyclePids = TRUE
SPECIFICATION Spec
INVARIANTS OrderConsistent StatusStillToCome
PROPERTIES WaitWakes WaitReturns
