CONSTANTS
    MaxJobs = 2
    Pids = {101}
    Codes = {3}
    Signals = {}
    DefaultHandled = {}
    Actions <- MCActions
    SigCap = 0
    MaxArgs = 1
    StaleRefs = TRUE
    RecyclePids = FALSE
SPECIFICATION Spec
INVARIANT ExitCodeExtracted
