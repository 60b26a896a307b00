CONSTANTS
    MaxJobs = 2
    Pids <- MCPids
    Codes <- MCCodes
    Signals <- MCSignals
    DefaultHandled <- MCDefaultHandled
    Actions <- MCActions
    SigCap = 1
    MaxArgs = 1
    StaleRefs = FALSE
    RecyclePids = FALSE
SPECIFICATION Spec
INVARIANTS PidsConsistent ToldOnce
PROPERTIES KillHitsItsTarget ImplementsLedger
