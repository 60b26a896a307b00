CONSTANTS
    Signals <- MCTerm
    DefaultHandled <- MCNone
    Main = main
    Jobs = {job}
    Codes <- MCCodes
    Commands <- CmdJobs
    MaxDepth = 1
    MaxKept = 1
    MaxNotices = 0
    ChanCap = 1
SPECIFICATION Spec
INVARIANTS TypeOK
PROPERTIES SignalsHandled
