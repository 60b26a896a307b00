CONSTANTS
    Signals <- MCTerm
    DefaultHandled <- MCNone
    Main = main
    Jobs = {}
    Codes <- MCCodes
    Commands <- CmdActions
    MaxDepth = 2
    MaxKept = 1
    MaxNotices = 1
    ChanCap = 1
SPECIFICATION Spec
INVARIANTS ActionsRemembered
PROPERTIES ExitSticks
