CONSTANTS
    Signals <- MCSignals
    DefaultHandled <- MCDefaultHandled
    Main = main
    Jobs = {}
    Codes <- MCCodes
    Commands <- CmdSubshells
    MaxDepth = 2
    MaxKept = 1
    MaxNotices = 1
    ChanCap = 1
SPECIFICATION Spec
INVARIANTS DispositionsMatch SubshellHearsItsTraps
