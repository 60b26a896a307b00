CONSTANTS
    Paths <- MCPaths
    Mounted <- MCMounted
    NameOrder <- MCNames
    MaxRemoved = 1
    Longest = 5
    MaxFaults = 1
    Codes <- MCCodes
INIT Init
NEXT Next
INVARIANTS FilesRight SedRight FiltersRight GrepRight DiffRight FindRight RunnersRight GzipRight
CHECK_DEADLOCK FALSE
