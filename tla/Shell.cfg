CONSTANTS
    Names = {"x"}
    Values = {"a"}
    MaxDepth = 2
    RedirSpecs <- MCSpecs
    MaxOpen = 2
    MaxFrames = 2
    Lines = 3
    BufLines = 2
    MaxWords = 2
    Seps = {"|", "and", "or", ";", "&", "NL", " "}
    Inner = {"|", "and", ";", "NL", " "}
    MaxTokens = 11
INIT Init
NEXT Next
INVARIANTS StreamsKept ScannersAgree  WordsRight ExpansionsRight ParametersRight
PROPERTIES ScopesKept LinesInOrder
CHECK_DEADLOCK FALSE
