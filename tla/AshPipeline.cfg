CONSTANTS
    N = 2
    Codes <- MCCodes
    PipeCap = 1
    MaxOut = 2
SPECIFICATION Spec
INVARIANTS PipelineInv EofIsHonest ReturnHearsAll StatusIsReference
PROPERTIES PipelineEnds StagesEnd
