CONSTANTS
    Codes = {0, 1}
    MaxDepth = 5
    MaxJump = 2
SPECIFICATION Spec
INVARIANT JumpsRight
PROPERTIES FlagsKept JumpsArrive
