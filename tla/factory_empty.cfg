SPECIFICATION Spec
CONSTANTS
    Sizes = {1, 5}
    Overflows = {3}
    DefaultSize = 5
    DefaultOverflow = 3
INVARIANTS
    EmptyModeConnects
