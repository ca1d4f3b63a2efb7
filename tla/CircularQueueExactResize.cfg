CONSTANTS
    Values = {a, b}
    Junk = junk
    MaxSize = 4
    ExactResize = TRUE
SPECIFICATION Spec
INVARIANT TailIsFreePosition
