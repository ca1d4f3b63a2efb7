CONSTANTS
    Readers = {r1, r2}
    Writers = {w1}
    Size = 1
    Iterations = 2
    Values = {a, b}
    None = none
SPECIFICATION FairSpec
CHECK_DEADLOCK FALSE
PROPERTY CleanShutdown
