\* SIGVTALRM is 26 on Linux.
SPECIFICATION Spec
CONSTANTS
    SIGVTALRM = 26
    Quantum = 100
    Execution = 500
PROPERTY Terminates
CHECK_DEADLOCK FALSE
