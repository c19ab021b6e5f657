SPECIFICATION Spec
CONSTANTS
    a1 = a1
    a2 = a2
    Attempts <- MCAttempts
SYMMETRY AttemptSymmetry
INVARIANT Reboxed
