SPECIFICATION Spec
CONSTANTS
    k1 = k1
    k2 = k2
    NoKey = NoKey
    Keys <- MCKeys
    Times <- MCTimes
    NotBefore = 1
    ValidSeconds <- MCValidSeconds
    Width = 4
    MaxLifetime = 2
SYMMETRY KeySymmetry
INVARIANT TypeOK
INVARIANT AcceptedIsExpected
INVARIANT SidecarServes
