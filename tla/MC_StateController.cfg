CONSTANTS
    Keys = {k1, k2}
    MaxChanges = 4
    MaxFailures = 1
SPECIFICATION Spec
SYMMETRY MCSymmetry
CHECK_DEADLOCK FALSE
INVARIANT QuiescentStateMatches
