CONSTANTS
    Specs = {s1, s2}
    Finalizing = TRUE
    MaxChanges = 3
    MaxFailures = 2
SPECIFICATION Spec
CHECK_DEADLOCK FALSE
PROPERTY ForeignFinalizerKept
