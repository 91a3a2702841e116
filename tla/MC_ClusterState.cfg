CONSTANTS
    NodeNames = {n1, n2}
    PodKeys = {p1}
    MaxChanges = 2
    MaxFailures = 1
SPECIFICATION Spec
CHECK_DEADLOCK FALSE
PROPERTY ClusterStateConverges
