CONSTANTS
    Names = {it1, it2}
    MaxOptions = 7
SPECIFICATION Spec
CHECK_DEADLOCK FALSE
INVARIANT ListingIsExact
