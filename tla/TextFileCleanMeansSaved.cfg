SPECIFICATION Spec
CONSTANTS
    MaxVersion = 2
    MaxWrites = 1
    MaxMishaps = 0
INVARIANT CleanMeansSaved
CHECK_DEADLOCK FALSE
