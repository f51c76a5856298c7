SPECIFICATION Spec
CONSTANTS
    Eras <- ShortEras
    Snapshots = {2}
    CompactionThreshold = 2
    Overlap = FALSE
    MaxIndex = 5
    MaxFailures = 0
    MaxCrashes = 0
INVARIANT Positional
