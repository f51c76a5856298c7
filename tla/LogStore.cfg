SPECIFICATION Spec
CONSTANTS
    Eras <- FourEras
    Snapshots = {3}
    CompactionThreshold = 2
    Overlap = FALSE
    MaxIndex = 5
    MaxFailures = 1
    MaxCrashes = 2
INVARIANTS TypeOK Positional AckedHeld CrashLosesNothing NextToApplyKept
