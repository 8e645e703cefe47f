CONSTANTS
    Processes = {p1, p2}
    Jobs <- MCJobs
    Observed <- MCObserved
    Fragile <- MCFragile
    MaxFaults = 1
SPECIFICATION StoreSpec
SYMMETRY Symmetry
INVARIANTS
    PublishedIsReplayable
    OnlyEarnedProof
