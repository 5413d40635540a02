\* Three jobs, two workers, batches of two, one crash.
CONSTANTS
    Jobs = {j1, j2, j3}
    Workers = {w1, w2}
    BatchSize = 2
    MaxAttempts = 2
    SlowBatches = FALSE
    MaxCrashes = 1
SPECIFICATION FairSpec
INVARIANTS TypeOK
PROPERTIES LeasesExclude EveryJobSettles
\* A drained queue leaves nothing to do.
CHECK_DEADLOCK FALSE
