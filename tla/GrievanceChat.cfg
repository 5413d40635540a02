\* One chat complaint, one worker, two requests, any decision, one crash.
CONSTANTS
    Complaints = {g1}
    Web = {}
    Owned = {}
    Workers = {w1}
    Requests = {r1, r2}
    NoComplaint = NoComplaint
    Decisions <- AllDecisions
    Verdicts = {"approved", "rejected"}
    Unreadable = {}
    SlowRuns = FALSE
    MaxAttempts = 2
    MaxErrors = 3
    MaxRedo = 0
    MaxCrashes = 1
SPECIFICATION FairSpec
INVARIANTS AttemptsCapped DispatchingIsSwept 
PROPERTIES   WindowAndDispatchEnd 
\* A settled complaint leaves nothing to do.
CHECK_DEADLOCK FALSE
