\* A web complaint or an owned chat complaint, one worker, one request, one crash.
CONSTANTS
    Complaints = {g1, g2}
    Web = {g1}
    Owned = {g1, g2}
    Workers = {w1}
    Requests = {r1}
    NoComplaint = NoComplaint
    Decisions <- TwoDecisions
    Verdicts = {"approved"}
    Unreadable = {g1, g2}
    SlowRuns = FALSE
    MaxAttempts = 1
    MaxErrors = 0
    MaxRedo = 1
    MaxCrashes = 1
SPECIFICATION Spec
CONSTRAINT OneBegun
INVARIANTS FiledOnlyIfConfirmed CompletedJobHasRun
\* A settled complaint leaves nothing to do.
CHECK_DEADLOCK FALSE
