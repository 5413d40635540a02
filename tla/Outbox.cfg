\* Two replies, two workers, a request; failures, lost answers, a crash.
CONSTANTS
    Messages = {m1, m2}
    Sweepers = {w1, w2}
    Requests = {r1}
    NoMessage = NoMessage
    MaxSend = 1
    SlowSends = FALSE
    MaxLost = 3
    MaxCrashes = 1
SPECIFICATION FairSpec
INVARIANTS SentMeansAccepted CallsBounded
PROPERTIES LeasesExclude EveryReplyEnds
\* A settled reply leaves nothing to do.
CHECK_DEADLOCK FALSE
