\* Two conversations of one citizen, a web complaint, one loss.
CONSTANTS
    Conversations = {c1, c2}
    Web = {g1}
    Locations = {l1, l2}
    Sessions = {s1, s2}
    None = None
    MaxLosses = 1
SPECIFICATION FairSpec
INVARIANTS TypeOK DraftIsComplete AnsweredOnce
PROPERTIES ClosedIsFinal WaitEnds
\* Two closed conversations leave nothing to do.
CHECK_DEADLOCK FALSE
