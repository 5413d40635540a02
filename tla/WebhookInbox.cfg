\* A message delivered twice, a worker and a request; a failure, a crash.
CONSTANTS
    e1 = e1
    e2 = e2
    m1 = m1
    m2 = m2
    Messages = {m1, m2}
    Events = {e1, e2}
    Payload <- Redelivered
    Workers = {w1}
    Requests = {r1}
    NoEvent = NoEvent
    MaxAttempts = 2
    MaxFailures = 1
    MaxCrashes = 1
SPECIFICATION FairInboxSpec
INVARIANTS InboxTypeOK OneHandlerPerMessage
PROPERTIES EveryEventEnds EveryMessageHandled
\* Processed events leave nothing to do.
CHECK_DEADLOCK FALSE
