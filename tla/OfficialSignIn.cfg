\* An official's address and a stranger's, two requests at once, one fault.
CONSTANTS
    Emails = {e1, e2}
    Accounts = {e1}
    Challenges = {h1, h2, h3}
    Sessions = {r1, r2}
    None = None
    DevCode = TRUE
    Cap = 1
    MaxGuesses = 2
    MaxFaults = 1
SPECIFICATION Spec
INVARIANTS OneLoginPerChallenge GuessesBounded HourlyIssueBounded
SYMMETRY Interchangeable
\* Every challenge may have expired.
CHECK_DEADLOCK FALSE
