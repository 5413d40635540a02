SPECIFICATION Spec
CONSTANTS
    Phones = {p, q}
    Linked = {p}
    Codes = {c1}
    Challenges = {h1, h2}
    Tokens = {t1, t2}
    Sessions = {s1, s2}
    None = None
    Cap = 1
    MaxFaults = 1
INVARIANTS GrantedOnce LoginAsAnswered PromptWorks
PROPERTIES KeepsLoginPromise DecisionIsFinal
SYMMETRY SessionsAlike
CHECK_DEADLOCK FALSE
