\* One worker, two corrections; p has a reviewed route, q has none.
CONSTANTS
    q = q
    old = old
    Canonical = {p, q, u}
    Legacy = {old}
    LegacyOf <- LegacyKeys
    Foreign = {}
    NoCategory = NoCategory
    Urgent = {}
    Immediate = {}
    External = {}
    Unclear = {u}
    Unmapped = u
    Enabled = {p}
    Workers = {w1}
    Patches = {c1, c2}
    Officials = {}
    Answers = {}
    Null = Null
    Scopes = {"unknown"}
    Safeties = {"none"}
    Verbs = {"approve", "redirect"}
    MaxVersion = 2
    MaxCrashes = 0
SPECIFICATION Spec
INVARIANT LiveRouteIsReviewed
\* Every job and request may be over.
CHECK_DEADLOCK FALSE
