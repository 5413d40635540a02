\* One worker, one correction, one official, one confirmation, one crash; a legacy
\* key, a wrong one.  The confirmation multiplies the states: one scope, one safety.
CONSTANTS
    q = q
    old = old
    Canonical = {p, q, u}
    Legacy = {old}
    LegacyOf <- LegacyKeys
    Foreign = {odd}
    NoCategory = NoCategory
    Urgent = {}
    Immediate = {q}
    External = {}
    Unclear = {u}
    Unmapped = u
    Enabled = {p}
    Workers = {w1}
    Patches = {c1}
    Officials = {o1}
    Answers = {y1}
    Null = Null
    Scopes = {"unknown"}
    Safeties = {"none"}
    Verbs = {"approve", "redirect"}
    MaxVersion = 2
    MaxCrashes = 1
SPECIFICATION Spec
INVARIANTS CoherentUnlessStale NextKeyFree
PROPERTIES SeenChoiceKept
\* Every job and request may be over.
CHECK_DEADLOCK FALSE
